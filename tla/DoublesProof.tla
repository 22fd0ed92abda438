---------------------------- MODULE DoublesProof ----------------------------
(***************************************************************************)
(* Lemmas about the doubles of any format: what rounding upward and        *)
(* rounding to nearest return, the doubles next to another, and the        *)
(* operations that the bounds of intervals, the search of a root and the   *)
(* libraries are computed with; of the least and the greatest of the sums, *)
(* products and quotients of sets of integers, which bounds round; and of  *)
(* the powers of integers, which those of doubles stand for.               *)
(***************************************************************************)
EXTENDS Doubles, FiniteSetTheorems, WellFoundedInduction, SequenceTheorems, TLAPS

-----------------------------------------------------------------------------
(* A set of natural numbers has a least one.                                *)
LEMMA LeastNatural ==
  ASSUME NEW S, S \subseteq Nat, S # {}
  PROVE  \E m \in S : \A k \in S : m <= k
<1>1. PICK m \in S : \A k \in S : ~ (<<k, m>> \in OpToRel(<, Nat))
  BY NatLessThanWellFounded, WFMin
<1>2. \A k \in S : ~ (k < m)
  BY <1>1 DEF OpToRel
<1> QED
  BY <1>2

(* A set of numbers bounded below has a least one.                          *)
LEMMA LeastInteger ==
  ASSUME NEW S, S \subseteq Int, S # {}, NEW b \in Int, \A v \in S : b <= v
  PROVE  \E m \in S : \A k \in S : m <= k
<1> DEFINE T == {v - b : v \in S}
<1>1. T \subseteq Nat /\ T # {}
  <2>1. \A v \in S : v - b \in Nat
    OBVIOUS
  <2> QED
    BY <2>1
<1>2. PICK t \in T : \A k \in T : t <= k
  BY <1>1, LeastNatural
<1>3. PICK m \in S : t = m - b
  BY <1>2
<1>4. \A k \in S : m - b <= k - b
  BY <1>2, <1>3
<1> QED
  BY <1>3, <1>4

(* The largest magnitude, which makes the format end: Largest is one, and   *)
(* the infinity is beyond it.                                               *)
LEMMA LargestMagnitude ==
  /\ Largest \in Magnitudes /\ \A k \in Magnitudes : k <= Largest
  /\ Largest \in Nat /\ Largest >= 1 /\ One >= 1 /\ One \in Nat
<1> DEFINE above(m) == {k \in Magnitudes : k > m}
<1> DEFINE S == {Cardinality(above(m)) : m \in Magnitudes}
<1>1. \A m \in Magnitudes : IsFiniteSet(above(m)) /\ Cardinality(above(m)) \in Nat
  <2> TAKE m \in Magnitudes
  <2>1. above(m) \in SUBSET Magnitudes
    OBVIOUS
  <2>2. IsFiniteSet(above(m))
    BY <2>1, FS_Subset, MagnitudesAssumption
  <2> QED
    BY <2>2, FS_CardinalityType
<1>2. S \subseteq Nat /\ S # {}
  BY <1>1, MagnitudesAssumption
<1>3. PICK c \in S : \A d \in S : c <= d
  BY <1>2, LeastNatural
<1>4. PICK m \in Magnitudes : c = Cardinality(above(m))
  BY <1>3
<1>5. ASSUME NEW k \in Magnitudes, k > m PROVE FALSE
  <2>0. m \in Nat /\ k \in Nat /\ Magnitudes \subseteq Nat
    BY MagnitudesAssumption
  <2>1. above(k) \in SUBSET above(m) /\ k \in above(m) /\ k \notin above(k)
    <3>1. \A i \in Magnitudes : i > k => i > m
      BY <2>0, <1>5
    <3>2. k \notin above(k)
      BY <2>0
    <3> QED
      BY <1>5, <3>1, <3>2
  <2>2. /\ Cardinality(above(k)) <= Cardinality(above(m))
        /\ Cardinality(above(m)) = Cardinality(above(k)) => above(m) = above(k)
    BY <1>1, <2>1, FS_Subset
  <2>3. Cardinality(above(m)) <= Cardinality(above(k))
    BY <1>3, <1>4
  <2>4. Cardinality(above(m)) \in Nat /\ Cardinality(above(k)) \in Nat
    BY <1>1
  <2> QED
    BY <2>1, <2>2, <2>3, <2>4
<1>6. \A k \in Magnitudes : k <= m
  BY <1>5, MagnitudesAssumption
<1>7. Largest \in Magnitudes /\ \A k \in Magnitudes : k <= Largest
  BY <1>6 DEF Largest
<1> QED
  BY <1>7, MagnitudesAssumption

(* The finite doubles, as numbers of units, are between those of the largest *)
(* one and of its opposite, which are among them.                           *)
LEMMA FiniteNumsRange ==
  /\ FiniteNums \subseteq Int
  /\ \A v \in FiniteNums : -Largest <= v /\ v <= Largest /\ -v \in FiniteNums
  /\ Largest \in FiniteNums /\ -Largest \in FiniteNums /\ 0 \in FiniteNums
  /\ Magnitudes \subseteq FiniteNums
  /\ \A v \in FiniteNums : v >= 0 => v \in Magnitudes
  /\ \A v \in FiniteNums : v < 0 => -v \in Magnitudes
<1> Magnitudes \subseteq Nat /\ 0 \in Magnitudes
  BY MagnitudesAssumption
<1> Largest \in Magnitudes /\ Largest \in Nat /\ \A k \in Magnitudes : k <= Largest
  BY LargestMagnitude
<1>1. \A v \in FiniteNums : \/ v \in Magnitudes /\ v \in Nat
                            \/ -v \in Magnitudes /\ -v \in Nat /\ v \in Int
  BY DEF FiniteNums
<1>2. \A v \in Int : v \in Magnitudes \/ -v \in Magnitudes => v \in FiniteNums /\ -v \in FiniteNums
  BY DEF FiniteNums
<1>3. 0 \in FiniteNums /\ Largest \in FiniteNums /\ -Largest \in FiniteNums
  BY <1>2
<1>4. Magnitudes \subseteq FiniteNums
  BY DEF FiniteNums
<1>5. FiniteNums \subseteq Int
  BY <1>1
<1>6. \A v \in FiniteNums : /\ -Largest <= v /\ v <= Largest /\ -v \in FiniteNums
                            /\ v >= 0 => v \in Magnitudes
                            /\ v < 0 => -v \in Magnitudes
  <2> TAKE v \in FiniteNums
  <2>1. CASE v \in Magnitudes /\ v \in Nat
    <3>1. v < 0 => FALSE
      BY <2>1
    <3> QED
      BY <2>1, <3>1, <1>2
  <2>2. CASE -v \in Magnitudes /\ -v \in Nat /\ v \in Int
    <3>1. v >= 0 => v = 0
      BY <2>2
    <3> QED
      BY <2>2, <3>1, <1>2
  <2> QED
    BY <1>1, <2>1, <2>2
<1> QED
  BY <1>3, <1>4, <1>5, <1>6

(* Rounding upward to the finite doubles: Least(q) is the least one at or   *)
(* above q units.                                                           *)
LEMMA LeastIsLeast ==
  ASSUME NEW q \in Int, q <= Largest
  PROVE  /\ Least(q) \in FiniteNums
         /\ Least(q) >= q
         /\ \A w \in FiniteNums : w >= q => Least(q) <= w
<1> DEFINE leastFrom(i) ==
      CHOOSE v \in FiniteNums :
        /\ v >= i - Largest - 1
        /\ \A w \in FiniteNums : w >= i - Largest - 1 => v <= w
<1> DEFINE N == 2 * Largest + 1
<1> DEFINE f == [i \in 1 .. N |-> leastFrom(i)]
<1>1. \A i \in 1 .. N : /\ leastFrom(i) \in FiniteNums
                        /\ leastFrom(i) >= i - Largest - 1
                        /\ \A w \in FiniteNums : w >= i - Largest - 1 => leastFrom(i) <= w
  <2> TAKE i \in 1 .. N
  <2> DEFINE S == {v \in FiniteNums : v >= i - Largest - 1}
  <2>0. Largest \in Nat /\ i \in Int /\ i <= 2 * Largest + 1
    BY LargestMagnitude
  <2>1. S \subseteq Int /\ i - Largest - 1 \in Int /\ i - Largest - 1 <= Largest
    <3>1. S \subseteq Int
      BY FiniteNumsRange
    <3> QED
      BY <2>0, <3>1
  <2>3. Largest \in S
    BY <2>1, FiniteNumsRange, LargestMagnitude
  <2>2. \E v \in S : \A w \in S : v <= w
    BY <2>1, <2>3, LeastInteger
  <2>4. \E v \in FiniteNums :
           /\ v >= i - Largest - 1
           /\ \A w \in FiniteNums : w >= i - Largest - 1 => v <= w
    BY <2>2
  <2> QED
    BY <2>4
<1>2. N \in Nat
  BY LargestMagnitude
<1>3. f \in Seq(FiniteNums)
  BY <1>1, <1>2
<1>4. LeastFrom = f
  BY <1>3, ConcatEmptySeq DEF LeastFrom
<1>5. \A i \in 1 .. N : LeastFrom[i] = leastFrom(i)
  BY <1>4
<1> DEFINE j == IF q < -Largest THEN 1 ELSE q + Largest + 1
<1>6. j \in 1 .. N
  BY LargestMagnitude
<1>7. /\ Least(q) \in FiniteNums
      /\ Least(q) >= j - Largest - 1
      /\ \A w \in FiniteNums : w >= j - Largest - 1 => Least(q) <= w
  BY <1>1, <1>5, <1>6 DEF Least
<1>8. j - Largest - 1 >= q /\ \A w \in FiniteNums : w >= q => w >= j - Largest - 1
  BY FiniteNumsRange, LargestMagnitude
<1>9. j - Largest - 1 \in Int /\ Least(q) \in Int
  <2>1. Least(q) \in Int
    BY <1>7, FiniteNumsRange
  <2>2. Largest \in Int
    BY LargestMagnitude
  <2> QED
    BY <2>1, <2>2
<1> DEFINE p == j - Largest - 1
<1>10. /\ p \in Int /\ p >= q /\ \A w \in FiniteNums : w >= q => w >= p
       /\ Least(q) >= p
       /\ \A w \in FiniteNums : w >= p => Least(q) <= w
  BY <1>7, <1>8, <1>9
<1> HIDE DEF p
<1> QED
  BY <1>7, <1>9, <1>10

-----------------------------------------------------------------------------
(* The quotient rounded upward is the least integer at or above it.         *)
LEMMA CeilingIsLeast ==
  ASSUME NEW n \in Int, NEW d \in Nat, d >= 1
  PROVE  /\ CeilingOf(n, d) \in Int
         /\ n <= d * CeilingOf(n, d)
         /\ \A c \in Int : n <= d * c => CeilingOf(n, d) <= c
<1> DEFINE q == (-n) \div d
<1>1. q \in Int /\ d * q <= -n /\ -n < d * q + d
  OBVIOUS
<1>2. CeilingOf(n, d) = -q
  BY DEF CeilingOf
<1> HIDE DEF q
<1>3. n <= d * (-q)
  BY <1>1
<1>4. ASSUME NEW c \in Int, n <= d * c, -q > c PROVE FALSE
  <2>1. q + 1 <= -c
    BY <1>1, <1>4
  <2>2. d * (q + 1) <= d * (-c)
    BY <1>1, <2>1
  <2>3. d * (q + 1) = d * q + d /\ d * (-c) = -(d * c)
    BY <1>1
  <2>4. d * c \in Int /\ d * q \in Int
    BY <1>1
  <2> QED
    BY <1>1, <1>4, <2>2, <2>3, <2>4
<1> QED
  BY <1>1, <1>2, <1>3, <1>4

(* The doubles that are not below 0: no negative one, no -0.                *)
NotNegative == {v \in Doubles : ~v.neg}

(* A double as a number, from its sign and its magnitude.                   *)
LEMMA NumOfMagnitude ==
  ASSUME NEW x \in Doubles
  PROVE  /\ Num(x) \in Int
         /\ x.mag \in Nat /\ x.mag <= Oo /\ x.neg \in BOOLEAN
         /\ x.neg => Num(x) = -x.mag
         /\ ~x.neg => Num(x) = x.mag
         /\ x.mag = 0 => Num(x) = 0
<1>1. x.mag \in Nat /\ x.mag <= Oo /\ x.neg \in BOOLEAN
  <2>1. x.mag \in Magnitudes \/ x.mag = Oo
    BY DEF Doubles
  <2>2. x.neg \in BOOLEAN
    BY DEF Doubles
  <2>3. \A m \in Magnitudes : m \in Nat /\ m <= Largest
    BY LargestMagnitude, MagnitudesAssumption
  <2>4. Oo \in Nat /\ Largest <= Oo /\ Largest \in Nat
    BY LargestMagnitude DEF Oo
  <2>5. x.mag \in Nat /\ x.mag <= Oo
    BY <2>1, <2>3, <2>4
  <2> QED
    BY <2>2, <2>5
<1> QED
  BY <1>1 DEF Num

(* The doubles are the finite ones and the infinities.                      *)
LEMMA FiniteOrInfinite ==
  ASSUME NEW x \in Doubles
  PROVE  /\ IsInf(x) <=> x.mag \notin Magnitudes
         /\ x.mag \in Magnitudes => /\ Num(x) \in FiniteNums
                                    /\ -Largest <= Num(x) /\ Num(x) <= Largest
         /\ IsInf(x) /\ ~x.neg => x = Infinity /\ Num(x) = Largest + 1
         /\ IsZero(x) <=> Num(x) = 0
         /\ x # NaN
<1>1. x.mag \in Magnitudes \/ x.mag = Oo
  BY DEF Doubles
<1>2. Oo \notin Magnitudes /\ Oo = Largest + 1 /\ Oo \in Nat
  BY LargestMagnitude DEF Oo
<1>3. /\ Num(x) \in Int /\ x.mag \in Nat /\ x.neg \in BOOLEAN
      /\ x.neg => Num(x) = -x.mag
      /\ ~x.neg => Num(x) = x.mag
  BY NumOfMagnitude
<1>4. x.mag \in Magnitudes => Num(x) \in FiniteNums
  BY <1>3, FiniteNumsRange
<1>5. x = [neg |-> x.neg, mag |-> x.mag]
  BY DEF Doubles
<1>6. IsInf(x) /\ ~x.neg => x = Infinity /\ Num(x) = Largest + 1
  <2>1. IsInf(x) /\ ~x.neg => x.neg = FALSE
    BY <1>3
  <2> QED
    BY <1>2, <1>3, <1>5, <2>1 DEF IsInf, Infinity
<1>7. x # NaN
  BY <1>3 DEF NaN
<1>8. IsZero(x) <=> Num(x) = 0
  BY <1>3 DEF IsZero
<1> QED
  BY <1>1, <1>2, <1>4, <1>6, <1>7, <1>8, FiniteNumsRange DEF IsInf

(* The opposite of a double.                                                *)
LEMMA OppositeIsDouble ==
  /\ \A x \in Doubles : /\ Opposite(x) \in Doubles /\ Num(Opposite(x)) = -Num(x)
                        /\ Opposite(x).mag = x.mag /\ Opposite(x).neg = ~x.neg
  /\ Opposite(NaN) = NaN
<1>1. ASSUME NEW x \in Doubles
      PROVE  /\ Opposite(x) \in Doubles /\ Num(Opposite(x)) = -Num(x)
             /\ Opposite(x).mag = x.mag /\ Opposite(x).neg = ~x.neg
  <2>1. x # NaN /\ x.neg \in BOOLEAN
    BY FiniteOrInfinite, NumOfMagnitude
  <2>2. Opposite(x) = [neg |-> ~x.neg, mag |-> x.mag]
    BY <2>1 DEF Opposite, Doubles
  <2>3. Opposite(x) \in Doubles /\ Opposite(x).mag = x.mag /\ Opposite(x).neg = ~x.neg
    BY <2>1, <2>2 DEF Doubles
  <2>4. /\ x.mag \in Nat
        /\ x.neg => Num(x) = -x.mag /\ Num(Opposite(x)) = x.mag
        /\ ~x.neg => Num(x) = x.mag /\ Num(Opposite(x)) = -x.mag
    BY <2>3, NumOfMagnitude
  <2> QED
    BY <2>1, <2>3, <2>4
<1> QED
  BY <1>1 DEF Opposite

(* A double of a number of units is that number.                            *)
LEMMA OfNumIsNum ==
  ASSUME NEW v \in FiniteNums
  PROVE  /\ OfNum(v) \in Doubles /\ Num(OfNum(v)) = v
         /\ v >= 0 => OfNum(v) = [neg |-> FALSE, mag |-> v]
         /\ OfNum(v).mag \in Magnitudes
<1>1. v \in Int
  BY FiniteNumsRange
<1>2. CASE v < 0
  <2>1. -v \in Magnitudes
    BY <1>2, FiniteNumsRange
  <2>2. (v < 0) = TRUE
    BY <1>2
  <2>3. OfNum(v) = [neg |-> TRUE, mag |-> -v]
    BY <1>2, <2>2 DEF OfNum
  <2> QED
    BY <1>1, <1>2, <2>1, <2>3 DEF Num, Doubles
<1>3. CASE v >= 0
  <2>1. v \in Magnitudes
    BY <1>1, <1>3, FiniteNumsRange
  <2>2. (v < 0) = FALSE
    BY <1>1, <1>3
  <2>3. OfNum(v) = [neg |-> FALSE, mag |-> v]
    BY <2>2 DEF OfNum
  <2> QED
    BY <1>1, <1>3, <2>1, <2>3 DEF Num, Doubles
<1> QED
  BY <1>1, <1>2, <1>3

(* A number rounded upward is a double: the least one at or above it, and   *)
(* not negative, nor -0, when the number is above 0.                        *)
LEMMA RoundedIsLeast ==
  ASSUME NEW q \in Int, NEW neg \in BOOLEAN
  PROVE  /\ Rounded(q, neg) \in Doubles
         /\ q > Largest => Rounded(q, neg) = Infinity
         /\ q <= Largest => /\ Rounded(q, neg).mag \in Magnitudes
                            /\ Num(Rounded(q, neg)) = Least(q)
         /\ q >= 1 \/ (q = 0 /\ ~neg) => Rounded(q, neg) \in NotNegative
<1>1. CASE q > Largest
  <2>1. Rounded(q, neg) = [neg |-> FALSE, mag |-> Oo]
    BY <1>1 DEF Rounded, Infinity
  <2> QED
    BY <1>1, <2>1, LargestMagnitude DEF Doubles, Infinity, NotNegative
<1>2. CASE q <= Largest
  <2>1. /\ Least(q) \in FiniteNums /\ Least(q) >= q
        /\ \A w \in FiniteNums : w >= q => Least(q) <= w
    BY <1>2, LeastIsLeast
  <2>2. Rounded(q, neg) = Signed(Least(q), neg)
    BY <1>2, LargestMagnitude DEF Rounded
  <2>3. CASE Least(q) = 0
    <3>1. Rounded(q, neg) = [neg |-> neg, mag |-> 0]
      BY <2>2, <2>3 DEF Signed, Zero
    <3>2. q < 1
      BY <2>1, <2>3
    <3>3. 0 \in Magnitudes
      BY MagnitudesAssumption
    <3>4. Rounded(q, neg) \in Doubles /\ Rounded(q, neg).mag \in Magnitudes
      BY <3>1, <3>3 DEF Doubles
    <3>5. Num(Rounded(q, neg)) = 0
      BY <3>1, <3>4, NumOfMagnitude
    <3>6. ~neg => Rounded(q, neg) \in NotNegative
      BY <3>1, <3>4 DEF NotNegative
    <3> QED
      BY <1>2, <2>3, <3>2, <3>4, <3>5, <3>6, LargestMagnitude
  <2>4. CASE Least(q) # 0
    <3>1. Rounded(q, neg) = OfNum(Least(q))
      BY <2>2, <2>4 DEF Signed
    <3>2. Least(q) \in Int
      BY <2>1, FiniteNumsRange
    <3>3. q >= 0 => ~(Least(q) < 0)
      BY <2>1, <3>2
    <3>4. /\ OfNum(Least(q)) \in Doubles /\ Num(OfNum(Least(q))) = Least(q)
          /\ OfNum(Least(q)).mag \in Magnitudes
          /\ Least(q) >= 0 => OfNum(Least(q)) = [neg |-> FALSE, mag |-> Least(q)]
      BY <2>1, OfNumIsNum
    <3>5. Least(q) >= 0 => Rounded(q, neg) \in NotNegative
      BY <3>1, <3>4 DEF NotNegative
    <3> QED
      BY <1>2, <3>1, <3>2, <3>3, <3>4, <3>5, LargestMagnitude
  <2> QED
    BY <2>3, <2>4
<1> QED
  BY <1>1, <1>2, LargestMagnitude

(* A fraction rounded upward, d > 0: the least double at or above it, or oo  *)
(* above the largest; not negative, nor -0, for a fraction above 0.         *)
LEMMA RoundUpIsLeast ==
  ASSUME NEW n \in Int, NEW d \in Nat, d >= 1, NEW neg \in BOOLEAN
  PROVE  LET r == RoundUp(n, d, neg) IN
         /\ r \in Doubles
         /\ \/ r.mag \in Magnitudes /\ Num(r) \in FiniteNums /\ n <= d * Num(r)
            \/ r = Infinity /\ n > d * Largest
         /\ \A w \in FiniteNums : n <= d * w => Num(r) <= w /\ r.mag \in Magnitudes
         /\ n > 0 \/ (n = 0 /\ ~neg) => r \in NotNegative
<1> DEFINE q == CeilingOf(n, d)
<1> DEFINE s == IF n = 0 THEN neg ELSE TRUE
<1> DEFINE r == Rounded(q, s)
<1>1. /\ q \in Int /\ n <= d * q
      /\ \A c \in Int : n <= d * c => q <= c
  BY CeilingIsLeast
<1>2. s \in BOOLEAN
  OBVIOUS
<1>3. RoundUp(n, d, neg) = r
  BY DEF RoundUp
<1> HIDE DEF q, s
<1>4. /\ r \in Doubles
      /\ q > Largest => r = Infinity
      /\ q <= Largest => r.mag \in Magnitudes /\ Num(r) = Least(q)
      /\ q >= 1 \/ (q = 0 /\ ~s) => r \in NotNegative
  BY <1>1, <1>2, RoundedIsLeast
<1> HIDE DEF r
<1>5. \/ r.mag \in Magnitudes /\ Num(r) \in FiniteNums /\ n <= d * Num(r)
      \/ r = Infinity /\ n > d * Largest
  <2>1. CASE q > Largest
    <3>1. ~(n <= d * Largest)
      BY <1>1, <2>1, LargestMagnitude
    <3>2. d * Largest \in Int
      BY LargestMagnitude
    <3> QED
      BY <1>4, <2>1, <3>1, <3>2
  <2>2. CASE q <= Largest
    <3>1. Least(q) \in FiniteNums /\ Least(q) >= q
      BY <1>1, <2>2, LeastIsLeast
    <3>2. Least(q) \in Int
      BY <3>1, FiniteNumsRange
    <3>3. d * q <= d * Least(q) /\ d * q \in Int /\ d * Least(q) \in Int
      BY <1>1, <3>1, <3>2
    <3> QED
      BY <1>1, <1>4, <2>2, <3>1, <3>3
  <2> QED
    BY <1>1, <2>1, <2>2, LargestMagnitude
<1>6. ASSUME NEW w \in FiniteNums, n <= d * w PROVE Num(r) <= w /\ r.mag \in Magnitudes
  <2>1. w \in Int /\ q <= w /\ w <= Largest
    BY <1>1, <1>6, FiniteNumsRange
  <2>2. q <= Largest
    BY <1>1, <2>1, LargestMagnitude
  <2>3. Least(q) <= w
    BY <1>1, <2>1, <2>2, LeastIsLeast
  <2> QED
    BY <1>4, <2>2, <2>3
<1>7. ASSUME n > 0 \/ (n = 0 /\ ~neg) PROVE r \in NotNegative
  <2>1. CASE n > 0
    <3>1. ~(q <= 0)
      <4>1. q <= 0 => d * q <= 0
        BY <1>1
      <4> QED
        BY <1>1, <2>1, <4>1
    <3> QED
      BY <1>1, <1>4, <3>1
  <2>2. CASE n = 0 /\ ~neg
    <3>1. q <= 0
      BY <1>1, <2>2
    <3>2. ~(q <= -1)
      <4>1. q <= -1 => d * q <= -d
        BY <1>1
      <4> QED
        BY <1>1, <2>2, <4>1
    <3>3. q = 0
      BY <1>1, <3>1, <3>2
    <3>4. ~s
      BY <2>2 DEF s
    <3> QED
      BY <1>4, <3>3, <3>4
  <2> QED
    BY <1>7, <2>1, <2>2
<1> QED
  BY <1>3, <1>4, <1>5, <1>6, <1>7

(* A fraction that is not negative stays so.                                *)
LEMMA RoundUpNotNegative ==
  ASSUME NEW n \in Nat, NEW d \in Nat, d >= 1
  PROVE  /\ RoundUp(n, d, FALSE) \in NotNegative
         /\ \/ Num(RoundUp(n, d, FALSE)) \in Int /\ n <= d * Num(RoundUp(n, d, FALSE))
            \/ RoundUp(n, d, FALSE) = Infinity
<1> DEFINE neg == FALSE
<1>1. neg \in BOOLEAN /\ ~neg /\ (n > 0 \/ n = 0)
  OBVIOUS
<1> HIDE DEF neg
<1> DEFINE r == RoundUp(n, d, neg)
<1>2. /\ r \in Doubles
      /\ \/ r.mag \in Magnitudes /\ Num(r) \in FiniteNums /\ n <= d * Num(r)
         \/ r = Infinity /\ n > d * Largest
      /\ n > 0 \/ (n = 0 /\ ~neg) => r \in NotNegative
  BY <1>1, RoundUpIsLeast
<1>3. r \in NotNegative
  BY <1>1, <1>2
<1>4. (Num(r) \in Int /\ n <= d * Num(r)) \/ r = Infinity
  BY <1>2, FiniteNumsRange
<1> QED
  BY <1>3, <1>4 DEF neg

-----------------------------------------------------------------------------
(* The operations give doubles, or a NaN.                                   *)
Numbers == Doubles \union {NaN}

LEMMA RoundUpIsDouble ==
  ASSUME NEW n \in Int, NEW d \in Nat, d >= 1, NEW neg \in BOOLEAN
  PROVE  RoundUp(n, d, neg) \in Doubles
  BY RoundUpIsLeast

LEMMA SumIsNumber ==
  ASSUME NEW x \in Numbers, NEW y \in Numbers
  PROVE  AddUp(x, y) \in Numbers /\ SubUp(x, y) \in Numbers
<1>1. ASSUME NEW v \in Numbers, NEW w \in Numbers PROVE AddUp(v, w) \in Numbers
  <2>1. CASE NaN \in {v, w} \/ (IsInf(v) /\ IsInf(w) /\ v # w)
    BY <2>1 DEF AddUp, Numbers
  <2>2. CASE ~(NaN \in {v, w} \/ (IsInf(v) /\ IsInf(w) /\ v # w))
    <3>1. v \in Doubles /\ w \in Doubles
      BY <2>2 DEF Numbers
    <3>2. Num(v) + Num(w) \in Int
      BY <3>1, NumOfMagnitude
    <3> DEFINE neg == v = Zero(TRUE) /\ w = Zero(TRUE)
    <3>3. neg \in BOOLEAN
      OBVIOUS
    <3> HIDE DEF neg
    <3>4. RoundUp(Num(v) + Num(w), 1, neg) \in Doubles
      BY <3>2, <3>3, RoundUpIsDouble
    <3> QED
      BY <2>2, <3>1, <3>4 DEF AddUp, Numbers, neg
  <2> QED
    BY <2>1, <2>2
<1>2. Opposite(y) \in Numbers
  BY OppositeIsDouble DEF Numbers
<1> QED
  BY <1>1, <1>2 DEF SubUp

LEMMA ProductIsNumber ==
  ASSUME NEW x \in Numbers, NEW y \in Numbers
  PROVE  MulUp(x, y) \in Numbers /\ DivUp(x, y) \in Numbers
<1>1. One \in Nat /\ One >= 1 /\ Largest \in Nat
  BY LargestMagnitude
<1> DEFINE neg == x.neg # y.neg
<1>2. neg \in BOOLEAN
  OBVIOUS
<1> HIDE DEF neg
<1>3. [neg |-> neg, mag |-> Oo] \in Doubles /\ Zero(neg) \in Doubles
  BY <1>2, MagnitudesAssumption DEF Doubles, Zero
<1>4. CASE NaN \in {x, y}
  BY <1>4 DEF MulUp, DivUp, Numbers
<1>5. CASE NaN \notin {x, y}
  <2>1. x \in Doubles /\ y \in Doubles
    BY <1>5 DEF Numbers
  <2>2. Num(x) \in Int /\ Num(y) \in Int /\ y.mag \in Nat
    BY <2>1, NumOfMagnitude
  <2>3. RoundUp(Num(x) * Num(y), One, neg) \in Doubles
    BY <1>1, <1>2, <2>2, RoundUpIsDouble
  <2>4. MulUp(x, y) \in Numbers
    BY <1>3, <2>3 DEF MulUp, Numbers, neg
  <2>5. y.mag # 0 => RoundUp((IF y.neg THEN -1 ELSE 1) * Num(x) * One, y.mag, neg) \in Doubles
    <3>1. (IF y.neg THEN -1 ELSE 1) * Num(x) * One \in Int
      BY <1>1, <2>2
    <3> QED
      BY <1>2, <2>2, <3>1, RoundUpIsDouble
  <2>6. DivUp(x, y) \in Numbers
    BY <1>3, <2>5 DEF DivUp, Numbers, neg, IsZero
  <2> QED
    BY <2>4, <2>6
<1> QED
  BY <1>4, <1>5

-----------------------------------------------------------------------------
(* A double that is not negative is 0, a magnitude, or oo, and is its value. *)
LEMMA NotNegativeNum ==
  /\ \A x \in NotNegative : /\ x \in Doubles /\ ~x.neg /\ Num(x) = x.mag /\ Num(x) >= 0
                            /\ x # NaN /\ x = [neg |-> FALSE, mag |-> x.mag]
                            /\ x.mag \in Magnitudes \/ x = Infinity
                            /\ Num(x) <= Largest => x.mag \in Magnitudes
  /\ \A x \in Doubles : Num(x) > 0 => x \in NotNegative
<1>1. ASSUME NEW x \in NotNegative
      PROVE  /\ x \in Doubles /\ ~x.neg /\ Num(x) = x.mag /\ Num(x) >= 0
             /\ x # NaN /\ x = [neg |-> FALSE, mag |-> x.mag]
             /\ x.mag \in Magnitudes \/ x = Infinity
             /\ Num(x) <= Largest => x.mag \in Magnitudes
  <2>1. x \in Doubles /\ ~x.neg
    BY DEF NotNegative
  <2>2. Num(x) = x.mag /\ x.mag \in Nat
    BY <2>1, NumOfMagnitude
  <2>3. /\ x # NaN
        /\ x.mag \in Magnitudes \/ x = Infinity
        /\ x = Infinity => Num(x) = Largest + 1
    BY <2>1, FiniteOrInfinite DEF Infinity, IsInf
  <2>4. x = [neg |-> FALSE, mag |-> x.mag]
    <3>1. x.neg = FALSE /\ x = [neg |-> x.neg, mag |-> x.mag]
      BY <2>1 DEF Doubles
    <3> QED
      BY <3>1
  <2>5. Largest \in Nat
    BY LargestMagnitude
  <2> QED
    BY <2>1, <2>2, <2>3, <2>4, <2>5
<1>2. ASSUME NEW x \in Doubles, Num(x) > 0 PROVE x \in NotNegative
  <2>1. x.neg \in BOOLEAN /\ x.mag \in Nat /\ (x.neg => Num(x) = -x.mag)
    BY NumOfMagnitude
  <2> QED
    BY <1>2, <2>1 DEF NotNegative
<1> QED
  BY <1>1, <1>2

(* A sum of what is not negative is at or above both.                       *)
LEMMA SumNotNegative ==
  ASSUME NEW x \in NotNegative, NEW y \in NotNegative
  PROVE  /\ AddUp(x, y) \in NotNegative
         /\ Num(x) <= Num(AddUp(x, y)) /\ Num(y) <= Num(AddUp(x, y))
<1>1. /\ x \in Doubles /\ y \in Doubles /\ x # NaN /\ y # NaN
      /\ Num(x) = x.mag /\ Num(y) = y.mag /\ x.mag \in Nat /\ y.mag \in Nat
      /\ x.mag <= Oo /\ y.mag <= Oo
      /\ IsInf(x) => x = Infinity
      /\ IsInf(y) => y = Infinity
      /\ ~x.neg
  BY NotNegativeNum, NumOfMagnitude, FiniteOrInfinite
<1>2. Oo = Largest + 1 /\ Largest \in Nat
  BY LargestMagnitude DEF Oo
<1>3. CASE IsInf(x) \/ IsInf(y)
  <2>1. AddUp(x, y) = Infinity
    BY <1>1, <1>3 DEF AddUp
  <2>2. Infinity \in NotNegative /\ Num(Infinity) = Oo
    BY <1>1, <1>3, NotNegativeNum DEF Infinity
  <2> QED
    BY <1>1, <2>1, <2>2
<1>4. CASE ~(IsInf(x) \/ IsInf(y))
  <2>1. /\ AddUp(x, y) = RoundUp(Num(x) + Num(y), 1, x = Zero(TRUE) /\ y = Zero(TRUE))
        /\ x # Zero(TRUE)
    BY <1>1, <1>4 DEF AddUp, Zero
  <2>2. AddUp(x, y) = RoundUp(Num(x) + Num(y), 1, FALSE)
    <3>1. (x = Zero(TRUE) /\ y = Zero(TRUE)) = FALSE
      BY <2>1
    <3> QED
      BY <2>1, <3>1
  <2> DEFINE t == Num(x) + Num(y)
  <2> DEFINE d == 1
  <2> DEFINE r == RoundUp(t, d, FALSE)
  <2>3. t \in Nat /\ Num(x) <= t /\ Num(y) <= t
    BY <1>1
  <2>9. d \in Nat /\ d >= 1
    OBVIOUS
  <2> HIDE DEF t, d
  <2>4. r \in NotNegative /\ ((Num(r) \in Int /\ t <= d * Num(r)) \/ r = Infinity)
    BY <2>3, <2>9, RoundUpNotNegative
  <2> HIDE DEF r
  <2>5. Num(r) \in Int /\ (r = Infinity => Num(r) = Oo)
    BY <2>4, NotNegativeNum, NumOfMagnitude, FiniteOrInfinite, <1>2 DEF IsInf, Infinity
  <2>8. Num(x) <= Num(r) /\ Num(y) <= Num(r)
    <3>1. CASE t <= d * Num(r)
      BY <1>1, <2>3, <2>5, <3>1 DEF d
    <3>2. CASE r = Infinity
      BY <1>1, <2>5, <3>2
    <3> QED
      BY <2>4, <3>1, <3>2
  <2> QED
    BY <2>2, <2>4, <2>8 DEF t, d, r
<1> QED
  BY <1>3, <1>4

(* A product of what is not negative and of a finite double above 0.        *)
LEMMA ProductNotNegative ==
  ASSUME NEW x \in NotNegative, NEW y \in NotNegative, y.mag \in Magnitudes, Num(y) > 0
  PROVE  MulUp(x, y) \in NotNegative
<1>1. /\ x \in Doubles /\ y \in Doubles /\ x # NaN /\ y # NaN
      /\ Num(x) = x.mag /\ Num(y) = y.mag /\ x.mag \in Nat /\ y.mag \in Nat
      /\ ~x.neg /\ ~y.neg /\ ~IsInf(y) /\ ~IsZero(y)
  BY NotNegativeNum, NumOfMagnitude, FiniteOrInfinite
<1>2. (x.neg # y.neg) = FALSE
  <2>1. x.neg = FALSE /\ y.neg = FALSE
    BY <1>1 DEF Doubles
  <2> QED
    BY <2>1
<1>3. CASE IsInf(x)
  <2>1. MulUp(x, y) = [neg |-> FALSE, mag |-> Oo]
    BY <1>1, <1>2, <1>3 DEF MulUp
  <2> QED
    BY <2>1 DEF NotNegative, Doubles
<1>4. CASE ~IsInf(x)
  <2>1. MulUp(x, y) = RoundUp(Num(x) * Num(y), One, FALSE)
    BY <1>1, <1>2, <1>4 DEF MulUp
  <2> DEFINE t == Num(x) * Num(y)
  <2>2. t \in Nat /\ One \in Nat /\ One >= 1
    BY <1>1, LargestMagnitude
  <2> HIDE DEF t
  <2>3. RoundUp(t, One, FALSE) \in NotNegative
    BY <2>2, RoundUpNotNegative
  <2> QED
    BY <2>1, <2>3 DEF t
<1> QED
  BY <1>3, <1>4

(* What is between two finite doubles that are not negative is one too.     *)
LEMMA PositiveBetween ==
  ASSUME NEW v \in Numbers, NEW a \in NotNegative, Lt(a, v), Num(v) <= Largest
  PROVE  v \in NotNegative /\ v.mag \in Magnitudes
<1>1. v \in Doubles /\ Num(a) < Num(v) /\ Num(a) >= 0 /\ Num(a) \in Int /\ Num(v) \in Int
  BY NotNegativeNum, NumOfMagnitude DEF Lt, Numbers
<1>2. v \in NotNegative
  BY <1>1, NotNegativeNum
<1> QED
  BY <1>2, NotNegativeNum

(* The double next to one that is not the largest: above it, and at most any *)
(* other double above it.                                                   *)
LEMMA NextIsLeast ==
  ASSUME NEW a \in NotNegative, NEW b \in NotNegative, b.mag \in Magnitudes, Num(a) < Num(b)
  PROVE  /\ next_float(a) \in NotNegative /\ next_float(a).mag \in Magnitudes
         /\ Num(a) < Num(next_float(a)) /\ Num(next_float(a)) <= Num(b)
         /\ Num(next_float(a)) = Num(b) => next_float(a) = b
<1>1. /\ a # NaN /\ Num(a) \in Int /\ Num(b) \in Int /\ Num(b) \in FiniteNums
      /\ Num(b) <= Largest /\ Num(a) >= 0 /\ Largest \in Nat
  BY NotNegativeNum, NumOfMagnitude, FiniteOrInfinite, LargestMagnitude
<1>2. a # Infinity
  <2>1. IsInf(a) /\ ~a.neg => Num(a) = Largest + 1
    BY NotNegativeNum, FiniteOrInfinite
  <2> QED
    BY <1>1, <2>1, NotNegativeNum DEF Infinity, IsInf
<1> DEFINE q == Num(a) + 1
<1> DEFINE neg == TRUE
<1> DEFINE r == Rounded(q, neg)
<1>3. next_float(a) = r
  BY <1>1, <1>2 DEF next_float, nextafter
<1>4. q \in Int /\ q >= 1 /\ q <= Num(b) /\ q <= Largest /\ neg \in BOOLEAN
  BY <1>1
<1>5. Num(a) < q
  BY <1>1
<1> HIDE DEF q, neg
<1>6. r \in NotNegative /\ r.mag \in Magnitudes /\ Num(r) = Least(q)
  BY <1>4, RoundedIsLeast
<1>7. Least(q) >= q /\ Least(q) <= Num(b) /\ Least(q) \in Int
  BY <1>1, <1>4, LeastIsLeast, FiniteNumsRange
<1>8. Num(a) < Num(r) /\ Num(r) <= Num(b)
  BY <1>1, <1>4, <1>5, <1>6, <1>7
<1>9. Num(r) = Num(b) => r = b
  BY <1>6, NotNegativeNum
<1> QED
  BY <1>3, <1>6, <1>8, <1>9

(* maximum() and minimum() of what is not negative.                         *)
LEMMA ExtremaNotNegative ==
  ASSUME NEW x \in NotNegative, NEW y \in NotNegative
  PROVE  /\ minimum(x, y) \in {x, y} /\ Num(minimum(x, y)) <= Num(x) /\ Num(minimum(x, y)) <= Num(y)
         /\ maximum(x, y) \in {x, y} /\ Num(maximum(x, y)) >= Num(x) /\ Num(maximum(x, y)) >= Num(y)
<1>1. x # NaN /\ y # NaN /\ ~x.neg /\ ~y.neg /\ Num(x) \in Int /\ Num(y) \in Int
  BY NotNegativeNum, NumOfMagnitude
<1>2. CASE Num(y) <= Num(x)
  BY <1>1, <1>2 DEF minimum, maximum, Leq
<1>3. CASE ~(Num(y) <= Num(x))
  BY <1>1, <1>3 DEF minimum, maximum, Leq
<1> QED
  BY <1>2, <1>3

(* A difference is at or above the exact one, and finite when the first     *)
(* operand is: taken from below, as -(s - v), it is at most v.              *)
LEMMA DifferenceNotNegative ==
  ASSUME NEW s \in NotNegative, NEW v \in NotNegative, v.mag \in Magnitudes
  PROVE  /\ SubUp(s, v) \in Doubles
         /\ Num(Opposite(SubUp(s, v))) <= Num(v)
<1>1. /\ s \in Doubles /\ v \in Doubles /\ v # NaN /\ s # NaN
      /\ Num(s) \in Int /\ Num(v) \in Int /\ Num(s) >= 0 /\ Num(v) >= 0
      /\ ~IsInf(v)
      /\ Largest \in Nat /\ Num(v) <= Largest
      /\ IsInf(s) => s = Infinity /\ Num(s) = Largest + 1
  BY NotNegativeNum, NumOfMagnitude, FiniteOrInfinite, LargestMagnitude
<1> DEFINE w == Opposite(v)
<1>2. w \in Doubles /\ Num(w) = -Num(v) /\ ~IsInf(w) /\ w # NaN
  <2>1. w \in Doubles /\ Num(w) = -Num(v) /\ w.mag = v.mag
    BY <1>1, OppositeIsDouble
  <2> QED
    BY <1>1, <2>1, FiniteOrInfinite DEF IsInf
<1>3. SubUp(s, v) = AddUp(s, w)
  BY DEF SubUp
<1> HIDE DEF w
<1>4. CASE IsInf(s)
  <2>1. AddUp(s, w) = s
    BY <1>1, <1>2, <1>4 DEF AddUp
  <2>2. Num(Opposite(s)) = -Num(s)
    BY <1>1, OppositeIsDouble
  <2> QED
    BY <1>1, <1>3, <1>4, <2>1, <2>2
<1>5. CASE ~IsInf(s)
  <2> DEFINE t == Num(s) + Num(w)
  <2> DEFINE neg == s = Zero(TRUE) /\ w = Zero(TRUE)
  <2> DEFINE d == 1
  <2>1. AddUp(s, w) = RoundUp(t, d, neg)
    BY <1>1, <1>2, <1>5 DEF AddUp
  <2>2. t \in Int /\ neg \in BOOLEAN /\ d \in Nat /\ d >= 1
    BY <1>1, <1>2
  <2>3. -Num(v) <= t /\ (\A m \in Int : t <= d * m => t <= m)
    BY <1>1, <1>2
  <2> HIDE DEF t, neg, d
  <2> DEFINE r == RoundUp(t, d, neg)
  <2>4. /\ r \in Doubles
        /\ \/ r.mag \in Magnitudes /\ Num(r) \in FiniteNums /\ t <= d * Num(r)
           \/ r = Infinity /\ t > d * Largest
    BY <2>2, RoundUpIsLeast
  <2>5. Num(r) \in Int /\ (r = Infinity => Num(r) = Largest + 1)
    BY <2>4, NumOfMagnitude, FiniteOrInfinite DEF IsInf, Infinity
  <2>6. -Num(v) <= Num(r)
    <3>1. CASE t <= d * Num(r)
      BY <1>1, <2>2, <2>3, <2>5, <3>1
    <3>2. CASE r = Infinity
      BY <1>1, <2>5, <3>2
    <3> QED
      BY <2>4, <3>1, <3>2
  <2>7. Num(Opposite(r)) = -Num(r)
    BY <2>4, OppositeIsDouble
  <2> QED
    BY <1>1, <1>3, <2>1, <2>4, <2>5, <2>6, <2>7
<1> QED
  BY <1>4, <1>5

-----------------------------------------------------------------------------
(* The doubles but -oo, which are those that rounding upward gives of reals *)
(* and of sums of reals and +oo: the bounds that intervals store.           *)
Ends == {x \in Doubles : Num(x) > -Oo}

LEMMA EndsAre ==
  /\ \A x \in Ends : /\ x \in Doubles /\ x # NaN /\ x # MinusInfinity
                     /\ Num(x) \in Int /\ -Largest <= Num(x) /\ Num(x) <= Largest + 1
                     /\ IsInf(x) <=> x = Infinity
                     /\ x = Infinity <=> Num(x) = Largest + 1
                     /\ ~IsInf(x) => Num(x) <= Largest
  /\ Infinity \in Ends
  /\ \A x \in Doubles : x # MinusInfinity => x \in Ends
  /\ \A x \in Doubles : ~IsInf(x) => x \in Ends
  /\ \A neg \in BOOLEAN : Zero(neg) \in Ends /\ Num(Zero(neg)) = 0
<1>1. Oo = Largest + 1 /\ Largest \in Nat /\ 0 \in Magnitudes
  BY LargestMagnitude, MagnitudesAssumption DEF Oo
<1>2. Infinity \in Doubles /\ Num(Infinity) = Oo /\ IsInf(Infinity)
  BY <1>1 DEF Infinity, Doubles, Num, IsInf
<1>3. MinusInfinity \in Doubles /\ Num(MinusInfinity) = -Oo
  BY <1>2, OppositeIsDouble DEF MinusInfinity
<1>4. ASSUME NEW x \in Doubles
      PROVE  /\ x # NaN /\ Num(x) \in Int /\ -Oo <= Num(x) /\ Num(x) <= Oo
             /\ ~IsInf(x) => -Largest <= Num(x) /\ Num(x) <= Largest
             /\ IsInf(x) => x = Infinity \/ Num(x) = -Oo
  <2>1. /\ Num(x) \in Int /\ x.mag \in Nat /\ x.mag <= Oo
        /\ x.neg => Num(x) = -x.mag
        /\ ~x.neg => Num(x) = x.mag
    BY NumOfMagnitude
  <2>2. /\ x # NaN
        /\ ~IsInf(x) => -Largest <= Num(x) /\ Num(x) <= Largest
        /\ IsInf(x) /\ ~x.neg => x = Infinity
        /\ IsInf(x) => x.mag = Oo
    BY FiniteOrInfinite DEF IsInf
  <2>3. -Oo <= Num(x) /\ Num(x) <= Oo
    BY <1>1, <2>1
  <2> QED
    BY <2>1, <2>2, <2>3
<1>5. ASSUME NEW x \in Ends
      PROVE  /\ x \in Doubles /\ x # NaN /\ x # MinusInfinity
             /\ Num(x) \in Int /\ -Largest <= Num(x) /\ Num(x) <= Largest + 1
             /\ IsInf(x) <=> x = Infinity
             /\ x = Infinity <=> Num(x) = Largest + 1
             /\ ~IsInf(x) => Num(x) <= Largest
  <2>1. x \in Doubles /\ Num(x) > -Oo
    BY DEF Ends
  <2>2. x # NaN /\ x # MinusInfinity /\ Num(x) \in Int /\ Num(x) <= Oo
    BY <1>1, <1>3, <1>4, <2>1
  <2>3. IsInf(x) <=> x = Infinity
    BY <1>1, <1>2, <1>4, <2>1, <2>2
  <2>4. ~IsInf(x) => Num(x) <= Largest
    BY <1>4, <2>1
  <2>5. x = Infinity <=> Num(x) = Largest + 1
    BY <1>1, <1>2, <2>2, <2>3, <2>4
  <2>6. -Largest <= Num(x)
    BY <1>1, <2>1, <2>2
  <2> QED
    BY <1>1, <2>1, <2>2, <2>3, <2>4, <2>5, <2>6
<1>6. Infinity \in Ends
  BY <1>1, <1>2 DEF Ends
<1>7. ASSUME NEW x \in Doubles, x # MinusInfinity PROVE x \in Ends
  <2>1. CASE IsInf(x)
    <3>1. CASE x = Infinity
      BY <1>6, <3>1
    <3>2. CASE x # Infinity
      <4>1. /\ x.neg \in BOOLEAN /\ x.mag = Oo /\ x = [neg |-> x.neg, mag |-> x.mag]
            /\ x.neg
        BY <2>1, <3>2, FiniteOrInfinite, NumOfMagnitude DEF IsInf, Doubles
      <4>2. Infinity # NaN /\ MinusInfinity = [neg |-> TRUE, mag |-> Oo]
        BY <1>2, <1>4 DEF MinusInfinity, Opposite, Infinity
      <4>3. x.neg = TRUE
        BY <4>1
      <4> QED
        BY <1>7, <4>1, <4>2, <4>3
    <3> QED
      BY <3>1, <3>2
  <2>2. CASE ~IsInf(x)
    BY <1>1, <1>4, <2>2 DEF Ends
  <2> QED
    BY <2>1, <2>2
<1>8. ASSUME NEW x \in Doubles, ~IsInf(x) PROVE x \in Ends
  BY <1>1, <1>4, <1>8 DEF Ends
<1>9. ASSUME NEW neg \in BOOLEAN PROVE Zero(neg) \in Ends /\ Num(Zero(neg)) = 0
  <2>1. Zero(neg) \in Doubles /\ Zero(neg).mag = 0
    BY <1>1 DEF Zero, Doubles
  <2>2. Num(Zero(neg)) = 0
    BY <2>1, NumOfMagnitude
  <2> QED
    BY <1>1, <2>1, <2>2 DEF Ends
<1> QED
  BY <1>5, <1>6, <1>7, <1>8, <1>9

-----------------------------------------------------------------------------
(* The infinities are doubles, beyond all the others.                       *)
LEMMA InfinityIs ==
  /\ Infinity \in Doubles /\ Num(Infinity) = Largest + 1
  /\ MinusInfinity \in Doubles /\ Num(MinusInfinity) = -(Largest + 1)
  /\ Infinity # MinusInfinity
  /\ Infinity.mag \notin Magnitudes /\ MinusInfinity.mag \notin Magnitudes
  /\ Opposite(Infinity) = MinusInfinity /\ Opposite(MinusInfinity) = Infinity
  /\ MinusInfinity = [neg |-> TRUE, mag |-> Oo]
  /\ \A x \in Doubles : /\ IsInf(x) <=> x \in {Infinity, MinusInfinity}
                        /\ ~IsInf(x) <=> x.mag \in Magnitudes
                        /\ -(Largest + 1) <= Num(x) /\ Num(x) <= Largest + 1
                        /\ Num(x) = Largest + 1 <=> x = Infinity
                        /\ Num(x) = -(Largest + 1) <=> x = MinusInfinity
<1>1. Largest \in Nat /\ Largest >= 1
  BY LargestMagnitude
<1>2. Oo = Largest + 1 /\ Oo \notin Magnitudes
  BY LargestMagnitude DEF Oo
<1>3. Infinity \in Doubles /\ Num(Infinity) = Largest + 1
  BY <1>1, <1>2 DEF Infinity, Doubles, Num
<1>4. /\ MinusInfinity \in Doubles /\ Num(MinusInfinity) = -(Largest + 1)
      /\ MinusInfinity = [neg |-> TRUE, mag |-> Oo]
  BY <1>1, <1>2, <1>3, OppositeIsDouble DEF MinusInfinity, Infinity, Opposite, NaN
<1>5. Opposite(MinusInfinity) = Infinity
  BY <1>1, <1>2, <1>4 DEF Infinity, Opposite, NaN
<1>6. ASSUME NEW x \in Doubles
      PROVE  /\ IsInf(x) <=> x \in {Infinity, MinusInfinity}
             /\ ~IsInf(x) <=> x.mag \in Magnitudes
             /\ -(Largest + 1) <= Num(x) /\ Num(x) <= Largest + 1
             /\ Num(x) = Largest + 1 <=> x = Infinity
             /\ Num(x) = -(Largest + 1) <=> x = MinusInfinity
  <2>1. /\ x.mag \in Nat /\ x.mag <= Largest + 1 /\ x.neg \in BOOLEAN
        /\ x.neg => Num(x) = -x.mag
        /\ ~x.neg => Num(x) = x.mag
    BY <1>2, NumOfMagnitude
  <2>2. x = [neg |-> x.neg, mag |-> x.mag]
    BY DEF Doubles
  <2>3. x.neg = TRUE \/ x.neg = FALSE
    BY <2>1
  <2>4. IsInf(x) <=> x.mag = Largest + 1
    BY <1>2 DEF IsInf
  <2>5. ~IsInf(x) <=> x.mag \in Magnitudes
    BY FiniteOrInfinite
  <2>6. IsInf(x) => x \in {Infinity, MinusInfinity}
    BY <1>2, <1>4, <2>2, <2>3, <2>4 DEF Infinity
  <2>7. x = Infinity => Num(x) = Largest + 1 /\ x.mag = Largest + 1
    BY <1>2, <1>3 DEF Infinity
  <2>8. x = MinusInfinity => Num(x) = -(Largest + 1) /\ x.mag = Largest + 1
    BY <1>2, <1>4
  <2>9. x = Infinity => ~x.neg
    BY DEF Infinity
  <2>10. x = MinusInfinity => x.neg
    BY <1>4
  <2>11. -(Largest + 1) <= Num(x) /\ Num(x) <= Largest + 1
    BY <1>1, <2>1
  <2>12. Num(x) = Largest + 1 => x = Infinity
    BY <1>1, <2>1, <2>4, <2>6, <2>10
  <2>13. Num(x) = -(Largest + 1) => x = MinusInfinity
    BY <1>1, <2>1, <2>4, <2>6, <2>9
  <2> QED
    BY <2>4, <2>5, <2>6, <2>7, <2>8, <2>11, <2>12, <2>13
<1>7. Infinity.mag = Oo /\ MinusInfinity.mag = Oo /\ Infinity # MinusInfinity
  BY <1>1, <1>3, <1>4 DEF Infinity
<1>8. Opposite(Infinity) = MinusInfinity
  BY DEF MinusInfinity
<1> QED
  BY <1>2, <1>3, <1>4, <1>5, <1>6, <1>7, <1>8

(* The double below another: the greatest of those below it.                *)
LEMMA PreviousIs ==
  ASSUME NEW x \in Doubles
  PROVE  /\ previous_float(x) \in Doubles /\ previous_float(x) # Infinity
         /\ \A w \in FiniteNums : w < Num(x) <=> w <= Num(previous_float(x))
         /\ \/ previous_float(x) = MinusInfinity
            \/ /\ previous_float(x).mag \in Magnitudes
               /\ Num(previous_float(x)) < Num(x)
<1> DEFINE o == Opposite(x)
<1> DEFINE r == Rounded(Num(o) + 1, TRUE)
<1>1. /\ o \in Doubles /\ Num(o) = -Num(x) /\ o.mag = x.mag /\ o # NaN
      /\ Num(x) \in Int /\ Num(o) \in Int /\ Largest \in Nat /\ FiniteNums \subseteq Int
  BY OppositeIsDouble, NumOfMagnitude, FiniteOrInfinite, LargestMagnitude, FiniteNumsRange
<1>2. CASE o = Infinity
  <2>1. previous_float(x) = MinusInfinity
    BY <1>2 DEF previous_float, nextafter, MinusInfinity
  <2>2. MinusInfinity \in Doubles /\ Num(MinusInfinity) = -(Largest + 1) /\ MinusInfinity # Infinity
    BY <1>1, <1>2, InfinityIs DEF MinusInfinity
  <2>3. Num(x) = -(Largest + 1)
    BY <1>1, <1>2, InfinityIs
  <2>4. \A w \in FiniteNums : w \in Int /\ -Largest <= w
    BY FiniteNumsRange
  <2> QED
    BY <1>1, <2>1, <2>2, <2>3, <2>4
<1>3. CASE o # Infinity
  <2>1. previous_float(x) = Opposite(r)
    BY <1>1, <1>3 DEF previous_float, nextafter
  <2>2. Num(o) + 1 \in Int /\ TRUE \in BOOLEAN
    BY <1>1
  <2> DEFINE q == Num(o) + 1
  <2> DEFINE pos == TRUE
  <2>3. pos \in BOOLEAN /\ q \in Int /\ r = Rounded(q, pos)
    BY <2>2
  <2> HIDE DEF q, pos, r
  <2>4. /\ r \in Doubles
        /\ q > Largest => r = Infinity
        /\ q <= Largest => r.mag \in Magnitudes /\ Num(r) = Least(q)
    BY <2>3, RoundedIsLeast
  <2>5. /\ Opposite(r) \in Doubles /\ Num(Opposite(r)) = -Num(r)
        /\ Opposite(r).mag = r.mag
    BY <2>4, OppositeIsDouble
  <2>6. q = 1 - Num(x)
    BY <1>1 DEF q
  <2>7. CASE q > Largest
    <3>1. previous_float(x) = MinusInfinity
      BY <2>1, <2>4, <2>7 DEF MinusInfinity
    <3>2. Num(previous_float(x)) = -(Largest + 1) /\ MinusInfinity # Infinity
      BY <2>1, <2>4, <2>5, <2>7, <3>1, InfinityIs
    <3>3. \A w \in FiniteNums : w \in Int /\ ~(w < Num(x)) /\ ~(w <= -(Largest + 1))
      BY <1>1, <2>6, <2>7, FiniteNumsRange
    <3> QED
      BY <2>1, <2>5, <3>1, <3>2, <3>3
  <2>8. CASE q <= Largest
    <3>1. /\ Num(r) = Least(q) /\ Least(q) \in FiniteNums /\ Least(q) >= q
          /\ \A w \in FiniteNums : w >= q => Least(q) <= w
      BY <2>3, <2>4, <2>8, LeastIsLeast
    <3>2. Least(q) \in Int
      BY <3>1, FiniteNumsRange
    <3>3. ASSUME NEW w \in FiniteNums PROVE w < Num(x) <=> w <= -Least(q)
      <4>1. -w \in FiniteNums /\ w \in Int
        BY FiniteNumsRange
      <4>2. w < Num(x) => -w >= q
        BY <1>1, <2>6, <4>1
      <4>3. -w >= q => Least(q) <= -w
        BY <3>1, <4>1
      <4> QED
        BY <1>1, <2>6, <3>1, <3>2, <4>1, <4>2, <4>3
    <3>4. Num(previous_float(x)) = -Least(q) /\ -Least(q) < Num(x)
      BY <1>1, <2>1, <2>5, <2>6, <3>1, <3>2
    <3>5. previous_float(x).mag \in Magnitudes /\ previous_float(x) # Infinity
      BY <2>1, <2>4, <2>5, <2>8, FiniteOrInfinite, InfinityIs
    <3> QED
      BY <2>1, <2>5, <3>3, <3>4, <3>5
  <2> QED
    BY <2>3, <2>7, <2>8, <1>1
<1> QED
  BY <1>2, <1>3
(* The double above another: the least of those above it.                   *)
LEMMA NextIs ==
  ASSUME NEW x \in Doubles
  PROVE  /\ next_float(x) \in Doubles /\ next_float(x) # MinusInfinity
         /\ next_float(x) = Opposite(previous_float(Opposite(x)))
         /\ \A w \in FiniteNums : Num(x) < w <=> Num(next_float(x)) <= w
         /\ \/ next_float(x) = Infinity
            \/ /\ next_float(x).mag \in Magnitudes
               /\ Num(x) < Num(next_float(x))
<1> DEFINE o == Opposite(x)
<1> DEFINE p == previous_float(o)
<1>1. o \in Doubles /\ Num(o) = -Num(x) /\ Num(x) \in Int /\ o # NaN
  BY OppositeIsDouble, NumOfMagnitude, FiniteOrInfinite
<1>2. \A y \in Doubles : Opposite(y) \in Doubles /\ Opposite(Opposite(y)) = y
  <2> TAKE y \in Doubles
  <2>1. y = [neg |-> y.neg, mag |-> y.mag] /\ y.neg \in BOOLEAN
    BY DEF Doubles
  <2>2. y # NaN /\ Opposite(y) # NaN /\ Opposite(y) \in Doubles
    BY OppositeIsDouble, FiniteOrInfinite
  <2>3. /\ Opposite(y) = [neg |-> ~y.neg, mag |-> y.mag]
        /\ Opposite(Opposite(y)) = [neg |-> ~~y.neg, mag |-> y.mag]
    BY <2>1, <2>2 DEF Opposite
  <2>4. ~~y.neg = y.neg
    BY <2>1
  <2> QED
    BY <2>1, <2>2, <2>3, <2>4
<1> HIDE DEF o
<1>3. /\ p \in Doubles /\ p # Infinity
      /\ \A w \in FiniteNums : w < Num(o) <=> w <= Num(p)
      /\ p = MinusInfinity \/ (p.mag \in Magnitudes /\ Num(p) < Num(o))
  BY <1>1, PreviousIs
<1>4. nextafter(x) \in Doubles
  <2>1. Num(x) + 1 \in Int
    BY <1>1
  <2> DEFINE pos == TRUE
  <2>2. pos \in BOOLEAN
    OBVIOUS
  <2> HIDE DEF pos
  <2>3. Rounded(Num(x) + 1, pos) \in Doubles
    BY <2>1, <2>2, RoundedIsLeast
  <2> QED
    BY <2>3, InfinityIs DEF nextafter, pos
<1>5. p = Opposite(nextafter(x))
  BY <1>2 DEF previous_float, o
<1>6. next_float(x) = Opposite(p)
  BY <1>2, <1>4, <1>5 DEF next_float
<1> HIDE DEF p
<1>7. /\ next_float(x) \in Doubles /\ Num(next_float(x)) = -Num(p)
      /\ next_float(x).mag = p.mag /\ Num(p) \in Int
  BY <1>3, <1>6, OppositeIsDouble, NumOfMagnitude
<1>8. next_float(x) # MinusInfinity
  BY <1>2, <1>3, <1>6, InfinityIs
<1>9. ASSUME NEW w \in FiniteNums PROVE Num(x) < w <=> Num(next_float(x)) <= w
  <2>1. w \in Int /\ -w \in FiniteNums
    BY FiniteNumsRange
  <2>2. -w < Num(o) <=> -w <= Num(p)
    BY <1>3, <2>1
  <2> QED
    BY <1>1, <1>7, <2>1, <2>2
<1>10. p = MinusInfinity => next_float(x) = Infinity
  BY <1>6, InfinityIs
<1>11. p # MinusInfinity => next_float(x).mag \in Magnitudes /\ Num(x) < Num(next_float(x))
  BY <1>1, <1>3, <1>7
<1>12. next_float(x) = Opposite(previous_float(Opposite(x)))
  BY <1>6 DEF p, o
<1> QED
  BY <1>7, <1>8, <1>9, <1>10, <1>11, <1>12

-----------------------------------------------------------------------------
(* The greatest magnitude at or below a whole number of units.              *)
LEMMA FloorIs ==
  ASSUME NEW q \in Nat
  PROVE  /\ FloorOf(q) \in Magnitudes /\ FloorOf(q) <= q
         /\ \A m \in Magnitudes : m <= q => m <= FloorOf(q)
<1>1. /\ Largest \in Magnitudes /\ Largest \in Nat /\ Magnitudes \subseteq Nat
      /\ \A m \in Magnitudes : m <= Largest
  BY LargestMagnitude, MagnitudesAssumption
<1>2. CASE q >= Largest
  BY <1>1, <1>2 DEF FloorOf
<1>3. CASE ~(q >= Largest)
  <2> DEFINE v == Least(-q)
  <2>1. -q \in Int /\ -q <= Largest
    BY <1>1
  <2>2. /\ v \in FiniteNums /\ v >= -q
        /\ \A w \in FiniteNums : w >= -q => v <= w
    BY <2>1, LeastIsLeast
  <2>3. FloorOf(q) = -v
    BY <1>3 DEF FloorOf
  <2> HIDE DEF v
  <2>4. v \in Int /\ v <= 0 /\ -v \in FiniteNums
    BY <2>2, FiniteNumsRange
  <2>5. -v \in Magnitudes
    BY <2>4, FiniteNumsRange
  <2>6. ASSUME NEW m \in Magnitudes, m <= q PROVE m <= -v
    <3>1. m \in Nat /\ -m \in FiniteNums
      BY <1>1, FiniteNumsRange
    <3>2. v <= -m
      BY <2>2, <2>6, <3>1
    <3> QED
      BY <2>4, <3>1, <3>2
  <2> QED
    BY <2>2, <2>3, <2>4, <2>5, <2>6
<1> QED
  BY <1>2, <1>3

(* The magnitude above another: the least of those above it, and that which *)
(* the format would have next, with the spacing it ends with.               *)
LEMMA NextMagnitudeIs ==
  ASSUME NEW m \in Magnitudes
  PROVE  /\ NextMagnitude(m) \in Nat /\ m < NextMagnitude(m)
         /\ m # Largest => /\ NextMagnitude(m) \in Magnitudes
                           /\ \A k \in Magnitudes : m < k => NextMagnitude(m) <= k
         /\ m = Largest => \E k \in Magnitudes : /\ k < Largest
                                                 /\ NextMagnitude(m) = 2 * Largest - k
                                                 /\ \A i \in Magnitudes : i < Largest => i <= k
<1>1. /\ Largest \in Magnitudes /\ Largest \in Nat /\ Magnitudes \subseteq Nat
      /\ \A i \in Magnitudes : i <= Largest /\ i \in FiniteNums
      /\ Largest >= 1
  BY LargestMagnitude, MagnitudesAssumption, FiniteNumsRange
<1>2. CASE m # Largest
  <2> DEFINE v == Least(m + 1)
  <2>1. m + 1 \in Int /\ m + 1 <= Largest
    BY <1>1, <1>2
  <2>2. /\ v \in FiniteNums /\ v >= m + 1
        /\ \A w \in FiniteNums : w >= m + 1 => v <= w
    BY <2>1, LeastIsLeast
  <2>3. NextMagnitude(m) = v
    BY <1>2 DEF NextMagnitude
  <2> HIDE DEF v
  <2>4. v \in Int
    BY <2>2, FiniteNumsRange
  <2>5. v \in Magnitudes
    BY <1>1, <2>2, <2>4, FiniteNumsRange
  <2>6. \A k \in Magnitudes : m < k => v <= k
    BY <1>1, <2>2
  <2> QED
    BY <1>1, <1>2, <2>2, <2>3, <2>5, <2>6
<1>3. CASE m = Largest
  <2> DEFINE v == Least(1 - Largest)
  <2>1. 1 - Largest \in Int /\ 1 - Largest <= Largest
    BY <1>1
  <2>2. /\ v \in FiniteNums /\ v >= 1 - Largest
        /\ \A w \in FiniteNums : w >= 1 - Largest => v <= w
    BY <2>1, LeastIsLeast
  <2>3. NextMagnitude(m) = 2 * Largest + v
    BY <1>3 DEF NextMagnitude
  <2> HIDE DEF v
  <2>4. v \in Int /\ v <= 0 /\ -v \in FiniteNums
    BY <1>1, <2>2, FiniteNumsRange
  <2>5. -v \in Magnitudes /\ -v < Largest
    BY <1>1, <2>2, <2>4, FiniteNumsRange
  <2>6. ASSUME NEW i \in Magnitudes, i < Largest PROVE i <= -v
    <3>1. -i \in FiniteNums /\ i \in Nat
      BY <1>1, FiniteNumsRange
    <3>2. v <= -i
      BY <1>1, <2>2, <2>6, <3>1
    <3> QED
      BY <2>4, <3>1, <3>2
  <2>7. 2 * Largest + v = 2 * Largest - (-v) /\ 2 * Largest + v \in Nat /\ Largest < 2 * Largest + v
    BY <1>1, <2>2, <2>4
  <2> QED
    BY <1>3, <2>3, <2>5, <2>6, <2>7
<1> QED
  BY <1>2, <1>3

(* The magnitude nearest to a fraction is between those around it, and the  *)
(* infinity from the one the format would have next on.                     *)
LEMMA NearestMagnitude ==
  ASSUME NEW n \in Nat, NEW d \in Nat, d >= 1
  PROVE  LET r == NearestFrom(n, d, FloorOf(n \div d)) IN
         /\ r \in Magnitudes \union {Oo}
         /\ \A w \in Magnitudes : /\ n <= d * w => r <= w
                                  /\ d * w <= n => w <= r
         /\ d * NextMagnitude(Largest) <= n => r = Oo
<1> DEFINE q == n \div d
<1> DEFINE b == FloorOf(q)
<1> DEFINE a == NextMagnitude(b)
<1> DEFINE t == (2 * n) \div d
<1> DEFINE r == NearestFrom(n, d, b)
<1>1. q \in Nat /\ d * q <= n /\ n < d * q + d
  OBVIOUS
<1>2. t \in Nat /\ d * t <= 2 * n /\ 2 * n < d * t + d
  OBVIOUS
<1>3. r = IF ~(t > b + a \/ (t = b + a /\ ((2 * n) % d # 0 \/ ~Even(b)))) THEN b
          ELSE IF a > Largest THEN Oo ELSE a
  BY DEF NearestFrom, NearestOf, IsUpper
<1> HIDE DEF q, t
<1>4. /\ Largest \in Magnitudes /\ Largest \in Nat /\ Magnitudes \subseteq Nat
      /\ \A i \in Magnitudes : i <= Largest
      /\ Oo = Largest + 1
  BY LargestMagnitude, MagnitudesAssumption DEF Oo
<1>5. b \in Magnitudes /\ b <= q /\ \A m \in Magnitudes : m <= q => m <= b
  BY <1>1, FloorIs
<1> HIDE DEF b
<1>6. /\ a \in Nat /\ b < a
      /\ b # Largest => a \in Magnitudes /\ \A k \in Magnitudes : b < k => a <= k
  BY <1>5, NextMagnitudeIs
<1>7. b = Largest => a = NextMagnitude(Largest)
  OBVIOUS
<1> HIDE DEF a, r
<1>8. /\ r = b \/ (r = a /\ a <= Largest) \/ (r = Oo /\ a > Largest)
      /\ t < b + a => r = b
      /\ t > b + a /\ a > Largest => r = Oo
  BY <1>2, <1>3, <1>4, <1>5, <1>6
<1>9. b \in Nat /\ d * b <= n /\ d * b \in Nat /\ d * q \in Nat
  BY <1>1, <1>4, <1>5
<1>10. a <= Largest => a \in Magnitudes
  BY <1>4, <1>5, <1>6, NextMagnitudeIs DEF a
<1>11. r \in Magnitudes \union {Oo}
  BY <1>5, <1>8, <1>10
<1>12. b <= r /\ r \in Nat
  BY <1>4, <1>5, <1>6, <1>8
<1>13. ASSUME NEW w \in Magnitudes, d * w <= n PROVE w <= r
  <2>1. w \in Nat
    BY <1>4
  <2>2. w <= q
    <3>1. w >= q + 1 => d * w >= d * q + d
      BY <1>1, <2>1
    <3> QED
      BY <1>1, <1>9, <1>13, <2>1, <3>1
  <2> QED
    BY <1>5, <1>9, <1>12, <2>1, <2>2
<1>14. ASSUME NEW w \in Magnitudes, n <= d * w PROVE r <= w
  <2>1. w \in Nat /\ d * w \in Nat
    BY <1>4
  <2>2. b <= w
    <3>1. b >= w + 1 => d * b >= d * w + d
      BY <1>9, <2>1
    <3> QED
      BY <1>9, <1>14, <2>1, <3>1
  <2>3. CASE b = w
    <3>1. n = d * b
      BY <1>9, <1>14, <2>1, <2>3
    <3>2. d * t <= d * (2 * b)
      <4>1. d * (2 * b) = 2 * (d * b)
        BY <1>9
      <4> QED
        BY <1>2, <3>1, <4>1
    <3>3. t <= 2 * b
      <4>1. t >= 2 * b + 1 => d * t >= d * (2 * b) + d
        BY <1>2, <1>9
      <4> QED
        BY <1>2, <1>9, <3>2, <4>1
    <3> QED
      BY <1>2, <1>6, <1>8, <1>9, <2>3, <3>3
  <2>4. CASE b # w
    <3>1. b < w /\ b # Largest
      BY <1>4, <1>9, <2>1, <2>2, <2>4
    <3>2. a <= w /\ a <= Largest
      BY <1>4, <1>6, <3>1
    <3> QED
      BY <1>4, <1>6, <1>8, <1>9, <2>1, <3>1, <3>2
  <2> QED
    BY <2>3, <2>4
<1>15. ASSUME d * NextMagnitude(Largest) <= n PROVE r = Oo
  <2> DEFINE z == NextMagnitude(Largest)
  <2>1. z \in Nat /\ Largest < z
    BY <1>4, NextMagnitudeIs
  <2> HIDE DEF z
  <2>2. d * z <= n /\ d * z \in Nat
    BY <1>15, <2>1 DEF z
  <2>3. z <= q
    <3>1. z >= q + 1 => d * z >= d * q + d
      BY <1>1, <2>1
    <3> QED
      BY <1>1, <1>9, <2>1, <2>2, <3>1
  <2>4. b = Largest
    BY <1>1, <1>4, <1>5, <1>9, <2>1, <2>3
  <2>5. a = z
    BY <1>7, <2>4 DEF z
  <2>6. t >= 2 * z
    <3>1. t + 1 <= 2 * z => d * t + d <= d * (2 * z)
      BY <1>2, <2>1
    <3>2. d * (2 * z) = 2 * (d * z)
      BY <2>1
    <3> QED
      BY <1>2, <2>1, <2>2, <3>1, <3>2
  <2> QED
    BY <1>2, <1>4, <1>8, <2>1, <2>4, <2>5, <2>6
<1> QED
  BY <1>11, <1>13, <1>14, <1>15 DEF r, b, q

(* A fraction rounded to nearest: a double between those around it, an      *)
(* infinity from the number the format would have next on, and the opposite *)
(* of the opposite fraction.                                                *)
LEMMA NearestIs ==
  ASSUME NEW n \in Int, NEW d \in Nat, d >= 1
  PROVE  /\ RoundNearest(n, d) \in Doubles
         /\ \A w \in FiniteNums : /\ n <= d * w => Num(RoundNearest(n, d)) <= w
                                  /\ d * w <= n => w <= Num(RoundNearest(n, d))
         /\ n <= -(d * NextMagnitude(Largest)) => RoundNearest(n, d) = MinusInfinity
         /\ Num(RoundNearest(-n, d)) = -Num(RoundNearest(n, d))
         /\ IsInf(RoundNearest(-n, d)) = IsInf(RoundNearest(n, d))
<1> DEFINE size == IF n < 0 THEN -n ELSE n
<1> DEFINE r == NearestFrom(size, d, FloorOf(size \div d))
<1> DEFINE neg == n < 0
<1> DEFINE opp == -n < 0
<1>1. /\ size \in Nat /\ neg \in BOOLEAN /\ (neg => size = -n) /\ (~neg => size = n)
      /\ opp \in BOOLEAN /\ (neg <=> n < 0) /\ (opp <=> n > 0)
  OBVIOUS
<1>2. RoundNearest(n, d) = [neg |-> neg, mag |-> r]
  BY DEF RoundNearest
<1>3. RoundNearest(-n, d) = [neg |-> opp, mag |-> r]
  <2>1. (IF -n < 0 THEN -(-n) ELSE -n) = size
    OBVIOUS
  <2> QED
    BY <2>1 DEF RoundNearest
<1> HIDE DEF size, neg, opp
<1>4. /\ r \in Magnitudes \union {Oo}
      /\ \A w \in Magnitudes : /\ size <= d * w => r <= w
                               /\ d * w <= size => w <= r
      /\ d * NextMagnitude(Largest) <= size => r = Oo
  BY <1>1, NearestMagnitude
<1> HIDE DEF r
<1>5. /\ Magnitudes \subseteq Nat /\ 0 \in Magnitudes /\ Oo = Largest + 1 /\ Largest \in Nat
      /\ Largest \in Magnitudes
  BY LargestMagnitude, MagnitudesAssumption DEF Oo
<1>6. r \in Nat
  BY <1>4, <1>5
<1>7. RoundNearest(n, d) \in Doubles /\ RoundNearest(-n, d) \in Doubles
  BY <1>1, <1>2, <1>3, <1>4 DEF Doubles
<1>8. /\ neg => Num(RoundNearest(n, d)) = -r
      /\ ~neg => Num(RoundNearest(n, d)) = r
      /\ opp => Num(RoundNearest(-n, d)) = -r
      /\ ~opp => Num(RoundNearest(-n, d)) = r
  BY <1>1, <1>2, <1>3 DEF Num
<1>9. n = 0 => r = 0
  <2> SUFFICES ASSUME n = 0 PROVE r = 0
    OBVIOUS
  <2>1. size = 0 /\ d * 0 = 0
    BY <1>1
  <2> QED
    BY <1>4, <1>5, <1>6, <2>1
<1>10. Num(RoundNearest(-n, d)) = -Num(RoundNearest(n, d))
  <2>1. CASE n < 0
    <3>1. ~opp /\ neg
      BY <1>1, <2>1
    <3> QED
      BY <1>6, <1>8, <3>1
  <2>2. CASE n = 0
    <3>1. ~neg /\ ~opp /\ r = 0
      BY <1>1, <1>9, <2>2
    <3> DEFINE x == Num(RoundNearest(n, d))
    <3> DEFINE y == Num(RoundNearest(-n, d))
    <3>2. x = 0 /\ y = 0
      BY <1>8, <3>1
    <3> HIDE DEF x, y
    <3>3. x \in Int /\ y \in Int /\ x + y = 0
      BY <3>2
    <3>4. y = -x
      BY <3>3
    <3> QED
      BY <3>4 DEF x, y
  <2>3. CASE n > 0
    BY <1>1, <1>6, <1>8, <2>3
  <2> QED
    BY <2>1, <2>2, <2>3
<1>11. IsInf(RoundNearest(-n, d)) = IsInf(RoundNearest(n, d))
  BY <1>2, <1>3 DEF IsInf
<1>12. ASSUME NEW w \in FiniteNums
       PROVE  /\ n <= d * w => Num(RoundNearest(n, d)) <= w
              /\ d * w <= n => w <= Num(RoundNearest(n, d))
  <2>1. w \in Int /\ (w >= 0 => w \in Magnitudes) /\ (w < 0 => -w \in Magnitudes)
    BY FiniteNumsRange
  <2>2. /\ w >= 0 => d * w >= 0
        /\ w < 0 => d * w < 0
    BY <2>1
  <2>3. d * (-w) = -(d * w) /\ d * w \in Int
    BY <2>1
  <2>4. CASE neg /\ w < 0
    <3>1. -w \in Magnitudes /\ size = -n /\ Num(RoundNearest(n, d)) = -r
      BY <1>1, <1>8, <2>1, <2>4
    <3>2. /\ size <= d * (-w) => r <= -w
          /\ d * (-w) <= size => -w <= r
      BY <1>4, <3>1
    <3> QED
      BY <1>6, <2>1, <2>3, <3>1, <3>2
  <2>5. CASE ~neg /\ w >= 0
    <3>1. w \in Magnitudes /\ size = n /\ Num(RoundNearest(n, d)) = r
      BY <1>1, <1>8, <2>1, <2>5
    <3> QED
      BY <1>4, <3>1
  <2>6. CASE neg /\ w >= 0
    BY <1>1, <1>6, <1>8, <2>1, <2>2, <2>6
  <2>7. CASE ~neg /\ w < 0
    BY <1>1, <1>6, <1>8, <2>1, <2>2, <2>7
  <2> QED
    BY <1>1, <2>1, <2>4, <2>5, <2>6, <2>7
<1>13. ASSUME n <= -(d * NextMagnitude(Largest)) PROVE RoundNearest(n, d) = MinusInfinity
  <2>1. NextMagnitude(Largest) \in Nat /\ Largest < NextMagnitude(Largest)
    BY <1>5, NextMagnitudeIs
  <2>2. d * NextMagnitude(Largest) \in Nat /\ d * NextMagnitude(Largest) > 0
    BY <1>5, <2>1
  <2>3. n < 0 /\ d * NextMagnitude(Largest) <= -n
    BY <1>13, <2>2
  <2>4. r = Oo /\ neg
    BY <1>1, <1>4, <2>3
  <2>5. Num(RoundNearest(n, d)) = -(Largest + 1)
    BY <1>5, <1>8, <2>4
  <2> QED
    BY <1>7, <2>5, InfinityIs
<1> QED
  BY <1>7, <1>10, <1>11, <1>12, <1>13

(* A double moved downward: what is below the same real is below both.      *)
LEMMA PreviousIsMonotonic ==
  ASSUME NEW x \in Doubles, NEW y \in Doubles, Num(x) <= Num(y)
  PROVE  /\ Num(previous_float(x)) <= Num(previous_float(y))
         /\ Num(previous_float(x)) <= Num(x)
<1>1. /\ previous_float(x) \in Doubles /\ previous_float(y) \in Doubles
      /\ \A w \in FiniteNums : w < Num(y) => w <= Num(previous_float(y))
      /\ \/ previous_float(x) = MinusInfinity
         \/ /\ previous_float(x).mag \in Magnitudes
            /\ Num(previous_float(x)) < Num(x)
  BY PreviousIs
<1>2. Num(x) \in Int /\ Num(y) \in Int /\ Num(previous_float(x)) \in Int
  BY <1>1, NumOfMagnitude
<1>3. CASE previous_float(x) = MinusInfinity
  BY <1>1, <1>2, <1>3, InfinityIs
<1>4. CASE previous_float(x).mag \in Magnitudes /\ Num(previous_float(x)) < Num(x)
  <2>1. Num(previous_float(x)) \in FiniteNums
    BY <1>1, <1>4, FiniteOrInfinite
  <2> QED
    BY <1>1, <1>2, <1>4, <2>1
<1> QED
  BY <1>1, <1>3, <1>4

(* A double moved upward, as it is downward.                                *)
LEMMA NextIsMonotonic ==
  ASSUME NEW x \in Doubles, NEW y \in Doubles, Num(x) <= Num(y)
  PROVE  /\ Num(next_float(x)) <= Num(next_float(y))
         /\ Num(y) <= Num(next_float(y))
<1>1. /\ next_float(x) \in Doubles /\ next_float(y) \in Doubles
      /\ \A w \in FiniteNums : Num(x) < w => Num(next_float(x)) <= w
      /\ \/ next_float(y) = Infinity
         \/ /\ next_float(y).mag \in Magnitudes
            /\ Num(y) < Num(next_float(y))
  BY NextIs
<1>2. Num(x) \in Int /\ Num(y) \in Int /\ Num(next_float(x)) \in Int /\ Num(next_float(y)) \in Int
  BY <1>1, NumOfMagnitude
<1>3. CASE next_float(y) = Infinity
  BY <1>1, <1>2, <1>3, InfinityIs
<1>4. CASE next_float(y).mag \in Magnitudes /\ Num(y) < Num(next_float(y))
  <2>1. Num(next_float(y)) \in FiniteNums
    BY <1>1, <1>4, FiniteOrInfinite
  <2> QED
    BY <1>1, <1>2, <1>4, <2>1
<1> QED
  BY <1>1, <1>3, <1>4

(* What is moved one way and back did not go farther.                       *)
LEMMA BackIsNear ==
  ASSUME NEW x \in Doubles
  PROVE  /\ Num(previous_float(next_float(x))) <= Num(x)
         /\ Num(x) <= Num(next_float(previous_float(x)))
<1>1. /\ next_float(x) \in Doubles /\ previous_float(x) \in Doubles
      /\ \A w \in FiniteNums : Num(x) < w <=> Num(next_float(x)) <= w
      /\ \A w \in FiniteNums : w < Num(x) <=> w <= Num(previous_float(x))
  BY PreviousIs, NextIs
<1> DEFINE p == previous_float(next_float(x))
<1> DEFINE q == next_float(previous_float(x))
<1>2. /\ p \in Doubles
      /\ p = MinusInfinity \/ (p.mag \in Magnitudes /\ Num(p) < Num(next_float(x)))
  BY <1>1, PreviousIs
<1>3. /\ q \in Doubles
      /\ q = Infinity \/ (q.mag \in Magnitudes /\ Num(previous_float(x)) < Num(q))
  BY <1>1, NextIs
<1> HIDE DEF p, q
<1>4. /\ Num(x) \in Int /\ Num(p) \in Int /\ Num(q) \in Int
      /\ Num(next_float(x)) \in Int /\ Num(previous_float(x)) \in Int
  BY <1>1, <1>2, <1>3, NumOfMagnitude
<1>5. p.mag \in Magnitudes => Num(p) \in FiniteNums
  BY <1>2, FiniteOrInfinite
<1>6. q.mag \in Magnitudes => Num(q) \in FiniteNums
  BY <1>3, FiniteOrInfinite
<1>7. Num(p) <= Num(x)
  BY <1>1, <1>2, <1>4, <1>5, InfinityIs
<1>8. Num(x) <= Num(q)
  BY <1>1, <1>3, <1>4, <1>6, InfinityIs
<1> QED
  BY <1>7, <1>8 DEF p, q

-----------------------------------------------------------------------------
(* Arithmetic of integers, for the signs and the sizes of products.         *)
LEMMA ProductsGrow ==
  ASSUME NEW x \in Nat, NEW y \in Nat, NEW u \in Nat, NEW v \in Nat, u <= x, v <= y
  PROVE  u * v <= x * y
<1>1. PICK a \in Nat : x = u + a
  <2>1. x - u \in Nat /\ x = u + (x - u)
    OBVIOUS
  <2> QED
    BY <2>1
<1>2. PICK b \in Nat : y = v + b
  <2>1. y - v \in Nat /\ y = v + (y - v)
    OBVIOUS
  <2> QED
    BY <2>1
<1>3. x * y = u * v + (u * b + a * v + a * b)
  BY <1>1, <1>2
<1>4. u * b \in Nat /\ a * v \in Nat /\ a * b \in Nat /\ u * v \in Nat
  OBVIOUS
<1> QED
  BY <1>3, <1>4

(* A product of two numbers of one sign is not negative.                    *)
LEMMA SignsMultiply ==
  /\ \A a, b \in Nat : a * b \in Nat
  /\ \A a, b \in Int : /\ a * b \in Int
                       /\ (-a) * b = -(a * b) /\ a * (-b) = -(a * b) /\ (-a) * (-b) = a * b
                       /\ a >= 0 /\ b >= 0 => a * b >= 0
                       /\ a <= 0 /\ b <= 0 => a * b >= 0
                       /\ a >= 0 /\ b <= 0 => a * b <= 0
                       /\ a <= 0 /\ b >= 0 => a * b <= 0
                       /\ a > 0 /\ b > 0 => a * b > 0
<1>1. \A a, b \in Int : a * b \in Int /\ (-a) * b = -(a * b) /\ a * (-b) = -(a * b)
                          /\ (-a) * (-b) = a * b
  OBVIOUS
<1>2. \A a, b \in Int : a >= 0 /\ b >= 0 => a * b >= 0
  OBVIOUS
<1>3. \A a, b \in Int : a <= 0 /\ b <= 0 => a * b >= 0
  OBVIOUS
<1>4. \A a, b \in Int : a >= 0 /\ b <= 0 => a * b <= 0
  OBVIOUS
<1>5. \A a, b \in Int : a <= 0 /\ b >= 0 => a * b <= 0
  OBVIOUS
<1>6. \A a, b \in Int : a > 0 /\ b > 0 => a * b > 0
  OBVIOUS
<1> QED
  BY <1>1, <1>2, <1>3, <1>4, <1>5, <1>6

(* r bounds n/d units from above, d > 0 *)
AtLeast(r, n, d) == r = Infinity \/ n <= d * Num(r)

(* The sign bit of a double other than a 0 is the sign of its value.        *)
LEMMA SignIs ==
  \A x \in Doubles : Num(x) # 0 => (x.neg <=> Num(x) < 0) /\ (~x.neg <=> Num(x) > 0)
<1>1. ASSUME NEW x \in Doubles, Num(x) # 0
      PROVE  (x.neg <=> Num(x) < 0) /\ (~x.neg <=> Num(x) > 0)
  <2>1. /\ x.mag \in Nat /\ x.neg \in BOOLEAN
        /\ x.neg => Num(x) = -x.mag
        /\ ~x.neg => Num(x) = x.mag
    BY NumOfMagnitude
  <2> QED
    BY <1>1, <2>1
<1> QED
  BY <1>1

(* What is rounded upward is an end at or above it.                         *)
LEMMA RoundUpIsUpper ==
  ASSUME NEW n \in Int, NEW d \in Nat, d >= 1, NEW neg \in BOOLEAN
  PROVE  RoundUp(n, d, neg) \in Ends /\ AtLeast(RoundUp(n, d, neg), n, d)
<1> DEFINE r == RoundUp(n, d, neg)
<1>1. /\ r \in Doubles
      /\ \/ r.mag \in Magnitudes /\ n <= d * Num(r)
         \/ r = Infinity
  BY RoundUpIsLeast
<1> HIDE DEF r
<1>2. r.mag \in Magnitudes => ~IsInf(r)
  BY <1>1, FiniteOrInfinite
<1>3. r \in Ends
  BY <1>1, <1>2, EndsAre
<1>4. AtLeast(r, n, d)
  BY <1>1 DEF AtLeast
<1> QED
  BY <1>3, <1>4 DEF r

(* A sum of two ends rounded upward is an end at or above their sum.        *)
LEMMA SumIsUpper ==
  ASSUME NEW x \in Ends, NEW y \in Ends
  PROVE  AddUp(x, y) \in Ends /\ AtLeast(AddUp(x, y), Num(x) + Num(y), 1)
<1>1. /\ x # NaN /\ y # NaN /\ Num(x) \in Int /\ Num(y) \in Int
      /\ IsInf(x) => x = Infinity
      /\ IsInf(y) => y = Infinity
  BY EndsAre
<1>2. CASE IsInf(x) \/ IsInf(y)
  <2>1. AddUp(x, y) = Infinity
    BY <1>1, <1>2 DEF AddUp
  <2> QED
    BY <2>1, EndsAre DEF AtLeast
<1>3. CASE ~IsInf(x) /\ ~IsInf(y)
  <2> DEFINE neg == x = Zero(TRUE) /\ y = Zero(TRUE)
  <2>1. neg \in BOOLEAN
    OBVIOUS
  <2>2. AddUp(x, y) = RoundUp(Num(x) + Num(y), 1, neg)
    BY <1>1, <1>3 DEF AddUp
  <2> HIDE DEF neg
  <2>3. Num(x) + Num(y) \in Int
    BY <1>1
  <2> QED
    BY <2>1, <2>2, <2>3, RoundUpIsUpper
<1> QED
  BY <1>2, <1>3

(* Two doubles the product or the quotient of which is not below 0 *)
Agree(x, y) == (Num(x) >= 0 /\ Num(y) >= 0) \/ (Num(x) <= 0 /\ Num(y) <= 0)

(* A product rounded upward is an end at or above it, when an infinite      *)
(* operand has the sign of the other one; a NaN stands for 0 times oo.      *)
LEMMA ProductIsUpper ==
  ASSUME NEW x \in Doubles, NEW y \in Doubles, IsInf(x) \/ IsInf(y) => Agree(x, y)
  PROVE  /\ NaNToZero(MulUp(x, y)) \in Ends
         /\ AtLeast(NaNToZero(MulUp(x, y)), Num(x) * Num(y), One)
         /\ ~(IsInf(x) /\ IsZero(y)) /\ ~(IsZero(x) /\ IsInf(y)) =>
              NaNToZero(MulUp(x, y)) = MulUp(x, y)
<1>1. /\ x # NaN /\ y # NaN /\ Num(x) \in Int /\ Num(y) \in Int
      /\ IsZero(x) <=> Num(x) = 0
      /\ IsZero(y) <=> Num(y) = 0
      /\ One \in Nat /\ One >= 1
  BY FiniteOrInfinite, NumOfMagnitude, LargestMagnitude
<1> DEFINE neg == x.neg # y.neg
<1>2. neg \in BOOLEAN
  OBVIOUS
<1>3. CASE (IsInf(x) /\ IsZero(y)) \/ (IsZero(x) /\ IsInf(y))
  <2> DEFINE z == Zero(FALSE)
  <2>1. NaNToZero(MulUp(x, y)) = z
    BY <1>3 DEF MulUp, NaNToZero
  <2>2. z \in Ends /\ Num(z) = 0
    BY EndsAre
  <2> HIDE DEF z
  <2>3. Num(x) * Num(y) = 0
    BY <1>1, <1>3
  <2>4. One * Num(z) = 0
    BY <1>1, <2>2
  <2> QED
    BY <1>3, <2>1, <2>2, <2>3, <2>4 DEF AtLeast
<1>4. CASE (IsInf(x) \/ IsInf(y)) /\ ~((IsInf(x) /\ IsZero(y)) \/ (IsZero(x) /\ IsInf(y)))
  <2>1. Num(x) # 0 /\ Num(y) # 0
    <3>1. \A v \in Doubles : ~(IsInf(v) /\ IsZero(v))
      BY LargestMagnitude DEF IsInf, IsZero, Oo
    <3> QED
      BY <1>1, <1>4, <3>1
  <2>2. x.neg \in BOOLEAN /\ y.neg \in BOOLEAN
    BY NumOfMagnitude
  <2>3. (x.neg # y.neg) = FALSE
    BY <1>1, <1>4, <2>1, <2>2, SignIs DEF Agree
  <2>4. MulUp(x, y) = [neg |-> (x.neg # y.neg), mag |-> Oo]
    BY <1>1, <1>4 DEF MulUp
  <2>6. MulUp(x, y) = Infinity
    BY <2>3, <2>4 DEF Infinity
  <2>5. NaNToZero(Infinity) = Infinity
    BY EndsAre DEF NaNToZero
  <2> QED
    BY <2>6, <2>5, EndsAre DEF AtLeast
<1>5. CASE ~IsInf(x) /\ ~IsInf(y)
  <2>1. MulUp(x, y) = RoundUp(Num(x) * Num(y), One, neg)
    BY <1>1, <1>5 DEF MulUp
  <2>2. Num(x) * Num(y) \in Int
    BY <1>1
  <2> HIDE DEF neg
  <2>3. MulUp(x, y) \in Ends /\ AtLeast(MulUp(x, y), Num(x) * Num(y), One)
    BY <1>1, <1>2, <2>1, <2>2, RoundUpIsUpper
  <2>4. NaNToZero(MulUp(x, y)) = MulUp(x, y)
    BY <2>3, EndsAre DEF NaNToZero
  <2> QED
    BY <2>3, <2>4
<1> QED
  BY <1>3, <1>4, <1>5

(* The same with the operands of a quotient, of a divisor other than 0: the  *)
(* quotient of an infinity is +oo or not taken, that by an infinity is a 0   *)
(* on which side of the quotient matters.                                   *)
LEMMA QuotientIsUpper ==
  ASSUME NEW x \in Doubles, NEW y \in Doubles, Num(y) # 0,
         IsInf(x) => Agree(x, y) /\ ~IsInf(y),
         IsInf(y) => Agree(x, Opposite(y))
  PROVE  /\ DivUp(x, y) \in Ends
         /\ Num(y) > 0 => AtLeast(DivUp(x, y), One * Num(x), Num(y))
         /\ Num(y) < 0 => AtLeast(DivUp(x, y), One * (-Num(x)), -Num(y))
<1>1. /\ x # NaN /\ y # NaN /\ Num(x) \in Int /\ Num(y) \in Int
      /\ IsZero(x) <=> Num(x) = 0
      /\ IsZero(y) <=> Num(y) = 0
      /\ One \in Nat /\ One >= 1
      /\ y.mag \in Nat /\ y.neg \in BOOLEAN /\ x.neg \in BOOLEAN
      /\ y.neg => Num(y) = -y.mag
      /\ ~y.neg => Num(y) = y.mag
  BY FiniteOrInfinite, NumOfMagnitude, LargestMagnitude
<1> DEFINE neg == x.neg # y.neg
<1>2. neg \in BOOLEAN
  OBVIOUS
<1>3. CASE IsInf(x)
  <2>1. Num(x) # 0
    <3>1. \A v \in Doubles : ~(IsInf(v) /\ IsZero(v))
      BY LargestMagnitude DEF IsInf, IsZero, Oo
    <3> QED
      BY <1>1, <1>3, <3>1
  <2>2. (x.neg # y.neg) = FALSE
    BY <1>1, <1>3, <2>1, SignIs DEF Agree
  <2>3. DivUp(x, y) = [neg |-> (x.neg # y.neg), mag |-> Oo]
    BY <1>1, <1>3, <2>1 DEF DivUp
  <2>4. DivUp(x, y) = Infinity
    BY <2>2, <2>3 DEF Infinity
  <2> QED
    BY <2>4, EndsAre DEF AtLeast
<1>4. CASE ~IsInf(x) /\ IsInf(y)
  <2>1. DivUp(x, y) = Zero(neg)
    BY <1>1, <1>4 DEF DivUp
  <2>2. Zero(neg) \in Ends /\ Num(Zero(neg)) = 0
    BY <1>2, EndsAre
  <2>3. Num(Opposite(y)) = -Num(y)
    BY OppositeIsDouble
  <2>4. /\ Num(y) > 0 => Num(x) <= 0
        /\ Num(y) < 0 => -Num(x) <= 0
    BY <1>1, <1>4, <2>3 DEF Agree
  <2>5. \A a \in Int : a <= 0 => One * a <= 0
    BY <1>1, SignsMultiply
  <2>6. Num(y) * Num(Zero(neg)) = 0 /\ (-Num(y)) * Num(Zero(neg)) = 0
    BY <1>1, <2>2
  <2>7. /\ Num(y) > 0 => One * Num(x) <= 0
        /\ Num(y) < 0 => One * (-Num(x)) <= 0
    BY <1>1, <2>4, <2>5
  <2> QED
    BY <2>1, <2>2, <2>6, <2>7 DEF AtLeast
<1>5. CASE ~IsInf(x) /\ ~IsInf(y)
  <2> DEFINE n == (IF y.neg THEN -1 ELSE 1) * Num(x) * One
  <2>1. DivUp(x, y) = RoundUp(n, y.mag, neg)
    BY <1>1, <1>5 DEF DivUp
  <2>2. n \in Int
    BY <1>1
  <2>3. y.mag >= 1
    BY <1>1
  <2>4. CASE y.neg
    <3>1. Num(y) < 0 /\ y.mag = -Num(y)
      BY <1>1, <2>3, <2>4
    <3>2. n = One * (-Num(x))
      BY <1>1, <2>4
    <3> HIDE DEF n, neg
    <3>3. RoundUp(n, y.mag, neg) \in Ends /\ AtLeast(RoundUp(n, y.mag, neg), n, y.mag)
      BY <1>1, <1>2, <2>2, <2>3, RoundUpIsUpper
    <3>4. ~(Num(y) > 0)
      BY <1>1, <3>1
    <3> QED
      BY <2>1, <3>1, <3>2, <3>3, <3>4
  <2>5. CASE ~y.neg
    <3>1. Num(y) > 0 /\ y.mag = Num(y)
      BY <1>1, <2>3, <2>5
    <3>2. n = One * Num(x)
      BY <1>1, <2>5
    <3> HIDE DEF n, neg
    <3>3. RoundUp(n, y.mag, neg) \in Ends /\ AtLeast(RoundUp(n, y.mag, neg), n, y.mag)
      BY <1>1, <1>2, <2>2, <2>3, RoundUpIsUpper
    <3>4. ~(Num(y) < 0)
      BY <1>1, <3>1
    <3> QED
      BY <2>1, <3>1, <3>2, <3>3, <3>4
  <2> QED
    BY <2>4, <2>5
<1> QED
  BY <1>3, <1>4, <1>5

(* The greater of two ends at or above a number is an end at or above it.   *)
LEMMA MaxPdIsUpper ==
  ASSUME NEW x \in Ends, NEW y \in Ends, NEW n, NEW d, AtLeast(x, n, d), AtLeast(y, n, d)
  PROVE  MaxPd(x, y) \in Ends /\ AtLeast(MaxPd(x, y), n, d)
  BY DEF MaxPd

(* Rounding to nearest gives a double.                                      *)
LEMMA RoundNearestIsDouble ==
  ASSUME NEW n \in Int, NEW d \in {1, 2}
  PROVE  RoundNearest(n, d) \in Doubles
<1> DEFINE size == IF n < 0 THEN -n ELSE n
<1> DEFINE below == FloorOf(size \div d)
<1> DEFINE above == NextMagnitude(below)
<1>1. size \div d \in Nat
  BY SMT
<1>2. below \in Magnitudes /\ below \in Nat
  <2> HIDE DEF size
  <2> DEFINE q == size \div d
  <2>1. q \in Nat
    BY <1>1
  <2> HIDE DEF q
  <2>2. CASE q >= Largest
    BY <2>2, LargestMagnitude DEF FloorOf, q
  <2>3. CASE q < Largest
    <3>1. -q \in Int /\ -q <= Largest /\ 0 >= -q
      BY <2>1, LargestMagnitude
    <3>2. Least(-q) \in FiniteNums /\ \A w \in FiniteNums : w >= -q => Least(-q) <= w
      BY <3>1, LeastIsLeast
    <3>3. Least(-q) <= 0 /\ Least(-q) \in Int /\ -Least(-q) \in FiniteNums
      BY <3>1, <3>2, FiniteNumsRange
    <3>4. -Least(-q) \in Magnitudes
      BY <3>3, FiniteNumsRange
    <3>5. ~(q >= Largest)
      BY <2>1, <2>3, LargestMagnitude
    <3> QED
      BY <3>3, <3>4, <3>5 DEF FloorOf, q
  <2> QED
    BY <2>1, <2>2, <2>3, LargestMagnitude
<1> HIDE DEF size, below
<1>3. above \in Magnitudes \/ above > Largest
  <2>1. CASE below = Largest
    <3>1. Least(1 - Largest) \in FiniteNums /\ Least(1 - Largest) >= 1 - Largest
      BY LargestMagnitude, LeastIsLeast
    <3>2. Least(1 - Largest) \in Int
      BY <3>1, FiniteNumsRange
    <3> QED
      BY <2>1, <3>1, <3>2, LargestMagnitude DEF NextMagnitude
  <2>2. CASE below # Largest
    <3>1. below + 1 \in Int /\ below + 1 <= Largest
      BY <1>2, <2>2, LargestMagnitude
    <3>2. Least(below + 1) \in FiniteNums /\ Least(below + 1) >= below + 1
      BY <3>1, LeastIsLeast
    <3>3. Least(below + 1) \in Magnitudes
      <4>1. Least(below + 1) \in Int
        BY <3>2, FiniteNumsRange
      <4>2. Least(below + 1) >= 0
        BY <1>2, <3>2, <4>1
      <4> QED
        BY <3>2, <4>2, FiniteNumsRange
    <3>4. above = Least(below + 1)
      BY <2>2 DEF NextMagnitude
    <3> QED
      BY <3>3, <3>4
  <2> QED
    BY <2>1, <2>2
<1>4. NearestFrom(size, d, below) \in Magnitudes \union {Oo}
  BY <1>2, <1>3 DEF NearestFrom, NearestOf
<1>5. (n < 0) \in BOOLEAN
  OBVIOUS
<1>6. RoundNearest(n, d) = [neg |-> n < 0, mag |-> NearestFrom(size, d, below)]
  BY DEF RoundNearest, size, below
<1> QED
  BY <1>4, <1>5, <1>6 DEF Doubles

(* The products of the bounds that operator*= takes, of the two sides: a and *)
(* b are the stored bounds of the first operand, c and d of the second.      *)
LEMMA BoundsMultiply ==
  ASSUME NEW a \in Int, NEW b \in Int, NEW c \in Int, NEW d \in Int, a + b >= 0, c + d >= 0
  PROVE  /\ a <= 0 /\ c <= 0 => a * (-c) + b * d >= 0
         /\ b >= 0 => b * c + b * d >= 0
         /\ a <= 0 /\ d <= 0 => b * c + (-a) * d >= 0
         /\ d >= 0 => a * d + b * d >= 0
         /\ c >= 0 => b * c + a * c >= 0
         /\ b <= 0 /\ c <= 0 => a * d + b * (-c) >= 0
         /\ a >= 0 => a * d + a * c >= 0
         /\ b <= 0 /\ d <= 0 => b * (-d) + a * c >= 0
<1>1. ASSUME NEW u \in Int, NEW v \in Int, NEW s \in Int, NEW t \in Int,
             u >= 0, v >= 0, u <= s, v <= t
      PROVE  u * v <= s * t
  <2>1. u \in Nat /\ v \in Nat /\ s \in Nat /\ t \in Nat
    BY <1>1
  <2> QED
    BY <1>1, <2>1, ProductsGrow
<1>2. a <= 0 /\ c <= 0 => a * (-c) + b * d >= 0
  <2>1. a <= 0 /\ c <= 0 => (-a) * (-c) <= b * d
    BY <1>1
  <2>2. (-a) * (-c) = -(a * (-c))
    OBVIOUS
  <2> QED
    BY <2>1, <2>2
<1>3. b >= 0 => b * c + b * d >= 0
  <2>1. b >= 0 => b * (c + d) >= 0
    BY SignsMultiply
  <2> QED
    BY <2>1
<1>4. a <= 0 /\ d <= 0 => b * c + (-a) * d >= 0
  <2>1. a <= 0 /\ d <= 0 => (-a) * (-d) <= b * c
    BY <1>1
  <2>2. (-a) * (-d) = -((-a) * d)
    OBVIOUS
  <2> QED
    BY <2>1, <2>2
<1>5. d >= 0 => a * d + b * d >= 0
  <2>1. d >= 0 => (a + b) * d >= 0
    BY SignsMultiply
  <2> QED
    BY <2>1
<1>6. c >= 0 => b * c + a * c >= 0
  <2>1. c >= 0 => (a + b) * c >= 0
    BY SignsMultiply
  <2> QED
    BY <2>1
<1>7. b <= 0 /\ c <= 0 => a * d + b * (-c) >= 0
  <2>1. b <= 0 /\ c <= 0 => (-b) * (-c) <= a * d
    BY <1>1
  <2>2. (-b) * (-c) = -(b * (-c))
    OBVIOUS
  <2> QED
    BY <2>1, <2>2
<1>8. a >= 0 => a * d + a * c >= 0
  <2>1. a >= 0 => a * (c + d) >= 0
    BY SignsMultiply
  <2> QED
    BY <2>1
<1>9. b <= 0 /\ d <= 0 => b * (-d) + a * c >= 0
  <2>1. b <= 0 /\ d <= 0 => (-b) * (-d) <= a * c
    BY <1>1
  <2>2. (-b) * (-d) = -(b * (-d))
    OBVIOUS
  <2> QED
    BY <2>1, <2>2
<1> QED
  BY <1>2, <1>3, <1>4, <1>5, <1>6, <1>7, <1>8, <1>9

(* A NaN bound makes both bounds of a sum NaN.                              *)
LEMMA SumOfNaN ==
  \A x : AddUp(NaN, x) = NaN /\ AddUp(x, NaN) = NaN
  BY DEF AddUp

(* Order is that of the products by a number above 0.                       *)
LEMMA ProductsCompare ==
  ASSUME NEW f \in Nat, f >= 1
  PROVE  \A u, v \in Int : /\ u <= v <=> u * f <= v * f
                           /\ u < v <=> u * f < v * f
                           /\ u = v <=> u * f = v * f
<1>1. ASSUME NEW u \in Int, NEW v \in Int, u <= v PROVE u * f <= v * f
  <2>1. (v - u) * f >= 0
    BY <1>1, SignsMultiply
  <2> QED
    BY <2>1
<1>2. ASSUME NEW u \in Int, NEW v \in Int, u < v PROVE u * f < v * f
  <2>1. (v - u) * f > 0
    BY <1>2, SignsMultiply
  <2> QED
    BY <2>1
<1>3. ASSUME NEW u \in Int, NEW v \in Int
      PROVE  /\ u <= v <=> u * f <= v * f
             /\ u < v <=> u * f < v * f
             /\ u = v <=> u * f = v * f
  <2> DEFINE p == u * f
             q == v * f
  <2>1. p \in Int /\ q \in Int
    OBVIOUS
  <2>2. /\ u <= v => p <= q
        /\ u < v => p < q
        /\ v <= u => q <= p
        /\ v < u => q < p
    BY <1>1, <1>2
  <2> HIDE DEF p, q
  <2>3. /\ u <= v <=> p <= q
        /\ u < v <=> p < q
        /\ u = v <=> p = q
    BY <2>1, <2>2
  <2> QED
    BY <2>3 DEF p, q
<1> QED
  BY <1>3

(* The differences of the numbers of two sets, and those on each side of 0  *)
Apart(S, T) == {x - y : x \in S, y \in T}

AboveZero(D) == {d \in D : d > 0}

BelowZero(D) == {d \in D : d < 0}

(* The least and the greatest of a set of numbers *)
Extremes(S, a, b) ==
  /\ S \subseteq Int /\ a \in S /\ b \in S
  /\ \A x \in S : a <= x /\ x <= b

(* What the differences of two bounded sets of numbers tell of their         *)
(* extremes.                                                                *)
LEMMA DifferencesCompare ==
  ASSUME NEW S, NEW T, NEW a, NEW b, NEW c, NEW e, Extremes(S, a, b), Extremes(T, c, e)
  PROVE  /\ Apart(S, T) = AboveZero(Apart(S, T)) <=> e < a
         /\ BelowZero(Apart(S, T)) = {} <=> e <= a
         /\ Apart(S, T) = BelowZero(Apart(S, T)) <=> b < c
         /\ AboveZero(Apart(S, T)) = {} <=> b <= c
         /\ AboveZero(Apart(S, T)) # {} <=> c < b
         /\ Apart(S, T) # BelowZero(Apart(S, T)) <=> c <= b
         /\ BelowZero(Apart(S, T)) # {} <=> a < e
         /\ Apart(S, T) # AboveZero(Apart(S, T)) <=> a <= e
         /\ S = T /\ AboveZero(Apart(S, T)) \union BelowZero(Apart(S, T)) = {} <=> a = b /\ c = e /\ a = c
         /\ AboveZero(Apart(S, T)) \union BelowZero(Apart(S, T)) # {} <=> ~(b <= c /\ e <= a)
<1> DEFINE differences == Apart(S, T)
           above == AboveZero(differences)
           below == BelowZero(differences)
<1> /\ S \subseteq Int /\ T \subseteq Int
    /\ a \in S /\ b \in S /\ \A x \in S : a <= x /\ x <= b
    /\ c \in T /\ e \in T /\ \A y \in T : c <= y /\ y <= e
  BY DEF Extremes
<1>1. a \in Int /\ b \in Int /\ c \in Int /\ e \in Int
  OBVIOUS
<1>2. \A d \in differences : d \in Int /\ a - e <= d /\ d <= b - c
  <2>1. ASSUME NEW d \in differences PROVE d \in Int /\ a - e <= d /\ d <= b - c
    <3>1. PICK x \in S, y \in T : d = x - y
      BY <2>1 DEF Apart
    <3>2. x \in Int /\ y \in Int /\ a <= x /\ x <= b /\ c <= y /\ y <= e
      OBVIOUS
    <3> QED
      BY <1>1, <3>1, <3>2
  <2> QED
    BY <2>1
<1>3. a - e \in differences /\ b - c \in differences
  <2>1. \A x \in S, y \in T : x - y \in differences
    BY DEF Apart
  <2> QED
    BY <2>1
<1> DEFINE least == a - e
           greatest == b - c
<1>4. /\ least \in Int /\ greatest \in Int
      /\ least > 0 <=> e < a
      /\ least >= 0 <=> e <= a
      /\ greatest < 0 <=> b < c
      /\ greatest <= 0 <=> b <= c
  BY <1>1
<1> HIDE DEF least, greatest
<1>5. /\ \A d \in differences : d \in Int /\ least <= d /\ d <= greatest
      /\ least \in differences /\ greatest \in differences
  BY <1>2, <1>3 DEF least, greatest
<1>6. /\ \A d : d \in above <=> d \in differences /\ d > 0
      /\ \A d : d \in below <=> d \in differences /\ d < 0
  BY DEF AboveZero, BelowZero
<1> HIDE DEF differences, above, below
<1>7. /\ differences = above <=> \A d \in differences : d > 0
      /\ differences = below <=> \A d \in differences : d < 0
      /\ above = {} <=> \A d \in differences : ~(d > 0)
      /\ below = {} <=> \A d \in differences : ~(d < 0)
  <2>1. differences = above <=> \A d \in differences : d > 0
    BY <1>6
  <2>2. differences = below <=> \A d \in differences : d < 0
    BY <1>6
  <2>3. above = {} <=> \A d \in differences : ~(d > 0)
    BY <1>6
  <2>4. below = {} <=> \A d \in differences : ~(d < 0)
    BY <1>6
  <2> QED
    BY <2>1, <2>2, <2>3, <2>4
<1>8. /\ (\A d \in differences : d > 0) <=> least > 0
      /\ (\A d \in differences : d < 0) <=> greatest < 0
      /\ (\A d \in differences : ~(d > 0)) <=> greatest <= 0
      /\ (\A d \in differences : ~(d < 0)) <=> least >= 0
  BY <1>4, <1>5
<1>9. differences = above <=> least > 0
  BY <1>7, <1>8
<1>10. differences = below <=> greatest < 0
  BY <1>7, <1>8
<1>11. above = {} <=> greatest <= 0
  BY <1>7, <1>8
<1>12. below = {} <=> least >= 0
  BY <1>7, <1>8
<1>13. above \union below = {} <=> above = {} /\ below = {}
  OBVIOUS
<1>14. ASSUME S = T, above \union below = {} PROVE a = b /\ c = e /\ a = c
  <2>1. b <= c /\ e <= a
    BY <1>4, <1>11, <1>12, <1>14
  <2>2. a <= b /\ c <= e
    OBVIOUS
  <2>3. c <= a /\ a <= e
    BY <1>14
  <2> QED
    BY <1>1, <2>1, <2>2, <2>3
<1>15. ASSUME a = b, c = e, a = c PROVE S = T /\ above \union below = {}
  <2>1. \A x \in S : x = a
    BY <1>1, <1>15
  <2>2. \A y \in T : y = a
    BY <1>1, <1>15
  <2>3. a \in S /\ a \in T
    BY <1>15
  <2>4. S = T
    <3>1. \A z : z \in S <=> z \in T
      BY <2>1, <2>2, <2>3
    <3> QED
      BY <3>1
  <2>5. above = {} /\ below = {}
    BY <1>1, <1>4, <1>11, <1>12, <1>15
  <2>6. above \union below = {}
    BY <1>13, <2>5
  <2> QED
    BY <2>4, <2>6
<1>16. /\ S = T /\ above \union below = {} <=> a = b /\ c = e /\ a = c
       /\ above \union below # {} <=> ~(b <= c /\ e <= a)
  BY <1>4, <1>11, <1>12, <1>13, <1>14, <1>15
<1> QED
  BY <1>1, <1>4, <1>9, <1>10, <1>11, <1>12, <1>16 DEF differences, above, below

(* r is the least double whose value is in U, a set of finite ones that has  *)
(* every one above those that it has, or +oo when U has none.               *)
IsCeiling(r, U) ==
  \/ Num(r) \in U /\ \A w \in U : Num(r) <= w
  \/ r = Infinity /\ U = {}

(* The values of the finite doubles at or above n/d, d > 0, and those that   *)
(* no rational of Q exceeds *)
From(n, d) == {v \in FiniteNums : n <= v * d}

Bounding(Q) == {v \in FiniteNums : \A q \in Q : q[1] <= v * q[2]}

(* A fraction rounded upward is its ceiling.                                *)
LEMMA RoundUpIsCeiling ==
  ASSUME NEW n \in Int, NEW d \in Nat, d >= 1, NEW neg \in BOOLEAN
  PROVE  IsCeiling(RoundUp(n, d, neg), From(n, d))
<1> DEFINE r == RoundUp(n, d, neg)
<1>1. /\ r \in Doubles
      /\ \/ r.mag \in Magnitudes /\ Num(r) \in FiniteNums /\ n <= d * Num(r)
         \/ r = Infinity /\ n > d * Largest
      /\ \A w \in FiniteNums : n <= d * w => Num(r) <= w /\ r.mag \in Magnitudes
  BY RoundUpIsLeast
<1> HIDE DEF r
<1>2. \A w \in FiniteNums : w \in Int /\ d * w = w * d
  BY FiniteNumsRange
<1>3. CASE r.mag \in Magnitudes /\ Num(r) \in FiniteNums /\ n <= d * Num(r)
  <2>1. Num(r) \in From(n, d) /\ \A w \in From(n, d) : Num(r) <= w
    BY <1>1, <1>2, <1>3 DEF From
  <2> QED
    BY <2>1 DEF IsCeiling, r
<1>4. CASE r = Infinity /\ n > d * Largest
  <2>1. r.mag \notin Magnitudes
    BY <1>4, LargestMagnitude DEF Infinity, Oo
  <2>2. From(n, d) = {}
    BY <1>1, <1>2, <2>1 DEF From
  <2> QED
    BY <1>4, <2>2 DEF IsCeiling, r
<1> QED
  BY <1>1, <1>3, <1>4

(* The opposites of rationals                                                *)
Opposites(Q) == {<<-(q[1]), q[2]>> : q \in Q}

(* Fractions of one denominator *)
Over(N, d) == {<<n, d>> : n \in N}

(* The doubles that bound fractions are those that bound the greatest.        *)
LEMMA FractionsAreBounded ==
  ASSUME NEW N, NEW lo, NEW hi, Extremes(N, lo, hi), NEW d \in Nat, d >= 1
  PROVE  /\ Bounding(Over(N, d)) = From(hi, d)
         /\ Bounding(Opposites(Over(N, d))) = From(-lo, d)
         /\ Over(N, d) # {}
<1>1. /\ N \subseteq Int /\ lo \in N /\ hi \in N /\ lo \in Int /\ hi \in Int
      /\ \A n \in N : lo <= n /\ n <= hi
  BY DEF Extremes
<1>2. <<hi, d>> \in Over(N, d) /\ <<-lo, d>> \in Opposites(Over(N, d))
  <2>1. <<hi, d>> \in Over(N, d) /\ <<lo, d>> \in Over(N, d)
    BY <1>1 DEF Over
  <2>2. <<-(<<lo, d>>[1]), <<lo, d>>[2]>> \in Opposites(Over(N, d))
    BY <2>1 DEF Opposites
  <2> QED
    BY <2>1, <2>2
<1>3. \A q \in Over(N, d) : q[2] = d /\ q[1] \in N
  BY DEF Over
<1>4. \A q \in Opposites(Over(N, d)) : q[2] = d /\ \E n \in N : q[1] = -n
  BY <1>3 DEF Opposites
<1>5. ASSUME NEW v \in FiniteNums
      PROVE  /\ (\A q \in Over(N, d) : q[1] <= v * q[2]) <=> hi <= v * d
             /\ (\A q \in Opposites(Over(N, d)) : q[1] <= v * q[2]) <=> -lo <= v * d
  <2> DEFINE k == v * d
  <2>1. k \in Int
    BY FiniteNumsRange
  <2>2. /\ \A q \in Over(N, d) : q[1] <= v * q[2] <=> q[1] <= k
        /\ \A q \in Opposites(Over(N, d)) : q[1] <= v * q[2] <=> q[1] <= k
    BY <1>3, <1>4
  <2> HIDE DEF k
  <2>3. (\A q \in Over(N, d) : q[1] <= k) <=> hi <= k
    <3>1. \A q \in Over(N, d) : q[1] \in Int /\ q[1] <= hi
      BY <1>1, <1>3
    <3>2. <<hi, d>>[1] = hi
      OBVIOUS
    <3> QED
      BY <1>1, <1>2, <2>1, <3>1, <3>2
  <2>4. (\A q \in Opposites(Over(N, d)) : q[1] <= k) <=> -lo <= k
    <3>1. ASSUME NEW q \in Opposites(Over(N, d)) PROVE q[1] \in Int /\ q[1] <= -lo
      <4>1. PICK n \in N : q[1] = -n
        BY <1>4
      <4> QED
        BY <1>1, <4>1
    <3>2. <<-lo, d>>[1] = -lo
      OBVIOUS
    <3> QED
      BY <1>1, <1>2, <2>1, <3>1, <3>2
  <2> QED
    BY <2>2, <2>3, <2>4 DEF k
<1>6. /\ \A v : v \in Bounding(Over(N, d)) <=> v \in From(hi, d)
      /\ \A v : v \in Bounding(Opposites(Over(N, d))) <=> v \in From(-lo, d)
  BY <1>5 DEF Bounding, From
<1> QED
  BY <1>2, <1>6

(* The sums of the numbers of two sets *)
Total(S, T) == {x + y : x \in S, y \in T}

(* The extremes of the sums and of the differences of two bounded sets.       *)
LEMMA SumsHaveExtremes ==
  ASSUME NEW S, NEW T, NEW a, NEW b, NEW c, NEW e, Extremes(S, a, b), Extremes(T, c, e)
  PROVE  Extremes(Total(S, T), a + c, b + e) /\ Extremes(Apart(S, T), a - e, b - c)
<1>1. /\ S \subseteq Int /\ T \subseteq Int /\ a \in S /\ b \in S /\ c \in T /\ e \in T
      /\ \A x \in S : a <= x /\ x <= b
      /\ \A y \in T : c <= y /\ y <= e
      /\ a \in Int /\ b \in Int /\ c \in Int /\ e \in Int
  BY DEF Extremes
<1>2. /\ \A n \in Total(S, T) : n \in Int /\ a + c <= n /\ n <= b + e
      /\ \A n \in Apart(S, T) : n \in Int /\ a - e <= n /\ n <= b - c
  BY <1>1 DEF Total, Apart
<1>3. /\ a + c \in Total(S, T) /\ b + e \in Total(S, T)
      /\ a - e \in Apart(S, T) /\ b - c \in Apart(S, T)
  BY <1>1 DEF Total, Apart
<1> QED
  BY <1>2, <1>3 DEF Extremes

(* How a product grows with its operands, on each side of 0.                  *)
LEMMA ProductsGrowOutward ==
  ASSUME NEW x \in Int, NEW y \in Int, NEW u \in Int, NEW v \in Int
  PROVE  /\ 0 <= x /\ x <= u /\ y <= v /\ 0 <= v => x * y <= u * v
         /\ 0 <= x /\ x <= u /\ v <= y /\ v <= 0 => u * v <= x * y
         /\ u <= x /\ x <= 0 /\ y <= v /\ 0 <= v => u * v <= x * y
         /\ u <= x /\ x <= 0 /\ v <= y /\ v <= 0 => x * y <= u * v
<1>1. ASSUME NEW p \in Int, NEW q \in Int, NEW s \in Int, NEW t \in Int,
             0 <= p, p <= s, q <= t, 0 <= t
      PROVE  p * q <= s * t
  <2>1. CASE q <= 0
    <3>1. p * q <= 0 /\ 0 <= s * t /\ p * q \in Int /\ s * t \in Int
      BY <1>1, <2>1, SignsMultiply
    <3> QED
      BY <3>1
  <2>2. CASE q >= 0
    <3>1. p \in Nat /\ q \in Nat /\ s \in Nat /\ t \in Nat
      BY <1>1, <2>2
    <3> QED
      BY <1>1, <3>1, ProductsGrow
  <2> QED
    BY <1>1, <2>1, <2>2
<1>2. /\ (-x) * y = -(x * y) /\ x * (-y) = -(x * y) /\ (-x) * (-y) = x * y
      /\ (-u) * v = -(u * v) /\ u * (-v) = -(u * v) /\ (-u) * (-v) = u * v
      /\ x * y \in Int /\ u * v \in Int
  BY SignsMultiply
<1>3. 0 <= x /\ x <= u /\ y <= v /\ 0 <= v => x * y <= u * v
  BY <1>1
<1>4. 0 <= x /\ x <= u /\ v <= y /\ v <= 0 => x * (-y) <= u * (-v)
  BY <1>1
<1>5. u <= x /\ x <= 0 /\ y <= v /\ 0 <= v => (-x) * y <= (-u) * v
  BY <1>1
<1>6. u <= x /\ x <= 0 /\ v <= y /\ v <= 0 => (-x) * (-y) <= (-u) * (-v)
  BY <1>1
<1> QED
  BY <1>2, <1>3, <1>4, <1>5, <1>6

(* The products of the numbers of two sets *)
Multiples(S, T) == {x * y : x \in S, y \in T}

(* The extremes of the products of two bounded sets, from their sides.        *)
LEMMA ProductsHaveExtremes ==
  ASSUME NEW S, NEW T, NEW a, NEW b, NEW c, NEW e, Extremes(S, a, b), Extremes(T, c, e)
  PROVE  LET M == Multiples(S, T) IN
         /\ a >= 0 /\ c >= 0 => Extremes(M, a * c, b * e)
         /\ a >= 0 /\ c <= 0 /\ e >= 0 => Extremes(M, b * c, b * e)
         /\ a >= 0 /\ e <= 0 => Extremes(M, b * c, a * e)
         /\ a <= 0 /\ b >= 0 /\ c >= 0 => Extremes(M, a * e, b * e)
         /\ a <= 0 /\ b >= 0 /\ c <= 0 /\ e >= 0 =>
              Extremes(M, IF a * e <= b * c THEN a * e ELSE b * c,
                          IF a * c <= b * e THEN b * e ELSE a * c)
         /\ a <= 0 /\ b >= 0 /\ e <= 0 => Extremes(M, b * c, a * c)
         /\ b <= 0 /\ c >= 0 => Extremes(M, a * e, b * c)
         /\ b <= 0 /\ c <= 0 /\ e >= 0 => Extremes(M, a * e, a * c)
         /\ b <= 0 /\ e <= 0 => Extremes(M, b * e, a * c)
<1> DEFINE M == Multiples(S, T)
           ac == a * c
           ae == a * e
           bc == b * c
           be == b * e
<1>1. /\ S \subseteq Int /\ T \subseteq Int /\ a \in S /\ b \in S /\ c \in T /\ e \in T
      /\ \A x \in S : x \in Int /\ a <= x /\ x <= b
      /\ \A y \in T : y \in Int /\ c <= y /\ y <= e
      /\ a \in Int /\ b \in Int /\ c \in Int /\ e \in Int
  BY DEF Extremes
<1>2. /\ ac \in M /\ ae \in M /\ bc \in M /\ be \in M
      /\ ac \in Int /\ ae \in Int /\ bc \in Int /\ be \in Int
  BY <1>1 DEF Multiples
<1>3. ASSUME NEW m \in M
      PROVE  /\ m \in Int
             /\ a >= 0 /\ c >= 0 => ac <= m /\ m <= be
             /\ a >= 0 /\ c <= 0 /\ e >= 0 => bc <= m /\ m <= be
             /\ a >= 0 /\ e <= 0 => bc <= m /\ m <= ae
             /\ a <= 0 /\ b >= 0 /\ c >= 0 => ae <= m /\ m <= be
             /\ a <= 0 /\ b >= 0 /\ c <= 0 /\ e >= 0 =>
                  (ae <= m \/ bc <= m) /\ (m <= be \/ m <= ac)
             /\ a <= 0 /\ b >= 0 /\ e <= 0 => bc <= m /\ m <= ac
             /\ b <= 0 /\ c >= 0 => ae <= m /\ m <= bc
             /\ b <= 0 /\ c <= 0 /\ e >= 0 => ae <= m /\ m <= ac
             /\ b <= 0 /\ e <= 0 => be <= m /\ m <= ac
  <2>1. PICK x \in S, y \in T : m = x * y
    BY DEF Multiples
  <2>2. x \in Int /\ y \in Int /\ a <= x /\ x <= b /\ c <= y /\ y <= e
    BY <1>1
  <2>3. m \in Int
    BY <2>1, <2>2
  <2>4. /\ 0 <= x /\ 0 <= e => m <= be
        /\ 0 <= x /\ c <= 0 => bc <= m
        /\ x <= 0 /\ 0 <= e => ae <= m
        /\ x <= 0 /\ c <= 0 => m <= ac
    BY <1>1, <2>1, <2>2, ProductsGrowOutward
  <2>5. /\ 0 <= a /\ 0 <= y => ac <= m
        /\ 0 <= a /\ y <= 0 => m <= ae
        /\ b <= 0 /\ 0 <= y => m <= bc
        /\ b <= 0 /\ y <= 0 => be <= m
    BY <1>1, <2>1, <2>2, ProductsGrowOutward
  <2>6. /\ 0 <= x /\ 0 <= y => 0 <= m
        /\ 0 <= x /\ y <= 0 => m <= 0
        /\ x <= 0 /\ 0 <= y => m <= 0
        /\ x <= 0 /\ y <= 0 => 0 <= m
    BY <2>1, <2>2, SignsMultiply
  <2>7. /\ 0 <= b /\ 0 <= e => 0 <= be
        /\ 0 <= b /\ c <= 0 => bc <= 0
        /\ a <= 0 /\ 0 <= e => ae <= 0
        /\ a <= 0 /\ c <= 0 => 0 <= ac
    BY <1>1, SignsMultiply
  <2> HIDE DEF M, ac, ae, bc, be
  <2> QED
    BY <1>1, <1>2, <2>2, <2>3, <2>4, <2>5, <2>6, <2>7
<1> HIDE DEF M, ac, ae, bc, be
<1>4. M \subseteq Int
  BY <1>3
<1>5. /\ a >= 0 /\ c >= 0 => Extremes(M, ac, be)
      /\ a >= 0 /\ c <= 0 /\ e >= 0 => Extremes(M, bc, be)
      /\ a >= 0 /\ e <= 0 => Extremes(M, bc, ae)
      /\ a <= 0 /\ b >= 0 /\ c >= 0 => Extremes(M, ae, be)
      /\ a <= 0 /\ b >= 0 /\ e <= 0 => Extremes(M, bc, ac)
      /\ b <= 0 /\ c >= 0 => Extremes(M, ae, bc)
      /\ b <= 0 /\ c <= 0 /\ e >= 0 => Extremes(M, ae, ac)
      /\ b <= 0 /\ e <= 0 => Extremes(M, be, ac)
  BY <1>2, <1>3, <1>4 DEF Extremes
<1>6. a <= 0 /\ b >= 0 /\ c <= 0 /\ e >= 0 =>
        Extremes(M, IF ae <= bc THEN ae ELSE bc, IF ac <= be THEN be ELSE ac)
  BY <1>2, <1>3, <1>4 DEF Extremes
<1> QED
  BY <1>5, <1>6 DEF M, ac, ae, bc, be

(* The greater of two ceilings is that of the greater number.                 *)
LEMMA MaxIsCeiling ==
  ASSUME NEW x \in Ends, NEW y \in Ends, NEW n \in Int, NEW k \in Int,
         IsCeiling(x, From(n, One)), IsCeiling(y, From(k, One))
  PROVE  IsCeiling(MaxPd(x, y), From(IF n <= k THEN k ELSE n, One))
<1>1. /\ x # NaN /\ y # NaN /\ Num(x) \in Int /\ Num(y) \in Int
      /\ Num(x) <= Largest + 1 /\ Num(y) <= Largest + 1 /\ Largest \in Nat
      /\ x = Infinity <=> Num(x) = Largest + 1
      /\ y = Infinity <=> Num(y) = Largest + 1
  BY EndsAre, LargestMagnitude
<1>2. MaxPd(x, y) = IF Num(y) < Num(x) THEN x ELSE y
  BY <1>1 DEF MaxPd, Lt
<1>3. \A v \in FiniteNums : v \in Int /\ v <= Largest /\ v * One \in Int
  BY FiniteNumsRange, LargestMagnitude
<1>4. CASE n <= k
  <2>1. From(k, One) \subseteq From(n, One)
    BY <1>3, <1>4 DEF From
  <2>2. Num(x) <= Num(y)
    BY <1>1, <1>3, <2>1 DEF IsCeiling, From
  <2> QED
    BY <1>1, <1>2, <1>4, <2>2
<1>5. CASE ~(n <= k)
  <2>1. From(n, One) \subseteq From(k, One)
    BY <1>3, <1>5 DEF From
  <2>2. Num(y) <= Num(x)
    BY <1>1, <1>3, <2>1 DEF IsCeiling, From
  <2>3. CASE Num(y) < Num(x)
    BY <1>2, <1>5, <2>3
  <2>4. CASE Num(y) = Num(x)
    BY <1>1, <1>2, <1>5, <2>1, <2>4 DEF IsCeiling
  <2> QED
    BY <1>1, <2>2, <2>3, <2>4
<1> QED
  BY <1>4, <1>5

(* 0, of either sign, is the ceiling of 0.                                     *)
LEMMA ZeroIsCeiling ==
  ASSUME NEW neg \in BOOLEAN
  PROVE  IsCeiling(Zero(neg), From(0, One)) /\ Num(Zero(neg)) = 0
<1>1. Num(Zero(neg)) = 0
  BY EndsAre
<1>2. 0 \in FiniteNums
  BY MagnitudesAssumption DEF FiniteNums
<1>3. \A v \in FiniteNums : 0 <= v * One <=> 0 <= v
  <2>1. One \in Nat /\ One >= 1 /\ 0 * One = 0
    BY LargestMagnitude
  <2>2. \A v \in Int : 0 <= v <=> 0 * One <= v * One
    BY <2>1, ProductsCompare
  <2> QED
    BY <2>1, <2>2, FiniteNumsRange
<1>4. 0 \in From(0, One) /\ \A w \in From(0, One) : 0 <= w
  BY <1>2, <1>3 DEF From
<1> QED
  BY <1>1, <1>4 DEF IsCeiling

(* The extremes of the squares of a bounded set of numbers.                    *)
LEMMA SquaresHaveExtremes ==
  ASSUME NEW S, NEW a, NEW b, Extremes(S, a, b)
  PROVE  LET M == {x * x : x \in S} IN
         /\ a >= 0 => Extremes(M, a * a, b * b)
         /\ b <= 0 => Extremes(M, b * b, a * a)
         /\ a <= 0 /\ b >= 0 /\ 0 \in S =>
              Extremes(M, 0, IF a * a <= b * b THEN b * b ELSE a * a)
<1> DEFINE M == {x * x : x \in S}
           aa == a * a
           bb == b * b
<1>1. /\ S \subseteq Int /\ a \in S /\ b \in S /\ a \in Int /\ b \in Int
      /\ \A x \in S : x \in Int /\ a <= x /\ x <= b
  BY DEF Extremes
<1>2. aa \in M /\ bb \in M /\ aa \in Int /\ bb \in Int /\ (0 \in S => 0 \in M)
  <2>1. 0 * 0 = 0
    OBVIOUS
  <2> QED
    BY <1>1, <2>1
<1>3. ASSUME NEW m \in M
      PROVE  /\ m \in Int
             /\ a >= 0 => aa <= m /\ m <= bb
             /\ b <= 0 => bb <= m /\ m <= aa
             /\ a <= 0 /\ b >= 0 => 0 <= m /\ (m <= aa \/ m <= bb)
  <2>1. PICK x \in S : m = x * x
    OBVIOUS
  <2>2. x \in Int /\ a <= x /\ x <= b
    BY <1>1
  <2>3. m \in Int
    BY <2>1, <2>2
  <2>4. /\ 0 <= x => m <= bb
        /\ x <= 0 => m <= aa
        /\ 0 <= a => aa <= m
        /\ b <= 0 => bb <= m
    BY <1>1, <2>1, <2>2, ProductsGrowOutward
  <2>5. 0 <= m
    BY <2>1, <2>2, SignsMultiply
  <2> HIDE DEF M, aa, bb
  <2> QED
    BY <1>1, <1>2, <2>2, <2>3, <2>4, <2>5
<1> HIDE DEF M, aa, bb
<1>4. M \subseteq Int
  BY <1>3
<1> QED
  BY <1>2, <1>3, <1>4 DEF Extremes, M, aa, bb

(* The opposites of numbers *)
Negated(S) == {-x : x \in S}

(* The extremes of opposites.                                                 *)
LEMMA NegatedExtremes ==
  ASSUME NEW S, NEW a, NEW b, Extremes(S, a, b)
  PROVE  Extremes(Negated(S), -b, -a)
<1>1. S \subseteq Int /\ a \in S /\ b \in S /\ \A x \in S : x \in Int /\ a <= x /\ x <= b
  BY DEF Extremes
<1>2. -a \in Negated(S) /\ -b \in Negated(S)
  BY <1>1 DEF Negated
<1>3. \A m \in Negated(S) : m \in Int /\ -b <= m /\ m <= -a
  BY <1>1 DEF Negated
<1> QED
  BY <1>2, <1>3 DEF Extremes

(* The opposite of the opposite of a double is this double.                   *)
LEMMA OppositeTwice ==
  ASSUME NEW x \in Doubles
  PROVE  Opposite(Opposite(x)) = x
<1> DEFINE o == Opposite(x)
<1>1. x # NaN /\ x.neg \in BOOLEAN /\ o \in Doubles /\ o.mag = x.mag /\ o.neg = ~x.neg
  BY FiniteOrInfinite, NumOfMagnitude, OppositeIsDouble
<1>2. Opposite(o) \in Doubles /\ Opposite(o).mag = o.mag /\ Opposite(o).neg = ~o.neg
  BY <1>1, OppositeIsDouble
<1> HIDE DEF o
<1>3. Opposite(o).mag = x.mag /\ Opposite(o).neg = x.neg
  BY <1>1, <1>2
<1>4. \A u, v \in Doubles : u.mag = v.mag /\ u.neg = v.neg => u = v
  BY DEF Doubles
<1> QED
  BY <1>2, <1>3, <1>4 DEF o

(* 0, of either sign, is the ceiling of a quotient of 0.                       *)
LEMMA ZeroOverIsCeiling ==
  ASSUME NEW neg \in BOOLEAN, NEW r \in Int, NEW k \in Int, r = 0, k >= 1
  PROVE  IsCeiling(Zero(neg), From(r * One, k))
<1> DEFINE z == Zero(neg)
<1>1. Num(z) = 0
  BY EndsAre
<1>2. 0 \in FiniteNums
  BY MagnitudesAssumption DEF FiniteNums
<1>3. r * One = 0
  BY LargestMagnitude
<1> HIDE DEF z
<1>4. \A v \in FiniteNums : r * One <= v * k <=> 0 <= v
  <2>1. k \in Nat /\ 0 * k = 0
    OBVIOUS
  <2>2. \A v \in Int : 0 <= v <=> 0 * k <= v * k
    BY <2>1, ProductsCompare
  <2>3. \A v \in FiniteNums : v \in Int
    BY FiniteNumsRange
  <2> QED
    BY <1>3, <2>1, <2>2, <2>3
<1>5. 0 \in From(r * One, k) /\ \A w \in From(r * One, k) : 0 <= w
  BY <1>2, <1>4 DEF From
<1> QED
  BY <1>1, <1>5 DEF IsCeiling, z

(* What has no bound among some rationals has none among more of them.        *)
LEMMA MoreAreUnbounded ==
  ASSUME NEW P, NEW Q, P \subseteq Q, Bounding(P) = {}
  PROVE  Bounding(Q) = {}
BY DEF Bounding

(* The product by a finite double other than 0 is not a NaN.                  *)
LEMMA ProductOfFinite ==
  ASSUME NEW x \in Doubles, NEW y \in Doubles, ~IsInf(y), ~IsZero(y)
  PROVE  NaNToZero(MulUp(x, y)) = MulUp(x, y)
<1>1. x # NaN /\ y # NaN
  BY FiniteOrInfinite
<1> DEFINE neg == x.neg # y.neg
<1>2. MulUp(x, y) = IF IsInf(x) THEN [neg |-> neg, mag |-> Oo]
                    ELSE RoundUp(Num(x) * Num(y), One, neg)
  BY <1>1 DEF MulUp
<1>3. neg \in BOOLEAN /\ Num(x) * Num(y) \in Int /\ One \in Nat /\ One >= 1
  BY NumOfMagnitude, LargestMagnitude
<1> HIDE DEF neg
<1>4. [neg |-> neg, mag |-> Oo] # NaN
  BY LargestMagnitude DEF NaN, Oo
<1>5. RoundUp(Num(x) * Num(y), One, neg) # NaN
  BY <1>3, RoundUpIsUpper, EndsAre
<1>6. MulUp(x, y) # NaN
  BY <1>2, <1>4, <1>5
<1> QED
  BY <1>6 DEF NaNToZero

(* The product of opposites.                                                  *)
LEMMA ProductOfOpposites ==
  ASSUME NEW x \in Doubles, NEW y \in Doubles
  PROVE  MulUp(Opposite(x), y) = MulUp(x, Opposite(y))
<1> DEFINE nx == Opposite(x)
           ny == Opposite(y)
           p == nx.neg # y.neg
           q == x.neg # ny.neg
<1>1. /\ nx \in Doubles /\ ny \in Doubles
      /\ x # NaN /\ y # NaN /\ nx # NaN /\ ny # NaN
      /\ nx.mag = x.mag /\ ny.mag = y.mag
      /\ nx.neg = ~x.neg /\ ny.neg = ~y.neg
      /\ x.neg \in BOOLEAN /\ y.neg \in BOOLEAN
      /\ Num(nx) = -Num(x) /\ Num(ny) = -Num(y) /\ Num(x) \in Int /\ Num(y) \in Int
  BY OppositeIsDouble, NumOfMagnitude, FiniteOrInfinite DEF Opposite
<1> HIDE DEF nx, ny
<1>2. p = q
  BY <1>1
<1>3. Num(nx) * Num(y) = Num(x) * Num(ny)
  BY <1>1, SignsMultiply
<1>4. /\ IsInf(nx) <=> IsInf(x)
      /\ IsInf(ny) <=> IsInf(y)
      /\ IsZero(nx) <=> IsZero(x)
      /\ IsZero(ny) <=> IsZero(y)
  BY <1>1 DEF IsInf, IsZero
<1>5. /\ MulUp(nx, y) = IF (IsInf(nx) /\ IsZero(y)) \/ (IsZero(nx) /\ IsInf(y)) THEN NaN
                        ELSE IF IsInf(nx) \/ IsInf(y) THEN [neg |-> p, mag |-> Oo]
                        ELSE RoundUp(Num(nx) * Num(y), One, p)
      /\ MulUp(x, ny) = IF (IsInf(x) /\ IsZero(ny)) \/ (IsZero(x) /\ IsInf(ny)) THEN NaN
                        ELSE IF IsInf(x) \/ IsInf(ny) THEN [neg |-> q, mag |-> Oo]
                        ELSE RoundUp(Num(x) * Num(ny), One, q)
  BY <1>1 DEF MulUp
<1> HIDE DEF p, q
<1>6. MulUp(nx, y) = MulUp(x, ny)
  BY <1>2, <1>3, <1>4, <1>5
<1> QED
  BY <1>6 DEF nx, ny

(* The greater and the lesser of two doubles.                               *)
LEMMA ExtremesOfTwo ==
  ASSUME NEW x \in Doubles, NEW y \in Doubles
  PROVE  /\ maximum(x, y) \in {x, y} /\ minimum(x, y) \in {x, y}
         /\ Num(maximum(x, y)) = IF Num(x) <= Num(y) THEN Num(y) ELSE Num(x)
         /\ Num(minimum(x, y)) = IF Num(x) <= Num(y) THEN Num(x) ELSE Num(y)
<1>1. Num(x) \in Int /\ Num(y) \in Int /\ x # NaN /\ y # NaN
  BY NumOfMagnitude, FiniteOrInfinite
<1>2. /\ maximum(x, y) = IF x.neg THEN IF Leq(x, y) THEN y ELSE x ELSE IF Leq(y, x) THEN x ELSE y
      /\ minimum(x, y) = IF x.neg THEN IF Leq(x, y) THEN x ELSE y ELSE IF Leq(y, x) THEN y ELSE x
  BY <1>1 DEF maximum, minimum
<1>3. /\ Leq(x, y) <=> Num(x) <= Num(y)
      /\ Leq(y, x) <=> Num(y) <= Num(x)
  BY <1>1 DEF Leq
<1> QED
  BY <1>1, <1>2, <1>3

(* The greater and the lesser of the numbers of two sets                     *)
Greater(S, T) == {IF x < y THEN y ELSE x : x \in S, y \in T}

Lesser(S, T) == {IF x < y THEN x ELSE y : x \in S, y \in T}

LEMMA ExtremesOfPairs ==
  ASSUME NEW S, NEW T, NEW a, NEW b, NEW c, NEW e, Extremes(S, a, b), Extremes(T, c, e)
  PROVE  /\ Extremes(Greater(S, T), IF a < c THEN c ELSE a, IF b < e THEN e ELSE b)
         /\ Extremes(Lesser(S, T), IF a < c THEN a ELSE c, IF b < e THEN b ELSE e)
<1>1. /\ S \subseteq Int /\ T \subseteq Int /\ a \in S /\ b \in S /\ c \in T /\ e \in T
      /\ \A x \in S : x \in Int /\ a <= x /\ x <= b
      /\ \A y \in T : y \in Int /\ c <= y /\ y <= e
      /\ a \in Int /\ b \in Int /\ c \in Int /\ e \in Int
  BY DEF Extremes
<1>2. /\ (IF a < c THEN c ELSE a) \in Greater(S, T) /\ (IF b < e THEN e ELSE b) \in Greater(S, T)
      /\ (IF a < c THEN a ELSE c) \in Lesser(S, T) /\ (IF b < e THEN b ELSE e) \in Lesser(S, T)
  BY <1>1 DEF Greater, Lesser
<1>3. ASSUME NEW x \in S, NEW y \in T
      PROVE  LET g == IF x < y THEN y ELSE x
                 l == IF x < y THEN x ELSE y
             IN /\ g \in Int /\ l \in Int
                /\ (IF a < c THEN c ELSE a) <= g /\ g <= (IF b < e THEN e ELSE b)
                /\ (IF a < c THEN a ELSE c) <= l /\ l <= (IF b < e THEN b ELSE e)
  <2>1. /\ x \in Int /\ a <= x /\ x <= b /\ y \in Int /\ c <= y /\ y <= e
    BY <1>1
  <2> QED
    BY <1>1, <2>1
<1> DEFINE gl == IF a < c THEN c ELSE a
           gh == IF b < e THEN e ELSE b
           ll == IF a < c THEN a ELSE c
           lh == IF b < e THEN b ELSE e
<1>4. \A n \in Greater(S, T) : n \in Int /\ gl <= n /\ n <= gh
  BY <1>3 DEF Greater
<1>5. \A n \in Lesser(S, T) : n \in Int /\ ll <= n /\ n <= lh
  BY <1>3 DEF Lesser
<1> HIDE DEF gl, gh, ll, lh
<1>6. Greater(S, T) \subseteq Int /\ Lesser(S, T) \subseteq Int
  BY <1>4, <1>5
<1> QED
  BY <1>2, <1>4, <1>5, <1>6 DEF Extremes, gl, gh, ll, lh

(* Doubles that are not negative are equal when their numbers are.           *)
LEMMA NotNegativeAreEqual ==
  ASSUME NEW x \in NotNegative, NEW y \in NotNegative, Num(x) = Num(y)
  PROVE  x = y
<1>1. x \in Doubles /\ y \in Doubles /\ ~x.neg /\ ~y.neg
  BY DEF NotNegative
<1>2. x.mag = y.mag
  BY <1>1, NumOfMagnitude
<1>3. x.neg = y.neg
  <2>1. x.neg \in BOOLEAN /\ y.neg \in BOOLEAN
    BY <1>1, NumOfMagnitude
  <2> QED
    BY <1>1, <2>1
<1> QED
  BY <1>1, <1>2, <1>3 DEF Doubles

-----------------------------------------------------------------------------
(* A product of two numbers, both finite or neither 0, is not a NaN.        *)
LEMMA ProductIsNoNaN ==
  ASSUME NEW x \in Doubles, NEW y \in Doubles,
         (~IsInf(x) /\ ~IsInf(y)) \/ (Num(x) # 0 /\ Num(y) # 0)
  PROVE  NaNToZero(MulUp(x, y)) = MulUp(x, y)
<1>1. /\ x # NaN /\ y # NaN /\ (IsZero(x) <=> Num(x) = 0) /\ (IsZero(y) <=> Num(y) = 0)
      /\ x.neg \in BOOLEAN /\ y.neg \in BOOLEAN /\ Num(x) \in Int /\ Num(y) \in Int
  BY FiniteOrInfinite, NumOfMagnitude
<1> DEFINE neg == x.neg # y.neg
<1>2. neg \in BOOLEAN
  OBVIOUS
<1>3. CASE IsInf(x) \/ IsInf(y)
  <2>1. MulUp(x, y) = [neg |-> neg, mag |-> Oo]
    BY <1>1, <1>3 DEF MulUp
  <2>2. Oo # -1
    BY LargestMagnitude DEF Oo
  <2> HIDE DEF neg
  <2>3. [neg |-> neg, mag |-> Oo] # NaN
    BY <1>2, <2>2, LargestMagnitude DEF NaN, Oo
  <2> QED
    BY <2>1, <2>3 DEF NaNToZero
<1>4. CASE ~IsInf(x) /\ ~IsInf(y)
  <2>1. MulUp(x, y) = RoundUp(Num(x) * Num(y), One, neg)
    BY <1>1, <1>4 DEF MulUp
  <2>2. Num(x) * Num(y) \in Int /\ One \in Nat /\ One >= 1
    BY <1>1, LargestMagnitude
  <2> HIDE DEF neg
  <2>3. MulUp(x, y) \in Doubles
    BY <1>2, <2>1, <2>2, RoundUpIsDouble
  <2> QED
    BY <2>3, FiniteOrInfinite DEF NaNToZero
<1> QED
  BY <1>3, <1>4

(* The product of two finite doubles is the least upper bound of theirs.     *)
LEMMA FiniteProductIs ==
  ASSUME NEW x \in Doubles, NEW y \in Doubles, ~IsInf(x), ~IsInf(y), NEW n, n = Num(x) * Num(y)
  PROVE  /\ MulUp(x, y) \in Doubles /\ Num(MulUp(x, y)) \in Int /\ n \in Int
         /\ MulUp(x, y) = Infinity \/ (~IsInf(MulUp(x, y)) /\ n <= One * Num(MulUp(x, y)))
         /\ \A w \in FiniteNums : n <= One * w => Num(MulUp(x, y)) <= w /\ ~IsInf(MulUp(x, y))
<1> DEFINE neg == x.neg # y.neg
           r == RoundUp(n, One, neg)
<1>1. /\ x # NaN /\ y # NaN /\ n \in Int /\ neg \in BOOLEAN
      /\ One \in Nat /\ One >= 1
  BY FiniteOrInfinite, NumOfMagnitude, LargestMagnitude
<1>2. MulUp(x, y) = r
  BY <1>1 DEF MulUp
<1> HIDE DEF neg
<1>3. /\ r \in Doubles
      /\ \/ r.mag \in Magnitudes /\ Num(r) \in FiniteNums /\ n <= One * Num(r)
         \/ r = Infinity /\ n > One * Largest
      /\ \A w \in FiniteNums : n <= One * w => Num(r) <= w /\ r.mag \in Magnitudes
  BY <1>1, RoundUpIsLeast
<1> HIDE DEF r
<1>4. Num(r) \in Int /\ (~IsInf(r) <=> r.mag \in Magnitudes)
  BY <1>3, NumOfMagnitude, FiniteOrInfinite
<1>5. /\ r \in Doubles /\ Num(r) \in Int /\ n \in Int
      /\ r = Infinity \/ (~IsInf(r) /\ n <= One * Num(r))
      /\ \A w \in FiniteNums : n <= One * w => Num(r) <= w /\ ~IsInf(r)
  BY <1>1, <1>3, <1>4
<1> QED
  BY <1>2, <1>5

(* Numbers above 0 have a product above 0, which bounds theirs.              *)
LEMMA ProductOfPositive ==
  ASSUME NEW x \in Doubles, NEW y \in Doubles, Num(x) > 0, Num(y) > 0
  PROVE  /\ MulUp(x, y) \in Doubles /\ Num(MulUp(x, y)) > 0 /\ Num(MulUp(x, y)) \in Int
         /\ MulUp(x, y) = Infinity \/ Num(x) * Num(y) <= One * Num(MulUp(x, y))
         /\ Num(x) * Num(y) \in Int
<1>1. /\ Num(x) \in Int /\ Num(y) \in Int /\ ~IsZero(x) /\ ~IsZero(y)
      /\ One \in Nat /\ One >= 1
  BY FiniteOrInfinite, NumOfMagnitude, LargestMagnitude
<1>2. Num(x) * Num(y) \in Int /\ Num(x) * Num(y) > 0
  BY <1>1, SignsMultiply
<1>3. NaNToZero(MulUp(x, y)) = MulUp(x, y)
  BY <1>1, ProductIsNoNaN
<1>4. MulUp(x, y) \in Ends /\ AtLeast(MulUp(x, y), Num(x) * Num(y), One)
  BY <1>1, <1>3, ProductIsUpper DEF Agree
<1> DEFINE r == MulUp(x, y)
<1>5. r \in Doubles /\ Num(r) \in Int /\ (r = Infinity => Num(r) > 0)
  BY <1>4, EndsAre, InfinityIs, LargestMagnitude
<1>6. r # Infinity => Num(x) * Num(y) <= One * Num(r)
  BY <1>4 DEF AtLeast
<1> DEFINE n == Num(x) * Num(y)
<1> HIDE DEF r, n
<1>7. r # Infinity => Num(r) > 0
  <2> SUFFICES ASSUME r # Infinity, Num(r) <= 0 PROVE FALSE
    BY <1>5
  <2>1. One * Num(r) <= 0 /\ One * Num(r) \in Int
    BY <1>1, <1>5, SignsMultiply
  <2>2. n \in Int /\ n > 0 /\ n <= One * Num(r)
    BY <1>2, <1>6 DEF n
  <2> QED
    BY <2>1, <2>2
<1> QED
  BY <1>2, <1>5, <1>6, <1>7 DEF r, n

(* The product of a finite double by 0 is 0.                                 *)
LEMMA ProductWithZero ==
  ASSUME NEW x \in Doubles, ~IsInf(x), NEW y \in Doubles, Num(y) = 0
  PROVE  MulUp(x, y) \in Doubles /\ ~IsInf(MulUp(x, y)) /\ Num(MulUp(x, y)) = 0
<1> DEFINE r == MulUp(x, y)
<1>0. ~IsInf(y) /\ Num(x) \in Int
  BY InfinityIs, LargestMagnitude, NumOfMagnitude
<1>1. 0 = Num(x) * Num(y) /\ 0 \in FiniteNums /\ One \in Nat /\ One >= 1 /\ One * 0 = 0
  BY <1>0, FiniteNumsRange, LargestMagnitude
<1>2. /\ r \in Doubles /\ Num(r) \in Int
      /\ r = Infinity \/ (~IsInf(r) /\ 0 <= One * Num(r))
      /\ \A w \in FiniteNums : 0 <= One * w => Num(r) <= w /\ ~IsInf(r)
  BY <1>0, <1>1, FiniteProductIs, Zenon
<1> HIDE DEF r
<1>3. Num(r) <= 0 /\ ~IsInf(r)
  BY <1>1, <1>2
<1>4. r # Infinity
  BY <1>3, InfinityIs DEF IsInf, Infinity
<1>5. Num(r) >= 0
  <2> SUFFICES ASSUME Num(r) < 0 PROVE FALSE
    BY <1>2
  <2>1. -Num(r) > 0 /\ -Num(r) \in Int
    BY <1>2
  <2>2. One * (-Num(r)) > 0 /\ One * (-Num(r)) = -(One * Num(r)) /\ One * Num(r) \in Int
    BY <1>1, <1>2, <2>1, SignsMultiply
  <2> QED
    BY <1>2, <1>4, <2>2
<1> QED
  BY <1>2, <1>3, <1>5 DEF r

(* A product not above 0 is rounded upward towards 0, and remains below that  *)
(* of greater numbers.                                                       *)
LEMMA ProductsAreBeside ==
  ASSUME NEW x \in Doubles, NEW y \in Doubles, ~IsInf(x), ~IsInf(y),
         NEW v \in Doubles, NEW w \in Doubles, Num(v) > 0, Num(w) > 0,
         Num(x) * Num(y) <= 0, -(Num(x) * Num(y)) <= Num(v) * Num(w)
  PROVE  /\ MulUp(x, y) \in Doubles /\ ~IsInf(MulUp(x, y))
         /\ Num(MulUp(x, y)) \in Int /\ Num(MulUp(x, y)) <= 0
         /\ -Num(MulUp(x, y)) <= Num(MulUp(v, w))
<1> DEFINE r == MulUp(x, y)
           u == MulUp(v, w)
           n == Num(x) * Num(y)
           k == Num(v) * Num(w)
<1>1. 0 \in FiniteNums /\ One * 0 = 0 /\ One \in Nat /\ One >= 1 /\ Largest \in Nat
  BY FiniteNumsRange, LargestMagnitude
<1>2. /\ r \in Doubles /\ Num(r) \in Int /\ n \in Int
      /\ r = Infinity \/ (~IsInf(r) /\ n <= One * Num(r))
      /\ \A c \in FiniteNums : n <= One * c => Num(r) <= c /\ ~IsInf(r)
  <2>1. n = Num(x) * Num(y)
    OBVIOUS
  <2> HIDE DEF n
  <2> QED
    BY <2>1, FiniteProductIs, Zenon
<1>3. u \in Doubles /\ Num(u) \in Int /\ k \in Int /\ (u = Infinity \/ k <= One * Num(u))
  BY ProductOfPositive
<1>4. n <= 0 /\ -n <= k
  OBVIOUS
<1> HIDE DEF r, u, n, k
<1>5. Num(r) <= 0 /\ ~IsInf(r)
  <2>1. n <= One * 0
    BY <1>1, <1>2, <1>4
  <2> QED
    BY <1>1, <1>2, <2>1
<1>6. -Num(r) <= Num(u)
  <2>1. CASE u = Infinity
    BY <1>2, <1>5, <2>1, InfinityIs, LargestMagnitude
  <2>2. CASE u # Infinity
    <3>1. r # Infinity
      BY <1>5, InfinityIs DEF IsInf, Infinity
    <3>2. n <= One * Num(r) /\ k <= One * Num(u)
      BY <1>2, <1>3, <2>2, <3>1
    <3>3. One * (-Num(r)) = -(One * Num(r)) /\ One * Num(r) \in Int /\ One * Num(u) \in Int
      BY <1>1, <1>2, <1>3, SignsMultiply
    <3>4. One * (-Num(r)) <= One * Num(u)
      BY <1>2, <1>3, <1>4, <3>2, <3>3
    <3>5. (-Num(r)) * One <= Num(u) * One
      BY <1>1, <1>2, <1>3, <3>4
    <3> QED
      BY <1>1, <1>2, <1>3, <3>5, ProductsCompare
  <2> QED
    BY <2>1, <2>2
<1> QED
  BY <1>2, <1>5, <1>6 DEF r, u

(* z times n/d, where n/d is between -l and u and z times these is no more     *)
(* than p*k, is no more than p*k.                                            *)
LEMMA ProductIsBetween ==
  ASSUME NEW z \in Int, NEW n \in Int, NEW d \in Nat, d >= 1, NEW u \in Int, NEW l \in Int,
         NEW m \in Int, z > 0 => n <= u * d /\ z * u <= m, z < 0 => -n <= l * d /\ -(z * l) <= m,
         z = 0 => 0 <= m
  PROVE  z * n <= m * d
<1>1. CASE z > 0
  <2>1. n * z <= (u * d) * z
    BY <1>1, ProductsCompare
  <2>2. (z * u) * d <= m * d
    BY <1>1, ProductsCompare
  <2>3. n * z = z * n /\ (u * d) * z = (z * u) * d /\ z * n \in Int /\ (z * u) * d \in Int /\ m * d \in Int
    OBVIOUS
  <2> QED
    BY <2>1, <2>2, <2>3
<1>2. CASE z < 0
  <2>1. (-n) * (-z) <= (l * d) * (-z)
    BY <1>2, ProductsCompare
  <2>2. (-(z * l)) * d <= m * d
    BY <1>2, ProductsCompare
  <2>3. (-n) * (-z) = z * n
    BY SignsMultiply
  <2>4. (l * d) * (-z) = (-(z * l)) * d
    <3>1. (l * d) * (-z) = -((l * d) * z) /\ (-(z * l)) * d = -((z * l) * d)
      BY SignsMultiply
    <3>2. (l * d) * z = (z * l) * d
      OBVIOUS
    <3> QED
      BY <3>1, <3>2
  <2>5. z * n \in Int /\ (-(z * l)) * d \in Int /\ m * d \in Int
    OBVIOUS
  <2> QED
    BY <2>1, <2>2, <2>3, <2>4, <2>5
<1>3. CASE z = 0
  <2>1. z * n = 0
    BY <1>3
  <2>2. 0 * d <= m * d /\ 0 * d = 0
    BY <1>3, ProductsCompare
  <2> QED
    BY <2>1, <2>2
<1> QED
  BY <1>1, <1>2, <1>3

(* A product is the same with the sign of either factor changed.             *)
LEMMA SignMoves ==
  ASSUME NEW x \in Doubles, NEW y \in Doubles
  PROVE  MulUp(Opposite(x), y) = MulUp(x, Opposite(y))
<1> DEFINE a == Opposite(x)
           b == Opposite(y)
<1>1. /\ a \in Doubles /\ Num(a) = -Num(x) /\ a.mag = x.mag /\ a.neg = ~x.neg
      /\ b \in Doubles /\ Num(b) = -Num(y) /\ b.mag = y.mag /\ b.neg = ~y.neg
  BY OppositeIsDouble
<1>2. /\ x # NaN /\ y # NaN /\ a # NaN /\ b # NaN
      /\ x.neg \in BOOLEAN /\ y.neg \in BOOLEAN /\ Num(x) \in Int /\ Num(y) \in Int
  BY <1>1, FiniteOrInfinite, NumOfMagnitude
<1> HIDE DEF a, b
<1>3. (a.neg # y.neg) = (x.neg # b.neg)
  BY <1>1, <1>2
<1>4. /\ IsInf(a) <=> IsInf(x)
      /\ IsInf(b) <=> IsInf(y)
      /\ IsZero(a) <=> IsZero(x)
      /\ IsZero(b) <=> IsZero(y)
  BY <1>1 DEF IsInf, IsZero
<1>5. Num(a) * Num(y) = Num(x) * Num(b)
  <2>1. (-Num(x)) * Num(y) = -(Num(x) * Num(y)) /\ Num(x) * (-Num(y)) = -(Num(x) * Num(y))
    BY <1>2, SignsMultiply
  <2> QED
    BY <1>1, <2>1
<1>6. \A u, v : u # NaN /\ v # NaN =>
        MulUp(u, v) = IF (IsInf(u) /\ IsZero(v)) \/ (IsZero(u) /\ IsInf(v)) THEN NaN
                      ELSE IF IsInf(u) \/ IsInf(v) THEN [neg |-> u.neg # v.neg, mag |-> Oo]
                      ELSE RoundUp(Num(u) * Num(v), One, u.neg # v.neg)
  BY DEF MulUp
<1>7. MulUp(a, y) = IF (IsInf(x) /\ IsZero(y)) \/ (IsZero(x) /\ IsInf(y)) THEN NaN
                    ELSE IF IsInf(x) \/ IsInf(y) THEN [neg |-> x.neg # b.neg, mag |-> Oo]
                    ELSE RoundUp(Num(x) * Num(b), One, x.neg # b.neg)
  BY <1>2, <1>3, <1>4, <1>5, <1>6
<1>8. MulUp(x, b) = IF (IsInf(x) /\ IsZero(y)) \/ (IsZero(x) /\ IsInf(y)) THEN NaN
                    ELSE IF IsInf(x) \/ IsInf(y) THEN [neg |-> x.neg # b.neg, mag |-> Oo]
                    ELSE RoundUp(Num(x) * Num(b), One, x.neg # b.neg)
  BY <1>2, <1>4, <1>6
<1> QED
  BY <1>7, <1>8 DEF a, b

-----------------------------------------------------------------------------
(* The power n of a number *)
Raised(b, n) ==
  LET power[k \in 0 .. n] == IF k = 0 THEN 1 ELSE b * power[k - 1] IN power[n]

(* p has the powers of b up to the power n *)
HasRaised(p, b, n) == p = [k \in 0 .. n |-> IF k = 0 THEN 1 ELSE b * p[k - 1]]

(* Some function has them.                                                   *)
LEMMA PowersExist ==
  ASSUME NEW b, NEW n \in Nat
  PROVE  \E p : HasRaised(p, b, n)
<1> DEFINE Bad == {k \in Nat : ~\E p : HasRaised(p, b, k)}
<1> SUFFICES ASSUME Bad # {} PROVE FALSE
  OBVIOUS
<1>1. PICK m \in Bad : \A k \in Bad : m <= k
  <2>1. Bad \subseteq Nat
    OBVIOUS
  <2> HIDE DEF Bad
  <2> QED
    BY <2>1, LeastNatural
<1>2. m \in Nat /\ ~\E p : HasRaised(p, b, m)
  BY <1>1
<1>3. CASE m = 0
  <2> DEFINE p == [k \in 0 .. 0 |-> 1]
  <2>1. p = [k \in 0 .. 0 |-> IF k = 0 THEN 1 ELSE b * p[k - 1]]
    OBVIOUS
  <2> HIDE DEF p
  <2> QED
    BY <1>2, <1>3, <2>1 DEF HasRaised
<1>4. CASE m # 0
  <2>1. m - 1 \in Nat
    BY <1>2, <1>4
  <2>2. m - 1 \notin Bad
    BY <1>1, <1>2, <2>1
  <2>3. PICK p : HasRaised(p, b, m - 1)
    BY <2>1, <2>2
  <2> DEFINE q == [k \in 0 .. m |-> IF k = 0 THEN 1 ELSE b * p[k - 1]]
  <2>4. \A k \in 0 .. m - 1 : k \in 0 .. m /\ q[k] = p[k]
    <3>1. \A k \in 0 .. m - 1 : p[k] = IF k = 0 THEN 1 ELSE b * p[k - 1]
      BY <2>3 DEF HasRaised
    <3> QED
      BY <1>2, <2>1, <3>1
  <2>5. \A k \in 0 .. m : k # 0 => q[k - 1] = p[k - 1]
    <3>1. \A k \in 0 .. m : k # 0 => k - 1 \in 0 .. m - 1
      BY <1>2
    <3> HIDE DEF q
    <3> QED
      BY <2>4, <3>1
  <2>6. \A k \in 0 .. m : (IF k = 0 THEN 1 ELSE b * p[k - 1]) = (IF k = 0 THEN 1 ELSE b * q[k - 1])
    <3> HIDE DEF q
    <3> QED
      BY <2>5
  <2>7. q = [k \in 0 .. m |-> IF k = 0 THEN 1 ELSE b * q[k - 1]]
    <3> DEFINE r == [k \in 0 .. m |-> IF k = 0 THEN 1 ELSE b * q[k - 1]]
    <3> HIDE DEF q
    <3>1. [k \in 0 .. m |-> IF k = 0 THEN 1 ELSE b * p[k - 1]] = r
      BY <2>6
    <3> QED
      BY <3>1 DEF q
  <2> HIDE DEF q
  <2> QED
    BY <1>2, <2>7 DEF HasRaised
<1> QED
  BY <1>3, <1>4

(* Two functions that have them have the same.                              *)
LEMMA PowersAreOne ==
  ASSUME NEW b \in Int, NEW n \in Nat, NEW m \in Nat, NEW p, HasRaised(p, b, n),
         NEW q, HasRaised(q, b, m)
  PROVE  \A k \in Nat : k <= n /\ k <= m => p[k] = q[k] /\ p[k] \in Int
<1> DEFINE Good(k) == p[k] = q[k] /\ p[k] \in Int
           Bad == {k \in Nat : k <= n /\ k <= m /\ ~Good(k)}
<1> SUFFICES ASSUME Bad # {} PROVE FALSE
  OBVIOUS
<1>1. PICK j \in Bad : \A k \in Bad : j <= k
  <2>1. Bad \subseteq Nat
    OBVIOUS
  <2> HIDE DEF Bad
  <2> QED
    BY <2>1, LeastNatural
<1>2. j \in Nat /\ j <= n /\ j <= m /\ ~Good(j)
  BY <1>1
<1>3. /\ p[j] = IF j = 0 THEN 1 ELSE b * p[j - 1]
      /\ q[j] = IF j = 0 THEN 1 ELSE b * q[j - 1]
  <2>1. j \in 0 .. n /\ j \in 0 .. m
    BY <1>2
  <2>2. p[j] = IF j = 0 THEN 1 ELSE b * p[j - 1]
    BY <2>1 DEF HasRaised
  <2>3. q[j] = IF j = 0 THEN 1 ELSE b * q[j - 1]
    BY <2>1 DEF HasRaised
  <2> QED
    BY <2>2, <2>3
<1>4. j # 0
  BY <1>2, <1>3
<1>5. j - 1 \in Nat /\ j - 1 <= n /\ j - 1 <= m /\ j - 1 < j
  BY <1>2, <1>4
<1>6. Good(j - 1)
  BY <1>1, <1>2, <1>5
<1>7. Good(j)
  BY <1>3, <1>4, <1>6
<1> QED
  BY <1>2, <1>7

(* The power 0 of a number is 1, and each other is its product by the one     *)
(* before.                                                                   *)
LEMMA RaisedIs ==
  ASSUME NEW b \in Int
  PROVE  /\ Raised(b, 0) = 1
         /\ \A n \in Nat : /\ Raised(b, n) \in Int
                           /\ Raised(b, n + 1) = b * Raised(b, n)
<1> DEFINE p(n) == CHOOSE power : power = [k \in 0 .. n |-> IF k = 0 THEN 1 ELSE b * power[k - 1]]
<1>1. \A n : Raised(b, n) = p(n)[n]
  BY DEF Raised
<1>2. \A n \in Nat : HasRaised(p(n), b, n)
  <2> TAKE n \in Nat
  <2>1. PICK q : HasRaised(q, b, n)
    BY PowersExist
  <2> QED
    BY <2>1, Zenon DEF HasRaised
<1> HIDE DEF p
<1>3. p(0)[0] = 1
  <2>1. HasRaised(p(0), b, 0)
    BY <1>2
  <2> QED
    BY <2>1 DEF HasRaised
<1>4. ASSUME NEW n \in Nat PROVE p(n)[n] \in Int /\ p(n + 1)[n + 1] = b * p(n)[n]
  <2>1. HasRaised(p(n), b, n) /\ HasRaised(p(n + 1), b, n + 1) /\ n + 1 \in Nat
    BY <1>2
  <2>2. p(n)[n] = p(n + 1)[n] /\ p(n)[n] \in Int
    BY <2>1, PowersAreOne
  <2>3. p(n + 1)[n + 1] = b * p(n + 1)[n]
    <3>1. n + 1 \in 0 .. n + 1 /\ n + 1 # 0 /\ (n + 1) - 1 = n
      OBVIOUS
    <3>2. p(n + 1)[n + 1] = IF n + 1 = 0 THEN 1 ELSE b * p(n + 1)[(n + 1) - 1]
      BY <2>1, <3>1 DEF HasRaised
    <3> QED
      BY <3>1, <3>2
  <2> QED
    BY <2>2, <2>3
<1> QED
  BY <1>1, <1>3, <1>4

(* A set of the 0 and of what follows each of its natural numbers has all.    *)
LEMMA EveryNatural ==
  ASSUME NEW S, 0 \in S, \A n \in Nat : n \in S => n + 1 \in S
  PROVE  \A n \in Nat : n \in S
<1> DEFINE Bad == {n \in Nat : n \notin S}
<1> SUFFICES ASSUME Bad # {} PROVE FALSE
  OBVIOUS
<1>1. PICK m \in Bad : \A k \in Bad : m <= k
  <2>1. Bad \subseteq Nat
    OBVIOUS
  <2> HIDE DEF Bad
  <2> QED
    BY <2>1, LeastNatural
<1>2. m \in Nat /\ m \notin S /\ m # 0
  BY <1>1
<1>3. m - 1 \in Nat /\ m - 1 < m /\ (m - 1) + 1 = m
  BY <1>2
<1>4. m - 1 \in S
  BY <1>1, <1>2, <1>3
<1> QED
  BY <1>2, <1>3, <1>4

(* The powers of the opposite of a number are theirs or the opposite.        *)
LEMMA RaisedOfOpposite ==
  ASSUME NEW b \in Int
  PROVE  \A n \in Nat : Raised(-b, n) = IF n % 2 = 1 THEN -Raised(b, n) ELSE Raised(b, n)
<1> DEFINE S == {n \in Nat : Raised(-b, n) = IF n % 2 = 1 THEN -Raised(b, n) ELSE Raised(b, n)}
<1>1. 0 \in S
  BY RaisedIs
<1>2. ASSUME NEW n \in Nat, n \in S PROVE n + 1 \in S
  <2> DEFINE a == Raised(b, n)
             c == Raised(-b, n)
  <2>1. /\ a \in Int /\ Raised(b, n + 1) = b * a
        /\ c \in Int /\ Raised(-b, n + 1) = (-b) * c
    <3>1. \A k \in Int : Raised(k, n) \in Int /\ Raised(k, n + 1) = k * Raised(k, n)
      BY RaisedIs
    <3>2. -b \in Int
      OBVIOUS
    <3> QED
      BY <3>1, <3>2, Zenon
  <2>2. c = IF n % 2 = 1 THEN -a ELSE a
    BY <1>2
  <2>3. (n + 1) % 2 = 1 <=> n % 2 # 1
    OBVIOUS
  <2> HIDE DEF a, c
  <2>4. (-b) * a = -(b * a) /\ (-b) * (-a) = b * a
    BY <2>1, SignsMultiply
  <2>5. (-b) * c = IF (n + 1) % 2 = 1 THEN -(b * a) ELSE b * a
    BY <2>2, <2>3, <2>4
  <2> QED
    BY <2>1, <2>5
<1> HIDE DEF S
<1>3. \A n \in Nat : n \in S
  BY <1>1, <1>2, EveryNatural
<1> QED
  BY <1>3 DEF S

(* The powers of a product are the products of the powers.                   *)
LEMMA RaisedOfProduct ==
  ASSUME NEW a \in Int, NEW b \in Int
  PROVE  \A n \in Nat : Raised(a * b, n) = Raised(a, n) * Raised(b, n)
<1> DEFINE S == {n \in Nat : Raised(a * b, n) = Raised(a, n) * Raised(b, n)}
<1>0. a * b \in Int
  OBVIOUS
<1>1. 0 \in S
  BY <1>0, RaisedIs
<1>2. ASSUME NEW n \in Nat, n \in S PROVE n + 1 \in S
  <2> DEFINE c == Raised(a, n)
             d == Raised(b, n)
  <2>1. /\ c \in Int /\ Raised(a, n + 1) = a * c
        /\ d \in Int /\ Raised(b, n + 1) = b * d
        /\ Raised(a * b, n + 1) = (a * b) * Raised(a * b, n)
    BY <1>0, RaisedIs
  <2>2. Raised(a * b, n) = c * d
    BY <1>2
  <2> HIDE DEF c, d
  <2>3. (a * b) * (c * d) = (a * c) * (b * d)
    BY <2>1
  <2> QED
    BY <2>1, <2>2, <2>3
<1> HIDE DEF S
<1>3. \A n \in Nat : n \in S
  BY <1>1, <1>2, EveryNatural
<1> QED
  BY <1>3 DEF S

(* The powers of a greater number are greater.                               *)
LEMMA RaisedGrows ==
  ASSUME NEW a \in Nat, NEW b \in Nat, a <= b
  PROVE  \A n \in Nat : /\ Raised(a, n) \in Nat /\ Raised(b, n) \in Nat
                        /\ Raised(a, n) <= Raised(b, n)
                        /\ a >= 1 => Raised(a, n) >= 1
<1> DEFINE Good(n) == /\ Raised(a, n) \in Nat /\ Raised(b, n) \in Nat
                      /\ Raised(a, n) <= Raised(b, n)
                      /\ a >= 1 => Raised(a, n) >= 1
           S == {n \in Nat : Good(n)}
<1>0. a \in Int /\ b \in Int
  OBVIOUS
<1>1. 0 \in S
  <2>1. Raised(a, 0) = 1 /\ Raised(b, 0) = 1
    BY <1>0, RaisedIs
  <2> QED
    BY <2>1
<1>2. ASSUME NEW n \in Nat, n \in S PROVE n + 1 \in S
  <2> DEFINE c == Raised(a, n)
             d == Raised(b, n)
  <2>1. Raised(a, n + 1) = a * c /\ Raised(b, n + 1) = b * d
    BY <1>0, RaisedIs
  <2>2. c \in Nat /\ d \in Nat /\ c <= d /\ (a >= 1 => c >= 1)
    BY <1>2
  <2> HIDE DEF c, d
  <2>3. a * c \in Nat /\ b * d \in Nat /\ a * c <= b * d
    BY <2>2, ProductsGrow, SignsMultiply
  <2>4. a >= 1 => a * c >= 1
    BY <2>2, <2>3, SignsMultiply
  <2>5. Good(n + 1)
    BY <2>1, <2>3, <2>4
  <2> HIDE DEF Good
  <2> QED
    BY <2>5
<1> HIDE DEF S
<1>3. \A n \in Nat : n \in S
  BY <1>1, <1>2, EveryNatural
<1> QED
  BY <1>3 DEF S

(* The power 2n of a number is the power n of its square.                    *)
LEMMA RaisedOfSquare ==
  ASSUME NEW b \in Int
  PROVE  \A n \in Nat : /\ Raised(b, 2 * n) = Raised(b * b, n)
                        /\ Raised(b, 2 * n + 1) = b * Raised(b * b, n)
<1> DEFINE S == {n \in Nat : Raised(b, 2 * n) = Raised(b * b, n)}
<1>0. b * b \in Int
  OBVIOUS
<1>1. 0 \in S
  BY <1>0, RaisedIs
<1>2. ASSUME NEW n \in Nat, n \in S PROVE n + 1 \in S
  <2> DEFINE c == Raised(b, 2 * n)
             k == 2 * n
  <2>1. k \in Nat /\ k + 1 \in Nat /\ (k + 1) + 1 = 2 * (n + 1)
    OBVIOUS
  <2>2. c = Raised(b, k)
    OBVIOUS
  <2> HIDE DEF c, k
  <2>3. c \in Int /\ Raised(b, k + 1) = b * c /\ Raised(b, (k + 1) + 1) = b * (b * c)
    <3>1. c \in Int /\ Raised(b, k + 1) = b * c
      BY <2>1, <2>2, RaisedIs
    <3>2. Raised(b, (k + 1) + 1) = b * Raised(b, k + 1)
      BY <2>1, RaisedIs
    <3> QED
      BY <3>1, <3>2
  <2>4. Raised(b * b, n + 1) = (b * b) * c
    <3>1. Raised(b * b, n + 1) = (b * b) * Raised(b * b, n)
      BY <1>0, RaisedIs
    <3>2. Raised(b * b, n) = c
      BY <1>2 DEF c
    <3> QED
      BY <3>1, <3>2
  <2>5. (b * b) * c = b * (b * c)
    BY <2>3
  <2> QED
    BY <2>1, <2>3, <2>4, <2>5
<1>3. \A n \in Nat : n \in S
  <2> HIDE DEF S
  <2> QED
    BY <1>1, <1>2, EveryNatural
<1>4. ASSUME NEW n \in Nat PROVE Raised(b, 2 * n + 1) = b * Raised(b, 2 * n)
  <2>1. 2 * n \in Nat
    OBVIOUS
  <2> QED
    BY <2>1, RaisedIs
<1> QED
  BY <1>3, <1>4

(* y*z^n is at most r*o^n when it is so of the u*w^m that a step of the loop  *)
(* leaves, m being half of n and the factors rounded upward, and at least     *)
(* r*o^n when the factors are rounded downward.                              *)
LEMMA StepIsRounded ==
  ASSUME NEW y \in Nat, NEW z \in Nat, NEW u \in Nat, NEW w \in Nat, NEW o \in Nat, NEW m \in Nat,
         NEW r \in Nat
  PROVE  /\ (m = 0 \/ z * z <= o * w) /\ y * z <= o * u
            /\ u * Raised(w, m) <= r * Raised(o, m) =>
              y * Raised(z, 2 * m + 1) <= r * Raised(o, 2 * m + 1)
         /\ (m = 0 \/ z * z <= o * w) /\ y * Raised(w, m) <= r * Raised(o, m) =>
              y * Raised(z, 2 * m) <= r * Raised(o, 2 * m)
         /\ (m = 0 \/ o * w <= z * z) /\ o * u <= y * z
            /\ r * Raised(o, m) <= u * Raised(w, m) =>
              r * Raised(o, 2 * m + 1) <= y * Raised(z, 2 * m + 1)
         /\ (m = 0 \/ o * w <= z * z) /\ r * Raised(o, m) <= y * Raised(w, m) =>
              r * Raised(o, 2 * m) <= y * Raised(z, 2 * m)
<1> DEFINE a == Raised(z * z, m)
           c == Raised(w, m)
           p == Raised(o, m)
<1>1. z * z \in Nat /\ o * w \in Nat
  BY SignsMultiply
<1>2. a \in Nat /\ c \in Nat /\ p \in Nat
  <2>1. ASSUME NEW k \in Nat PROVE Raised(k, m) \in Nat
    <3>1. k <= k
      OBVIOUS
    <3> QED
      BY <3>1, RaisedGrows
  <2> QED
    BY <1>1, <2>1, Zenon
<1>3. Raised(o * w, m) = p * c
  BY RaisedOfProduct
<1>4. Raised(z, 2 * m) = a /\ Raised(z, 2 * m + 1) = z * a
  <2>1. z \in Int
    OBVIOUS
  <2> QED
    BY <2>1, RaisedOfSquare, Zenon
<1>5. Raised(o, 2 * m) = p * p /\ Raised(o, 2 * m + 1) = o * (p * p)
  <2>1. Raised(o * o, m) = p * p
    BY RaisedOfProduct
  <2> QED
    BY <2>1, RaisedOfSquare
<1> HIDE DEF a, c, p
<1>6. /\ y * (z * a) = (y * z) * a
      /\ (o * u) * (p * c) = (u * c) * (o * p)
      /\ y * (p * c) = (y * c) * p
      /\ (r * p) * (o * p) = r * (o * (p * p))
      /\ (r * p) * p = r * (p * p)
  BY <1>2
<1>7. /\ z * z \in Nat /\ o * w \in Nat /\ p * c \in Nat /\ o * p \in Nat /\ y * z \in Nat
      /\ o * u \in Nat /\ u * c \in Nat /\ y * c \in Nat /\ r * p \in Nat
  BY <1>2, SignsMultiply
<1>8. /\ m = 0 => a = p * c
      /\ z * z <= o * w => a <= p * c
      /\ o * w <= z * z => p * c <= a
  <2>1. m = 0 => a = p * c
    <3>1. z * z \in Int /\ o * w \in Int
      BY <1>7
    <3>2. Raised(z * z, 0) = 1 /\ Raised(o * w, 0) = 1
      BY <3>1, RaisedIs
    <3> QED
      BY <1>3, <3>2 DEF a
  <2>2. ASSUME z * z <= o * w PROVE a <= p * c
    BY <1>1, <1>3, <2>2, RaisedGrows DEF a
  <2>3. ASSUME o * w <= z * z PROVE p * c <= a
    BY <1>1, <1>3, <2>3, RaisedGrows DEF a
  <2> QED
    BY <2>1, <2>2, <2>3
<1>9. ASSUME a <= p * c, y * z <= o * u, u * c <= r * p PROVE y * (z * a) <= r * (o * (p * p))
  <2>1. (y * z) * a <= (o * u) * (p * c)
    BY <1>2, <1>6, <1>7, <1>9, ProductsGrow
  <2>2. (u * c) * (o * p) <= (r * p) * (o * p)
    <3>1. o * p <= o * p
      BY <1>2, <1>7
    <3> QED
      BY <1>2, <1>7, <1>9, <3>1, ProductsGrow
  <2> DEFINE k == (y * z) * a
             l == (o * u) * (p * c)
             n == (r * p) * (o * p)
  <2>3. k \in Nat /\ l \in Nat /\ n \in Nat
    BY <1>2, <1>6, <1>7, SignsMultiply
  <2>4. k <= l /\ l <= n
    BY <1>2, <1>6, <2>1, <2>2
  <2>5. k = y * (z * a) /\ n = r * (o * (p * p))
    BY <1>2, <1>6
  <2> HIDE DEF k, l, n
  <2> QED
    BY <2>3, <2>4, <2>5
<1>10. ASSUME a <= p * c, y * c <= r * p PROVE y * a <= r * (p * p)
  <2>1. y * a <= y * (p * c)
    <3>1. y <= y
      OBVIOUS
    <3> QED
      BY <1>2, <1>7, <3>1, <1>10, ProductsGrow
  <2>2. (y * c) * p <= (r * p) * p
    <3>1. p <= p
      BY <1>2, <1>6
    <3> QED
      BY <1>2, <1>6, <1>7, <1>10, <3>1, ProductsGrow
  <2> DEFINE k == y * a
             l == y * (p * c)
             n == (r * p) * p
  <2>3. k \in Nat /\ l \in Nat /\ n \in Nat
    BY <1>2, <1>6, <1>7, SignsMultiply
  <2>4. k <= l /\ l <= n
    BY <1>2, <1>6, <2>1, <2>2
  <2>5. n = r * (p * p)
    BY <1>2, <1>6
  <2> HIDE DEF l, n
  <2> QED
    BY <2>3, <2>4, <2>5
<1>11. ASSUME p * c <= a, o * u <= y * z, r * p <= u * c PROVE r * (o * (p * p)) <= y * (z * a)
  <2>1. (o * u) * (p * c) <= (y * z) * a
    BY <1>2, <1>6, <1>7, <1>11, ProductsGrow
  <2>2. (r * p) * (o * p) <= (u * c) * (o * p)
    <3>1. o * p <= o * p
      BY <1>2, <1>7
    <3> QED
      BY <1>2, <1>7, <1>11, <3>1, ProductsGrow
  <2> DEFINE k == (y * z) * a
             l == (o * u) * (p * c)
             n == (r * p) * (o * p)
  <2>3. k \in Nat /\ l \in Nat /\ n \in Nat
    BY <1>2, <1>6, <1>7, SignsMultiply
  <2>4. n <= l /\ l <= k
    BY <1>2, <1>6, <2>1, <2>2
  <2>5. k = y * (z * a) /\ n = r * (o * (p * p))
    BY <1>2, <1>6
  <2> HIDE DEF k, l, n
  <2> QED
    BY <2>3, <2>4, <2>5
<1>12. ASSUME p * c <= a, r * p <= y * c PROVE r * (p * p) <= y * a
  <2>1. y * (p * c) <= y * a
    <3>1. y <= y
      OBVIOUS
    <3> QED
      BY <1>2, <1>7, <3>1, <1>12, ProductsGrow
  <2>2. (r * p) * p <= (y * c) * p
    <3>1. p <= p
      BY <1>2, <1>6
    <3> QED
      BY <1>2, <1>6, <1>7, <1>12, <3>1, ProductsGrow
  <2> DEFINE k == y * a
             l == y * (p * c)
             n == (r * p) * p
  <2>3. k \in Nat /\ l \in Nat /\ n \in Nat
    BY <1>2, <1>6, <1>7, SignsMultiply
  <2>4. n <= l /\ l <= k
    BY <1>2, <1>6, <2>1, <2>2
  <2>5. n = r * (p * p)
    BY <1>2, <1>6
  <2> HIDE DEF l, n
  <2> QED
    BY <2>3, <2>4, <2>5
<1> QED
  BY <1>2, <1>4, <1>5, <1>8, <1>9, <1>10, <1>11, <1>12 DEF c, p

(* What a step assumes and proves, and each of its cases: n is the exponent    *)
(* before it, and m the one after it.                                        *)
PowerIsAtMost(y, z, n, o, r) == y * Raised(z, n) <= r * Raised(o, n)

PowerIsAtLeast(y, z, n, o, r) == r * Raised(o, n) <= y * Raised(z, n)

ProductIsAtMost(y, z, o, u) == y * z <= o * u

ProductIsAtLeast(y, z, o, u) == o * u <= y * z

(* A step of an odd exponent, rounded upward.                                *)
LEMMA OddStepIsAtMost ==
  ASSUME NEW y \in Nat, NEW z \in Nat, NEW u \in Nat, NEW w \in Nat, NEW o \in Nat, NEW m \in Nat,
         NEW r \in Nat, NEW n, n = 2 * m + 1, m = 0 \/ ProductIsAtMost(z, z, o, w),
         ProductIsAtMost(y, z, o, u), PowerIsAtMost(u, w, m, o, r)
  PROVE  PowerIsAtMost(y, z, n, o, r)
<1>1. y * Raised(z, 2 * m + 1) <= r * Raised(o, 2 * m + 1)
  BY StepIsRounded, Zenon DEF ProductIsAtMost, PowerIsAtMost
<1> QED
  BY <1>1, Zenon DEF PowerIsAtMost

(* A step of an even exponent, rounded upward.                               *)
LEMMA EvenStepIsAtMost ==
  ASSUME NEW y \in Nat, NEW z \in Nat, NEW w \in Nat, NEW o \in Nat, NEW m \in Nat,
         NEW r \in Nat, NEW n, n = 2 * m, m = 0 \/ ProductIsAtMost(z, z, o, w),
         PowerIsAtMost(y, w, m, o, r)
  PROVE  PowerIsAtMost(y, z, n, o, r)
<1>1. y * Raised(z, 2 * m) <= r * Raised(o, 2 * m)
  BY StepIsRounded, Zenon DEF ProductIsAtMost, PowerIsAtMost
<1> QED
  BY <1>1, Zenon DEF PowerIsAtMost

(* A step of an odd exponent, rounded downward.                              *)
LEMMA OddStepIsAtLeast ==
  ASSUME NEW y \in Nat, NEW z \in Nat, NEW u \in Nat, NEW w \in Nat, NEW o \in Nat, NEW m \in Nat,
         NEW r \in Nat, NEW n, n = 2 * m + 1, m = 0 \/ ProductIsAtLeast(z, z, o, w),
         ProductIsAtLeast(y, z, o, u), PowerIsAtLeast(u, w, m, o, r)
  PROVE  PowerIsAtLeast(y, z, n, o, r)
<1>1. r * Raised(o, 2 * m + 1) <= y * Raised(z, 2 * m + 1)
  BY StepIsRounded, Zenon DEF ProductIsAtLeast, PowerIsAtLeast
<1> QED
  BY <1>1, Zenon DEF PowerIsAtLeast

(* A step of an even exponent, rounded downward.                             *)
LEMMA EvenStepIsAtLeast ==
  ASSUME NEW y \in Nat, NEW z \in Nat, NEW w \in Nat, NEW o \in Nat, NEW m \in Nat,
         NEW r \in Nat, NEW n, n = 2 * m, m = 0 \/ ProductIsAtLeast(z, z, o, w),
         PowerIsAtLeast(y, w, m, o, r)
  PROVE  PowerIsAtLeast(y, z, n, o, r)
<1>1. r * Raised(o, 2 * m) <= y * Raised(z, 2 * m)
  BY StepIsRounded, Zenon DEF ProductIsAtLeast, PowerIsAtLeast
<1> QED
  BY <1>1, Zenon DEF PowerIsAtLeast

(* The product of doubles above 0 is an infinity when one of them is.        *)
LEMMA ProductIsFinite ==
  ASSUME NEW x \in Doubles, NEW y \in Doubles, Num(x) > 0, Num(y) > 0, MulUp(x, y) # Infinity
  PROVE  /\ ~IsInf(x) /\ ~IsInf(y) /\ Num(x) * Num(y) <= One * Num(MulUp(x, y))
         /\ MulUp(x, y) \in Doubles /\ Num(MulUp(x, y)) > 0 /\ ~IsInf(MulUp(x, y))
<1>1. /\ x # NaN /\ y # NaN /\ ~IsZero(x) /\ ~IsZero(y) /\ Num(x) \in Int /\ Num(y) \in Int
  BY FiniteOrInfinite, NumOfMagnitude
<1>2. ~x.neg /\ ~y.neg /\ x.neg = y.neg
  <2>1. x.neg \in BOOLEAN /\ y.neg \in BOOLEAN
    BY NumOfMagnitude
  <2> QED
    BY <1>1, <2>1, SignIs
<1>3. ~IsInf(x) /\ ~IsInf(y)
  <2> SUFFICES ASSUME IsInf(x) \/ IsInf(y) PROVE MulUp(x, y) = Infinity
    BY DEF Infinity
  <2> QED
    BY <1>1, <1>2 DEF MulUp, Infinity
<1>4. /\ MulUp(x, y) \in Doubles /\ Num(MulUp(x, y)) > 0
      /\ Num(x) * Num(y) <= One * Num(MulUp(x, y))
  BY ProductOfPositive
<1>5. ~IsInf(MulUp(x, y))
  BY <1>4, InfinityIs, LargestMagnitude
<1> QED
  BY <1>3, <1>4, <1>5

(* The product of finite doubles, not above 0, is at least what is exact.    *)
LEMMA ProductNotAbove ==
  ASSUME NEW x \in Doubles, NEW y \in Doubles, ~IsInf(x), ~IsInf(y), Num(x) * Num(y) <= 0
  PROVE  /\ MulUp(x, y) \in Doubles /\ ~IsInf(MulUp(x, y)) /\ Num(MulUp(x, y)) <= 0
         /\ Num(x) * Num(y) <= One * Num(MulUp(x, y))
<1> DEFINE n == Num(x) * Num(y)
           r == MulUp(x, y)
<1>0. 0 \in FiniteNums /\ One \in Nat
  BY FiniteNumsRange, LargestMagnitude
<1>1. n = Num(x) * Num(y) /\ n <= 0
  OBVIOUS
<1> HIDE DEF n
<1>2. /\ r \in Doubles /\ Num(r) \in Int /\ n \in Int
      /\ r = Infinity \/ (~IsInf(r) /\ n <= One * Num(r))
      /\ \A c \in FiniteNums : n <= One * c => Num(r) <= c /\ ~IsInf(r)
  BY <1>1, FiniteProductIs, Zenon
<1> HIDE DEF r
<1>3. n <= One * 0
  BY <1>0, <1>1
<1>4. Num(r) <= 0 /\ ~IsInf(r) /\ r # Infinity
  BY <1>0, <1>2, <1>3, InfinityIs
<1> QED
  BY <1>1, <1>2, <1>4 DEF r
=============================================================================
