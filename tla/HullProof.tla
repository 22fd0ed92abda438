------------------------------ MODULE HullProof ------------------------------
(***************************************************************************)
(* Proofs about the programs of MCInterval, for every format: what         *)
(* IntervalProof shows of the intervals of doubles that a program keeps is *)
(* so whatever it does.  Of the intervals of floats, the sums,             *)
(* differences, products and inverses are shown to have the bounds of      *)
(* those of doubles, the quotients, which are rounded twice, to keep all   *)
(* that they should, and the powers, rounded at each step of two loops, to *)
(* keep those of the reals; the midpoint and the relations are read right; *)
(* and the lanes of a pair are those of its two intervals.                 *)
(***************************************************************************)
EXTENDS MCInterval, IntervalProof

-----------------------------------------------------------------------------
(* What a program keeps when its intervals are of doubles *)
KeepsIntervals == ~floats => Kept

(* A program starts with intervals, and keeps intervals.                    *)
LEMMA KeepsIntervalsIsInductive ==
  ASSUME ~Aliased
  PROVE  /\ MCInit => KeepsIntervals
         /\ KeepsIntervals /\ [MCNext]_<<vars, floats>> => KeepsIntervals'
<1>1. MCInit => KeepsIntervals
  BY KeptIsInductive DEF MCInit, KeepsIntervals
<1>2. ASSUME KeepsIntervals, [MCNext]_<<vars, floats>> PROVE KeepsIntervals'
  <2>1. CASE ~floats /\ Next /\ UNCHANGED floats
    BY <1>2, <2>1, KeptIsInductive DEF KeepsIntervals
  <2>2. CASE floats /\ floats' = floats
    BY <2>2 DEF KeepsIntervals
  <2>3. CASE UNCHANGED <<vars, floats>>
    BY <1>2, <2>3 DEF KeepsIntervals, Kept, vars
  <2> QED
    BY <1>2, <2>1, <2>2, <2>3 DEF MCNext
<1> QED
  BY <1>1, <1>2

(* For every format of doubles, and both builds: whatever operations a       *)
(* program applies, in any order, to intervals of doubles, each interval is  *)
(* one of IEEE 1788, or the empty set with its two NaN bounds, which         *)
(* operator+= and the unary minus count on.  A program built without SSE2    *)
(* that writes x -= x is left out: it can leave bounds in the wrong order.   *)
THEOREM IntervalsAreWellFormedAlways ==
  ASSUME ~Aliased
  PROVE  MCSpec => []IntervalsAreWellFormed
<1>1. MCInit => KeepsIntervals
  BY KeepsIntervalsIsInductive
<1>2. KeepsIntervals /\ [MCNext]_<<vars, floats>> => KeepsIntervals'
  BY KeepsIntervalsIsInductive
<1>3. KeepsIntervals => IntervalsAreWellFormed
  BY IntervalsAre DEF KeepsIntervals, IntervalsAreWellFormed
<1> QED
  BY <1>1, <1>2, <1>3, PTL DEF MCSpec

(* For every format of doubles: whatever intervals a program has come to, a   *)
(* certain relation is true when it is so of all their reals, a possible one  *)
(* when of some, and the relations of sets when they are those of the sets:   *)
(* unbounded intervals, the empty set and bounds of 0 of either sign         *)
(* included.                                                                *)
THEOREM RelationsAreOfRealsAlways ==
  ASSUME ~Aliased
  PROVE  MCSpec => []RelationsAreOfReals
<1>1. MCInit => KeepsIntervals
  BY KeepsIntervalsIsInductive
<1>2. KeepsIntervals /\ [MCNext]_<<vars, floats>> => KeepsIntervals'
  BY KeepsIntervalsIsInductive
<1>3. KeepsIntervals => RelationsAreOfReals
  BY RelationsOfKept DEF KeepsIntervals, RelationsAreOfReals
<1> QED
  BY <1>1, <1>2, <1>3, PTL DEF MCSpec

(* For every format of doubles: on whatever intervals a program has come to,  *)
(* operator+= and operator-= give the least interval of doubles that has all  *)
(* the sums and the differences of the reals of the operands, overflows and   *)
(* unbounded operands included.                                             *)
THEOREM SumsGiveHullsAlways ==
  ASSUME ~Aliased
  PROVE  MCSpec => []SumsGiveHulls
<1>1. MCInit => KeepsIntervals
  BY KeepsIntervalsIsInductive
<1>2. KeepsIntervals /\ [MCNext]_<<vars, floats>> => KeepsIntervals'
  BY KeepsIntervalsIsInductive
<1>3. KeepsIntervals => SumsGiveHulls
  BY SumsOfKept DEF KeepsIntervals, SumsGiveHulls
<1> QED
  BY <1>1, <1>2, <1>3, PTL DEF MCSpec

(* operator*= and sqr() give the hull of the products and of the squares of  *)
(* the reals of any two intervals that a program comes to: what the second   *)
(* conjunct of OperationsAreHulls says, for every format of doubles.         *)
THEOREM ProductsGiveHullsAlways ==
  ASSUME ~Aliased
  PROVE  MCSpec => [](~floats => ProductsAreHulls)
<1>1. MCInit => KeepsIntervals
  BY KeepsIntervalsIsInductive
<1>2. KeepsIntervals /\ [MCNext]_<<vars, floats>> => KeepsIntervals'
  BY KeepsIntervalsIsInductive
<1>3. KeepsIntervals => (~floats => ProductsAreHulls)
  BY ProductsOfKept DEF KeepsIntervals
<1> QED
  BY <1>1, <1>2, <1>3, PTL DEF MCSpec

(* The arithmetic of IntervalOps gives the hull, in doubles, of the results   *)
(* of the operation on the reals of any two intervals that a program comes    *)
(* to, whatever the format of the doubles: no bound is lost to an overflow,   *)
(* an underflow, a zero of the wrong sign or a quotient of infinities, and    *)
(* none is farther out than the next double.                                  *)
THEOREM ArithmeticGivesHullsAlways ==
  ASSUME ~Aliased
  PROVE  MCSpec => []ArithmeticGivesHulls
<1>1. MCInit => KeepsIntervals
  BY KeepsIntervalsIsInductive
<1>2. KeepsIntervals /\ [MCNext]_<<vars, floats>> => KeepsIntervals'
  BY KeepsIntervalsIsInductive
<1>3. KeepsIntervals => ArithmeticGivesHulls
  BY OperationsOfKept DEF KeepsIntervals, ArithmeticGivesHulls
<1> QED
  BY <1>1, <1>2, <1>3, PTL DEF MCSpec

(* operator%= of intervals of doubles gives the hull of all the x such that   *)
(* x*y is in its operand for a y of the other one, and the operations that   *)
(* undo a sum, a product and a magnitude give an interval that has all of    *)
(* what was added, multiplied or measured, for every format and build: what  *)
(* a propagator goes back down an expression with.                           *)
THEOREM ReversesGiveHullsAlways ==
  ASSUME ~Aliased
  PROVE  MCSpec => []ReversesGiveHulls
<1>1. MCInit => KeepsIntervals
  BY KeepsIntervalsIsInductive
<1>2. KeepsIntervals /\ [MCNext]_<<vars, floats>> => KeepsIntervals'
  BY KeepsIntervalsIsInductive
<1>3. KeepsIntervals => ReversesGiveHulls
  BY ReversesOfKept DEF KeepsIntervals, ReversesGiveHulls
<1> QED
  BY <1>1, <1>2, <1>3, PTL DEF MCSpec

(* div_rel() of intervals of doubles keeps every x of its interval such that  *)
(* x*y is in the first operand for a y of the second, and gives nothing that *)
(* its interval or the quotient does not have, whatever is bounded and which  *)
(* have 0, for every format and build.                                       *)
THEOREM DivisionKeepsSolutionsAlways ==
  ASSUME ~Aliased
  PROVE  MCSpec => []DivisionKeepsSolutions
<1>1. MCInit => KeepsIntervals
  BY KeepsIntervalsIsInductive
<1>2. KeepsIntervals /\ [MCNext]_<<vars, floats>> => KeepsIntervals'
  BY KeepsIntervalsIsInductive
<1>3. KeepsIntervals => DivisionKeepsSolutions
  BY SolutionsOfKept DEF KeepsIntervals, DivisionKeepsSolutions
<1> QED
  BY <1>1, <1>2, <1>3, PTL DEF MCSpec

(* The magnitudes, the minima and the maxima of the reals of intervals of     *)
(* doubles, and the reals of a given magnitude, have as hulls what abs(),    *)
(* min(), max() and invabs_rel() give, mig() and mag() are the bounds of the  *)
(* magnitudes, and hausdorff() is the distance of bounded intervals rounded   *)
(* upward, for every format and build.                                       *)
THEOREM FunctionsGiveHullsAlways ==
  ASSUME ~Aliased
  PROVE  MCSpec => []FunctionsGiveHulls
<1>1. MCInit => KeepsIntervals
  BY KeepsIntervalsIsInductive
<1>2. KeepsIntervals /\ [MCNext]_<<vars, floats>> => KeepsIntervals'
  BY KeepsIntervalsIsInductive
<1>3. KeepsIntervals => FunctionsGiveHulls
  BY FunctionsOfKept DEF KeepsIntervals, FunctionsGiveHulls
<1> QED
  BY <1>1, <1>2, <1>3, PTL DEF MCSpec

-----------------------------------------------------------------------------
(* The floats of the instance for floats are those of the format.          *)
LEMMA FloatsAreDoubles ==
  /\ G!F!NaN = NaN
  /\ G!F!Infinity = Infinity
  /\ G!F!MinusInfinity = MinusInfinity
  /\ G!F!Largest = Largest
  /\ G!F!Doubles = Doubles
  /\ G!F!FiniteNums = FiniteNums
  /\ \A neg : G!F!Zero(neg) = Zero(neg)
  /\ \A v : G!F!OfNum(v) = OfNum(v)
  /\ \A x : G!F!Opposite(x) = Opposite(x)
  /\ \A x : G!F!Num(x) = Num(x)
  /\ \A x : G!F!IsZero(x) = IsZero(x)
  /\ \A x, y : G!F!Leq(x, y) = Leq(x, y)
  /\ \A x, y : G!F!Lt(x, y) = Lt(x, y)
  /\ \A x, y : G!F!Eq(x, y) = Eq(x, y)
  /\ \A x, y : G!F!AddUp(x, y) = AddUp(x, y)
  /\ \A x, y : G!F!MulUp(x, y) = MulUp(x, y)
  /\ \A x, y : G!F!DivUp(x, y) = DivUp(x, y)
  /\ \A n, d : G!F!RoundNearest(n, d) = RoundNearest(n, d)
<1>1. G!F!NaN = NaN
  BY DEF NaN, G!F!NaN
<1>2. G!F!Infinity = Infinity
  BY DEF Infinity, Oo, Largest, G!F!Infinity, G!F!Oo, G!F!Largest
<1>3. G!F!MinusInfinity = MinusInfinity
  BY DEF MinusInfinity, Opposite, NaN, Infinity, Oo, Largest, G!F!MinusInfinity, G!F!Opposite,
     G!F!NaN, G!F!Infinity, G!F!Oo, G!F!Largest
<1>4. G!F!Largest = Largest
  BY DEF Largest, G!F!Largest
<1>5. G!F!Doubles = Doubles
  BY DEF Doubles, Oo, Largest, G!F!Doubles, G!F!Oo, G!F!Largest
<1>6. G!F!FiniteNums = FiniteNums
  BY DEF FiniteNums, G!F!FiniteNums
<1>7. \A neg : G!F!Zero(neg) = Zero(neg)
  BY DEF Zero, G!F!Zero
<1>8. \A v : G!F!OfNum(v) = OfNum(v)
  BY DEF OfNum, G!F!OfNum
<1>9. \A x : G!F!Opposite(x) = Opposite(x)
  BY DEF Opposite, NaN, G!F!Opposite, G!F!NaN
<1>10. \A x : G!F!Num(x) = Num(x)
  BY DEF Num, G!F!Num
<1>11. \A x : G!F!IsZero(x) = IsZero(x)
  BY DEF IsZero, G!F!IsZero
<1>12. \A x, y : G!F!Leq(x, y) = Leq(x, y)
  BY DEF Leq, NaN, Num, G!F!Leq, G!F!NaN, G!F!Num
<1>13. \A x, y : G!F!Lt(x, y) = Lt(x, y)
  BY DEF Lt, NaN, Num, G!F!Lt, G!F!NaN, G!F!Num
<1>14. \A x, y : G!F!Eq(x, y) = Eq(x, y)
  BY DEF Eq, NaN, Num, G!F!Eq, G!F!NaN, G!F!Num
<1>15. \A x, y : G!F!AddUp(x, y) = AddUp(x, y)
  BY DEF AddUp, NaN, IsInf, Oo, Largest, RoundUp, Rounded, Infinity, Signed, Zero, OfNum, Least,
     LeastFrom, FiniteNums, CeilingOf, Num, G!F!AddUp, G!F!NaN, G!F!IsInf, G!F!Oo, G!F!Largest,
     G!F!RoundUp, G!F!Rounded, G!F!Infinity, G!F!Signed, G!F!Zero, G!F!OfNum, G!F!Least,
     G!F!LeastFrom, G!F!FiniteNums, G!F!CeilingOf, G!F!Num
<1>16. \A x, y : G!F!MulUp(x, y) = MulUp(x, y)
  BY DEF MulUp, NaN, IsInf, Oo, Largest, IsZero, RoundUp, Rounded, Infinity, Signed, Zero, OfNum,
     Least, LeastFrom, FiniteNums, CeilingOf, Num, G!F!MulUp, G!F!NaN, G!F!IsInf, G!F!Oo,
     G!F!Largest, G!F!IsZero, G!F!RoundUp, G!F!Rounded, G!F!Infinity, G!F!Signed, G!F!Zero,
     G!F!OfNum, G!F!Least, G!F!LeastFrom, G!F!FiniteNums, G!F!CeilingOf, G!F!Num
<1>17. \A x, y : G!F!DivUp(x, y) = DivUp(x, y)
  BY DEF DivUp, NaN, IsInf, Oo, Largest, IsZero, Zero, RoundUp, Rounded, Infinity, Signed, OfNum,
     Least, LeastFrom, FiniteNums, CeilingOf, Num, G!F!DivUp, G!F!NaN, G!F!IsInf, G!F!Oo,
     G!F!Largest, G!F!IsZero, G!F!Zero, G!F!RoundUp, G!F!Rounded, G!F!Infinity, G!F!Signed,
     G!F!OfNum, G!F!Least, G!F!LeastFrom, G!F!FiniteNums, G!F!CeilingOf, G!F!Num
<1>18. \A n, d : G!F!RoundNearest(n, d) = RoundNearest(n, d)
  <2>1. \A S : G!F!Cardinality(S) = Cardinality(S)
    BY Zenon DEF Cardinality, G!F!Cardinality
  <2>2. \A m : G!F!Even(m) = Even(m)
    BY <2>1 DEF Even, G!F!Even
  <2>3. /\ G!F!Largest = Largest /\ G!F!Oo = Oo
        /\ \A q : G!F!Least(q) = Least(q)
    BY DEF Largest, Oo, Least, LeastFrom, FiniteNums, G!F!Largest, G!F!Oo, G!F!Least, G!F!LeastFrom, G!F!FiniteNums
  <2>4. \A m : G!F!NextMagnitude(m) = NextMagnitude(m)
    BY <2>3 DEF NextMagnitude, G!F!NextMagnitude
  <2>5. \A q : G!F!FloorOf(q) = FloorOf(q)
    BY <2>3 DEF FloorOf, G!F!FloorOf
  <2>6. \A size, d, below, above : G!F!IsUpper(size, d, below, above) = IsUpper(size, d, below, above)
    BY <2>2, Zenon DEF IsUpper, G!F!IsUpper
  <2>7. \A size, d, below, above :
          G!F!NearestOf(size, d, below, above) = NearestOf(size, d, below, above)
    BY <2>3, <2>6, Zenon DEF NearestOf, G!F!NearestOf
  <2>8. \A size, d, below : G!F!NearestFrom(size, d, below) = NearestFrom(size, d, below)
    BY <2>4, <2>7, Zenon DEF NearestFrom, G!F!NearestFrom
  <2> QED
    BY <2>5, <2>8, Zenon DEF RoundNearest, G!F!RoundNearest
<1> QED
  BY <1>1, <1>2, <1>3, <1>4, <1>5, <1>6, <1>7, <1>8, <1>9, <1>10, <1>11, <1>12, <1>13, <1>14,
     <1>15, <1>16, <1>17, <1>18

(* The reals with which the floats are compared are those of the doubles.   *)
LEMMA FloatRealsAre ==
  /\ G!NaN = NaN
  /\ G!Infinity = Infinity
  /\ G!Doubles = Doubles
  /\ G!FiniteNums = FiniteNums
  /\ \A neg : G!Zero(neg) = Zero(neg)
  /\ \A v : G!OfNum(v) = OfNum(v)
  /\ \A x : G!Num(x) = Num(x)
  /\ \A x, y : G!Leq(x, y) = Leq(x, y)
  /\ \A x, y : G!Lt(x, y) = Lt(x, y)
  /\ \A I : G!left(I) = left(I)
  /\ \A I : G!right(I) = right(I)
  /\ \A I : G!is_empty(I) = is_empty(I)
  /\ \A v : G!Point(v) = Point(v)
  /\ \A I, J : G!Join(I, J) = Join(I, J)
  /\ \A I : G!Samples(I) = Samples(I)
  /\ \A x, I : G!In(x, I) = In(x, I)
  /\ \A x, I : G!InRational(x, I) = InRational(x, I)
  /\ \A I : G!Value(I) = Value(I)
  /\ \A Q : G!Hull(Q) = Hull(Q)
  /\ \A I, J : G!Sums(I, J) = Sums(I, J)
  /\ \A I, J : G!Differences(I, J) = Differences(I, J)
  /\ \A I, J : G!RealProducts(I, J) = RealProducts(I, J)
  /\ \A I, J : G!Ratios(I, J) = Ratios(I, J)
<1>1. G!NaN = NaN
  BY DEF NaN, G!NaN
<1>2. G!Infinity = Infinity
  BY DEF Infinity, Oo, Largest, G!Infinity, G!Oo, G!Largest
<1>3. G!Doubles = Doubles
  BY DEF Doubles, Oo, Largest, G!Doubles, G!Oo, G!Largest
<1>4. G!FiniteNums = FiniteNums
  BY DEF FiniteNums, G!FiniteNums
<1>5. \A neg : G!Zero(neg) = Zero(neg)
  BY DEF Zero, G!Zero
<1>6. \A v : G!OfNum(v) = OfNum(v)
  BY DEF OfNum, G!OfNum
<1>7. \A x : G!Num(x) = Num(x)
  BY DEF Num, G!Num
<1>8. \A x, y : G!Leq(x, y) = Leq(x, y)
  BY DEF Leq, NaN, Num, G!Leq, G!NaN, G!Num
<1>9. \A x, y : G!Lt(x, y) = Lt(x, y)
  BY DEF Lt, NaN, Num, G!Lt, G!NaN, G!Num
<1>10. \A I : G!left(I) = left(I)
  BY DEF left, Opposite, NaN, G!left, G!Opposite, G!NaN
<1>11. \A I : G!right(I) = right(I)
  BY DEF right, G!right
<1>12. \A I : G!is_empty(I) = is_empty(I)
  BY DEF is_empty, Leq, NaN, Num, left, Opposite, right, G!is_empty, G!Leq, G!NaN, G!Num, G!left,
     G!Opposite, G!right
<1>13. \A v : G!Point(v) = Point(v)
  BY DEF Point, Interval, Leq, NaN, Num, Lt, Infinity, Oo, Largest, MinusInfinity, Opposite,
     Bounds, emptyset, G!Point, G!Interval, G!Leq, G!NaN, G!Num, G!Lt, G!Infinity, G!Oo,
     G!Largest, G!MinusInfinity, G!Opposite, G!Bounds, G!emptyset
<1>14. \A I, J : G!Join(I, J) = Join(I, J)
  BY DEF Join, is_empty, Leq, NaN, Num, left, Opposite, right, Bounds, Lt, G!Join, G!is_empty,
     G!Leq, G!NaN, G!Num, G!left, G!Opposite, G!right, G!Bounds, G!Lt
<1>15. \A I : G!Samples(I) = Samples(I)
  BY DEF Samples, NaN, IsInf, Oo, Largest, In, is_empty, Leq, Num, left, Opposite, right,
     MinusInfinity, Infinity, G!Samples, G!NaN, G!IsInf, G!Oo, G!Largest, G!In, G!is_empty, G!Leq,
     G!Num, G!left, G!Opposite, G!right, G!MinusInfinity, G!Infinity
<1>16. \A x, I : G!In(x, I) = In(x, I)
  BY DEF In, is_empty, Leq, NaN, Num, left, Opposite, right, MinusInfinity, Infinity, Oo, Largest,
     G!In, G!is_empty, G!Leq, G!NaN, G!Num, G!left, G!Opposite, G!right, G!MinusInfinity,
     G!Infinity, G!Oo, G!Largest
<1>17. \A x, I : G!InRational(x, I) = InRational(x, I)
  BY DEF InRational, is_empty, Leq, NaN, Num, left, Opposite, right, MinusInfinity, Infinity, Oo,
     Largest, G!InRational, G!is_empty, G!Leq, G!NaN, G!Num, G!left, G!Opposite, G!right,
     G!MinusInfinity, G!Infinity, G!Oo, G!Largest
<1>18. \A I : G!Value(I) = Value(I)
  BY DEF Value, is_empty, Leq, NaN, Num, left, Opposite, right, G!Value, G!is_empty, G!Leq, G!NaN,
     G!Num, G!left, G!Opposite, G!right
<1>19. \A Q : G!Hull(Q) = Hull(Q)
  BY DEF Hull, Ceiling, FiniteNums, Oo, Largest, Min, G!Hull, G!Ceiling, G!FiniteNums, G!Oo,
     G!Largest, G!Min
<1>20. \A I, J : G!Sums(I, J) = Sums(I, J)
  BY DEF Sums, Samples, NaN, IsInf, Oo, Largest, In, is_empty, Leq, Num, left, Opposite, right,
     MinusInfinity, Infinity, G!Sums, G!Samples, G!NaN, G!IsInf, G!Oo, G!Largest, G!In,
     G!is_empty, G!Leq, G!Num, G!left, G!Opposite, G!right, G!MinusInfinity, G!Infinity
<1>21. \A I, J : G!Differences(I, J) = Differences(I, J)
  BY DEF Differences, Samples, NaN, IsInf, Oo, Largest, In, is_empty, Leq, Num, left, Opposite,
     right, MinusInfinity, Infinity, G!Differences, G!Samples, G!NaN, G!IsInf, G!Oo, G!Largest,
     G!In, G!is_empty, G!Leq, G!Num, G!left, G!Opposite, G!right, G!MinusInfinity, G!Infinity
<1>22. \A I, J : G!RealProducts(I, J) = RealProducts(I, J)
  BY DEF RealProducts, Samples, NaN, IsInf, Oo, Largest, In, is_empty, Leq, Num, left, Opposite,
     right, MinusInfinity, Infinity, G!RealProducts, G!Samples, G!NaN, G!IsInf, G!Oo, G!Largest,
     G!In, G!is_empty, G!Leq, G!Num, G!left, G!Opposite, G!right, G!MinusInfinity, G!Infinity
<1>23. \A I, J : G!Ratios(I, J) = Ratios(I, J)
  BY DEF Ratios, Ratio, Samples, NaN, IsInf, Oo, Largest, In, is_empty, Leq, Num, left, Opposite,
     right, MinusInfinity, Infinity, G!Ratios, G!Ratio, G!Samples, G!NaN, G!IsInf, G!Oo,
     G!Largest, G!In, G!is_empty, G!Leq, G!Num, G!left, G!Opposite, G!right, G!MinusInfinity,
     G!Infinity
<1> QED
  BY <1>1, <1>2, <1>3, <1>4, <1>5, <1>6, <1>7, <1>8, <1>9, <1>10, <1>11, <1>12, <1>13, <1>14,
     <1>15, <1>16, <1>17, <1>18, <1>19, <1>20, <1>21, <1>22, <1>23

(* The floats of the instance for pairs are those of the format.           *)
LEMMA PairFloatsAreDoubles ==
  /\ G!P!NaN = NaN
  /\ G!P!Doubles = Doubles
  /\ \A neg : G!P!Zero(neg) = Zero(neg)
  /\ \A v : G!P!OfNum(v) = OfNum(v)
  /\ \A x : G!P!Opposite(x) = Opposite(x)
  /\ \A x, y : G!P!Leq(x, y) = Leq(x, y)
  /\ \A x, y : G!P!Eq(x, y) = Eq(x, y)
  /\ \A x, y : G!P!AddUp(x, y) = AddUp(x, y)
  /\ \A x, y : G!P!MulUp(x, y) = MulUp(x, y)
  /\ \A x, y : G!P!MaxPd(x, y) = MaxPd(x, y)
  /\ \A x : G!P!NaNToZero(x) = NaNToZero(x)
  /\ \A x : G!P!SignBit(x) = SignBit(x)
<1>1. G!P!NaN = NaN
  BY DEF NaN, G!P!NaN
<1>2. G!P!Doubles = Doubles
  BY DEF Doubles, Oo, Largest, G!P!Doubles, G!P!Oo, G!P!Largest
<1>3. \A neg : G!P!Zero(neg) = Zero(neg)
  BY DEF Zero, G!P!Zero
<1>4. \A v : G!P!OfNum(v) = OfNum(v)
  BY DEF OfNum, G!P!OfNum
<1>5. \A x : G!P!Opposite(x) = Opposite(x)
  BY DEF Opposite, NaN, G!P!Opposite, G!P!NaN
<1>6. \A x, y : G!P!Leq(x, y) = Leq(x, y)
  BY DEF Leq, NaN, Num, G!P!Leq, G!P!NaN, G!P!Num
<1>7. \A x, y : G!P!Eq(x, y) = Eq(x, y)
  BY DEF Eq, NaN, Num, G!P!Eq, G!P!NaN, G!P!Num
<1>8. \A x, y : G!P!AddUp(x, y) = AddUp(x, y)
  BY DEF AddUp, NaN, IsInf, Oo, Largest, RoundUp, Rounded, Infinity, Signed, Zero, OfNum, Least,
     LeastFrom, FiniteNums, CeilingOf, Num, G!P!AddUp, G!P!NaN, G!P!IsInf, G!P!Oo, G!P!Largest,
     G!P!RoundUp, G!P!Rounded, G!P!Infinity, G!P!Signed, G!P!Zero, G!P!OfNum, G!P!Least,
     G!P!LeastFrom, G!P!FiniteNums, G!P!CeilingOf, G!P!Num
<1>9. \A x, y : G!P!MulUp(x, y) = MulUp(x, y)
  BY DEF MulUp, NaN, IsInf, Oo, Largest, IsZero, RoundUp, Rounded, Infinity, Signed, Zero, OfNum,
     Least, LeastFrom, FiniteNums, CeilingOf, Num, G!P!MulUp, G!P!NaN, G!P!IsInf, G!P!Oo,
     G!P!Largest, G!P!IsZero, G!P!RoundUp, G!P!Rounded, G!P!Infinity, G!P!Signed, G!P!Zero,
     G!P!OfNum, G!P!Least, G!P!LeastFrom, G!P!FiniteNums, G!P!CeilingOf, G!P!Num
<1>10. \A x, y : G!P!MaxPd(x, y) = MaxPd(x, y)
  BY DEF MaxPd, Lt, NaN, Num, G!P!MaxPd, G!P!Lt, G!P!NaN, G!P!Num
<1>11. \A x : G!P!NaNToZero(x) = NaNToZero(x)
  BY DEF NaNToZero, NaN, Zero, G!P!NaNToZero, G!P!NaN, G!P!Zero
<1>12. \A x : G!P!SignBit(x) = SignBit(x)
  BY DEF SignBit, G!P!SignBit
<1> QED
  BY <1>1, <1>2, <1>3, <1>4, <1>5, <1>6, <1>7, <1>8, <1>9, <1>10, <1>11, <1>12

(* The intervals of floats have the bounds of the others, and their sums,     *)
(* differences, opposites and inverses are the same.                         *)
LEMMA FloatBoundsAre ==
  ASSUME NEW I
  PROVE  /\ G!F!left(I) = left(I) /\ G!F!right(I) = right(I)
         /\ G!F!is_empty(I) = is_empty(I)
         /\ G!F!emptyset = emptyset /\ G!F!universe = universe
         /\ \A l, r : /\ G!F!Bounds(l, r) = Bounds(l, r)
                      /\ G!F!intervalf(l, r) = Bounds(Opposite(l), r)
<1>1. \A l, r : G!F!Bounds(l, r) = Bounds(l, r)
  BY DEF G!F!Bounds, Bounds
<1>2. \A l, r : G!F!intervalf(l, r) = Bounds(Opposite(l), r)
  BY <1>1, FloatsAreDoubles DEF G!F!intervalf
<1>3. G!F!left(I) = left(I) /\ G!F!right(I) = right(I)
  BY FloatsAreDoubles DEF G!F!left, left, G!F!right, right
<1>4. G!F!is_empty(I) = is_empty(I)
  BY <1>3, FloatsAreDoubles, Zenon DEF G!F!is_empty, is_empty
<1>5. Opposite(NaN) = NaN /\ Opposite(MinusInfinity) = Infinity
  BY OppositeIsDouble, InfinityIs
<1>6. G!F!emptyset = emptyset /\ G!F!universe = universe
  BY <1>2, <1>5, FloatsAreDoubles DEF G!F!emptyset, G!F!universe, emptyset, universe
<1> QED
  BY <1>1, <1>2, <1>3, <1>4, <1>6

(* Sums and differences of floats are those of doubles.                       *)
LEMMA FloatSumsAre ==
  ASSUME NEW I, NEW J
  PROVE  /\ G!F!Plus(I, J) = Plus(I, J, FALSE)
         /\ G!F!Minus(I, J, FALSE) = Difference(I, J, FALSE)
<1>1. G!F!Plus(I, J) = Plus(I, J, FALSE)
  BY FloatBoundsAre, FloatsAreDoubles DEF G!F!Plus, Plus
<1>2. G!F!Minus(I, J, FALSE) = Difference(I, J, FALSE)
  BY FloatBoundsAre, FloatsAreDoubles DEF G!F!Minus, Difference
<1> QED
  BY <1>1, <1>2

(* The opposite too.                                                         *)
LEMMA FloatOppositeIs ==
  ASSUME NEW I \in Intervals
  PROVE  G!F!Opposed(I) = Minus(I)
<1>1. Opposite(Opposite(I.rb)) = I.rb
  BY OppositeTwice, NonEmptyIs, EmptySetIs, OppositeIsDouble DEF Intervals
<1> QED
  BY <1>1, FloatBoundsAre, FloatsAreDoubles DEF G!F!Opposed, Minus

(* The inverse too, by other tests.                                           *)
LEMMA FloatInverseIs ==
  ASSUME NEW I \in Intervals
  PROVE  G!F!inverse(I) = inverse(I)
<1> DEFINE over(x) == DivUp(OfNum(-One), x)
<1>0. \A x : G!F!DivUp(G!F!OfNum(-One), x) = over(x)
  BY FloatsAreDoubles
<1>1. CASE I = emptyset
  BY <1>1, EmptySetIs, FloatBoundsAre DEF G!F!inverse, inverse
<1>2. CASE I \in NonEmpty
  <2> DEFINE z == Zero(FALSE)
  <2>1. /\ Leq(left(I), z) <=> Num(I.lb) >= 0
        /\ Lt(left(I), z) <=> Num(I.lb) > 0
        /\ Leq(right(I), z) <=> Num(I.rb) <= 0
        /\ Lt(right(I), z) <=> Num(I.rb) < 0
        /\ Lt(z, right(I)) <=> Num(I.rb) > 0
        /\ IsZero(left(I)) <=> Num(I.lb) = 0
        /\ IsZero(I.rb) <=> Num(I.rb) = 0
        /\ IsZero(I.lb) <=> Num(I.lb) = 0
        /\ is_zero(I) <=> Num(I.lb) = 0 /\ Num(I.rb) = 0
        /\ ~is_empty(I)
        /\ Num(I.lb) \in Int /\ Num(I.rb) \in Int /\ Num(I.lb) + Num(I.rb) >= 0
    BY <1>2, BoundsCompare, NonEmptyIs, FiniteOrInfinite DEF right
  <2>2. G!F!inverse(I) =
          IF Num(I.rb) <= 0
          THEN IF ~(Num(I.lb) > 0) THEN emptyset
               ELSE Bounds(IF Num(I.rb) < 0 THEN over(I.rb) ELSE Infinity, over(I.lb))
          ELSE IF Num(I.lb) > 0 THEN universe
          ELSE Bounds(over(I.rb), IF Num(I.lb) = 0 THEN Infinity ELSE over(I.lb))
    <3> DEFINE w == G!F!Zero(FALSE)
    <3>1. w = z
      BY FloatsAreDoubles
    <3>2. /\ G!F!Leq(G!F!right(I), w) <=> Num(I.rb) <= 0
          /\ G!F!Lt(G!F!left(I), w) <=> Num(I.lb) > 0
          /\ G!F!Lt(G!F!right(I), w) <=> Num(I.rb) < 0
          /\ G!F!IsZero(G!F!left(I)) <=> Num(I.lb) = 0
          /\ ~G!F!is_empty(I)
      BY <2>1, <3>1, FloatBoundsAre, FloatsAreDoubles
    <3>3. /\ G!F!Infinity = Infinity /\ G!F!emptyset = emptyset /\ G!F!universe = universe
          /\ \A l, r : G!F!Bounds(l, r) = Bounds(l, r)
      BY FloatBoundsAre, FloatsAreDoubles
    <3> DEFINE from(x) == G!F!DivUp(G!F!OfNum(-One), x)
    <3>4. G!F!inverse(I) =
            IF G!F!is_empty(I) THEN G!F!emptyset
            ELSE IF G!F!Leq(G!F!right(I), w)
            THEN IF ~G!F!Lt(G!F!left(I), w) THEN G!F!emptyset
                 ELSE G!F!Bounds(IF G!F!Lt(G!F!right(I), w) THEN from(I.rb) ELSE G!F!Infinity,
                                 from(I.lb))
            ELSE IF G!F!Lt(G!F!left(I), w) THEN G!F!universe
            ELSE G!F!Bounds(from(I.rb),
                            IF G!F!IsZero(G!F!left(I)) THEN G!F!Infinity ELSE from(I.lb))
      BY DEF G!F!inverse
    <3>5. \A x : from(x) = over(x)
      BY <1>0
    <3> HIDE DEF over, w, from
    <3> QED
      BY <2>1, <3>2, <3>3, <3>4, <3>5
  <2>3. inverse(I) =
          IF Num(I.lb) = 0 /\ Num(I.rb) = 0 THEN emptyset
          ELSE IF Num(I.lb) > 0 /\ Num(I.rb) > 0 THEN universe
          ELSE Bounds(IF Num(I.rb) = 0 THEN Infinity ELSE over(I.rb),
                      IF Num(I.lb) = 0 THEN Infinity ELSE over(I.lb))
    BY <2>1 DEF inverse, strictly_straddles_zero
  <2> HIDE DEF over, z
  <2> QED
    BY <2>1, <2>2, <2>3
<1> QED
  BY <1>1, <1>2 DEF Intervals

(* The side of 0 on which operator*= of floats takes an interval to be      *)
FloatSide(I) == IF Num(I.lb) <= 0 THEN "P" ELSE IF Num(I.rb) > 0 THEN "M" ELSE "N"

(* The products of the floats for two sides: none of the nine cases has a     *)
(* product of 0 and an infinity, which the code does not test for.           *)
LEMMA FloatProductsAre ==
  ASSUME NEW I \in NonEmpty, NEW J \in NonEmpty,
         Num(I.lb) # 0 \/ Num(I.rb) # 0, Num(J.lb) # 0 \/ Num(J.rb) # 0
  PROVE  /\ OnSide(FloatSide(I), I) /\ OnSide(FloatSide(J), J)
         /\ G!F!Times(I, J) = Products(<<FloatSide(I), FloatSide(J)>>, I, J)
<1> DEFINE a == Num(I.lb)
           b == Num(I.rb)
           c == Num(J.lb)
           e == Num(J.rb)
           Mul(x, y) == NaNToZero(MulUp(x, y))
<1>1. /\ I.lb \in Doubles /\ I.rb \in Doubles /\ J.lb \in Doubles /\ J.rb \in Doubles
      /\ a \in Int /\ b \in Int /\ c \in Int /\ e \in Int /\ a + b >= 0 /\ c + e >= 0
      /\ a <= 0 => ~IsInf(I.lb)
      /\ b <= 0 => ~IsInf(I.rb)
      /\ c <= 0 => ~IsInf(J.lb)
      /\ e <= 0 => ~IsInf(J.rb)
      /\ ~is_empty(I) /\ ~is_empty(J)
  BY NonEmptyIs
<1>2. /\ \A x \in {I.lb, I.rb, J.lb, J.rb} :
           /\ Opposite(x) \in Doubles /\ Num(Opposite(x)) = -Num(x)
           /\ IsInf(Opposite(x)) <=> IsInf(x)
           /\ Leq(x, Zero(FALSE)) <=> Num(x) <= 0
           /\ Lt(Zero(FALSE), x) <=> Num(x) > 0
           /\ IsZero(x) <=> Num(x) = 0
  <2>1. ASSUME NEW x \in {I.lb, I.rb, J.lb, J.rb}
        PROVE  /\ Opposite(x) \in Doubles /\ Num(Opposite(x)) = -Num(x)
               /\ IsInf(Opposite(x)) <=> IsInf(x)
    BY <1>1, OppositeIsDouble DEF IsInf
  <2>2. ASSUME NEW x \in {I.lb, I.rb, J.lb, J.rb}
        PROVE  /\ Leq(x, Zero(FALSE)) <=> Num(x) <= 0
               /\ Lt(Zero(FALSE), x) <=> Num(x) > 0
    <3>1. Zero(FALSE) # NaN /\ Num(Zero(FALSE)) = 0 /\ x # NaN
      BY <1>1, EndsAre, FiniteOrInfinite
    <3> QED
      BY <3>1, <1>1 DEF Leq, Lt
  <2>3. ASSUME NEW x \in {I.lb, I.rb, J.lb, J.rb} PROVE IsZero(x) <=> Num(x) = 0
    BY <1>1, FiniteOrInfinite
  <2> QED
    BY <2>1, <2>2, <2>3
<1>3. /\ G!F!certainly_positive(I) <=> a <= 0
      /\ G!F!strictly_straddles_zero(I) <=> a > 0 /\ b > 0
      /\ G!F!certainly_positive(J) <=> c <= 0
      /\ G!F!strictly_straddles_zero(J) <=> c > 0 /\ e > 0
      /\ ~G!F!is_zero(I) /\ ~G!F!is_zero(J)
      /\ ~G!F!is_empty(I) /\ ~G!F!is_empty(J)
  <2>1. /\ G!F!certainly_positive(I) <=> a <= 0
        /\ G!F!certainly_positive(J) <=> c <= 0
    BY <1>2, FloatsAreDoubles DEF G!F!certainly_positive
  <2>2. /\ G!F!strictly_straddles_zero(I) <=> a > 0 /\ b > 0
        /\ G!F!strictly_straddles_zero(J) <=> c > 0 /\ e > 0
    BY <1>2, FloatsAreDoubles DEF G!F!strictly_straddles_zero
  <2>3. ~G!F!is_zero(I) /\ ~G!F!is_zero(J)
    BY <1>2, FloatsAreDoubles DEF G!F!is_zero
  <2>4. ~G!F!is_empty(I) /\ ~G!F!is_empty(J)
    BY <1>1, FloatBoundsAre
  <2> QED
    BY <2>1, <2>2, <2>3, <2>4
<1>4. G!F!Times(I, J) = IF a <= 0 THEN G!F!TimesP(I, J)
                        ELSE IF b > 0 THEN G!F!TimesM(I, J) ELSE G!F!TimesN(I, J)
  BY <1>1, <1>3 DEF G!F!Times
<1>5. /\ FloatSide(I) = IF a <= 0 THEN "P" ELSE IF b > 0 THEN "M" ELSE "N"
      /\ FloatSide(J) = IF c <= 0 THEN "P" ELSE IF e > 0 THEN "M" ELSE "N"
  BY DEF FloatSide
<1>6. OnSide(FloatSide(I), I) /\ OnSide(FloatSide(J), J)
  BY <1>1, <1>5 DEF OnSide
<1>7. /\ \A x, y \in Doubles :
           (~IsInf(x) /\ ~IsInf(y)) \/ (Num(x) # 0 /\ Num(y) # 0) => MulUp(x, y) = Mul(x, y)
      /\ \A l, r : G!F!Bounds(l, r) = Bounds(l, r)
      /\ \A x, y : G!F!MulUp(x, y) = MulUp(x, y)
      /\ \A x : G!F!Opposite(x) = Opposite(x)
      /\ \A x, y : (IF G!F!Lt(y, x) THEN x ELSE y) = MaxPd(x, y)
  <2>1. \A x, y : (IF G!F!Lt(y, x) THEN x ELSE y) = MaxPd(x, y)
    BY FloatsAreDoubles DEF MaxPd
  <2> QED
    BY <2>1, ProductIsNoNaN, FloatBoundsAre, FloatsAreDoubles
<1>8. CASE a <= 0
  <2>1. G!F!TimesP(I, J) =
          IF c <= 0 THEN Bounds(MulUp(I.lb, Opposite(J.lb)), MulUp(I.rb, J.rb))
          ELSE IF e > 0 THEN Bounds(MulUp(I.rb, J.lb), MulUp(I.rb, J.rb))
          ELSE Bounds(MulUp(I.rb, J.lb), MulUp(Opposite(I.lb), J.rb))
    BY <1>1, <1>3, <1>7 DEF G!F!TimesP
  <2>2. b > 0
    BY <1>1, <1>8
  <2>3. CASE c <= 0
    <3>1. e > 0
      BY <1>1, <2>3
    <3>2. /\ MulUp(I.lb, Opposite(J.lb)) = Mul(I.lb, Opposite(J.lb))
          /\ MulUp(I.rb, J.rb) = Mul(I.rb, J.rb)
      BY <1>1, <1>2, <1>7, <1>8, <2>2, <2>3, <3>1
    <3> HIDE DEF Mul
    <3>3. Products(<<"P", "P">>, I, J) = Bounds(Mul(I.lb, Opposite(J.lb)), Mul(I.rb, J.rb))
      BY DEF Products, Mul
    <3> QED
      BY <1>4, <1>5, <1>6, <1>8, <2>1, <2>3, <3>2, <3>3
  <2>4. CASE c > 0 /\ e > 0
    <3>1. MulUp(I.rb, J.lb) = Mul(I.rb, J.lb) /\ MulUp(I.rb, J.rb) = Mul(I.rb, J.rb)
      BY <1>1, <1>7, <2>2, <2>4
    <3> HIDE DEF Mul
    <3>2. Products(<<"P", "M">>, I, J) = Bounds(Mul(I.rb, J.lb), Mul(I.rb, J.rb))
      BY DEF Products, Mul
    <3> QED
      BY <1>1, <1>4, <1>5, <1>6, <1>8, <2>1, <2>4, <3>1, <3>2
  <2>5. CASE c > 0 /\ e <= 0
    <3>1. MulUp(I.rb, J.lb) = Mul(I.rb, J.lb) /\ MulUp(Opposite(I.lb), J.rb) = Mul(Opposite(I.lb), J.rb)
      BY <1>1, <1>2, <1>7, <1>8, <2>2, <2>5
    <3> HIDE DEF Mul
    <3>2. Products(<<"P", "N">>, I, J) = Bounds(Mul(I.rb, J.lb), Mul(Opposite(I.lb), J.rb))
      BY DEF Products, Mul
    <3> QED
      BY <1>1, <1>4, <1>5, <1>6, <1>8, <2>1, <2>5, <3>1, <3>2
  <2> QED
    BY <1>1, <2>3, <2>4, <2>5
<1>9. CASE a > 0 /\ b > 0
  <2>1. G!F!TimesM(I, J) =
          IF c <= 0 THEN Bounds(MulUp(I.lb, J.rb), MulUp(I.rb, J.rb))
          ELSE IF e > 0
          THEN Bounds(MaxPd(MulUp(I.lb, J.rb), MulUp(I.rb, J.lb)),
                      MaxPd(MulUp(I.lb, J.lb), MulUp(I.rb, J.rb)))
          ELSE Bounds(MulUp(I.rb, J.lb), MulUp(I.lb, J.lb))
    BY <1>1, <1>3, <1>7 DEF G!F!TimesM
  <2>2. CASE c <= 0
    <3>1. e > 0
      BY <1>1, <2>2
    <3>2. MulUp(I.lb, J.rb) = Mul(I.lb, J.rb) /\ MulUp(I.rb, J.rb) = Mul(I.rb, J.rb)
      BY <1>1, <1>7, <1>9, <3>1
    <3> HIDE DEF Mul
    <3>3. Products(<<"M", "P">>, I, J) = Bounds(Mul(I.lb, J.rb), Mul(I.rb, J.rb))
      BY DEF Products, Mul
    <3> QED
      BY <1>1, <1>4, <1>5, <1>6, <1>9, <2>1, <2>2, <3>2, <3>3
  <2>3. CASE c > 0 /\ e > 0
    <3>1. /\ MulUp(I.lb, J.rb) = Mul(I.lb, J.rb) /\ MulUp(I.rb, J.lb) = Mul(I.rb, J.lb)
          /\ MulUp(I.lb, J.lb) = Mul(I.lb, J.lb) /\ MulUp(I.rb, J.rb) = Mul(I.rb, J.rb)
      BY <1>1, <1>7, <1>9, <2>3
    <3> HIDE DEF Mul
    <3>2. Products(<<"M", "M">>, I, J) = Bounds(MaxPd(Mul(I.lb, J.rb), Mul(I.rb, J.lb)),
                                                MaxPd(Mul(I.lb, J.lb), Mul(I.rb, J.rb)))
      BY DEF Products, Mul
    <3> QED
      BY <1>1, <1>4, <1>5, <1>6, <1>9, <2>1, <2>3, <3>1, <3>2
  <2>4. CASE c > 0 /\ e <= 0
    <3>1. MulUp(I.rb, J.lb) = Mul(I.rb, J.lb) /\ MulUp(I.lb, J.lb) = Mul(I.lb, J.lb)
      BY <1>1, <1>7, <1>9, <2>4
    <3> HIDE DEF Mul
    <3>2. Products(<<"M", "N">>, I, J) = Bounds(Mul(I.rb, J.lb), Mul(I.lb, J.lb))
      BY DEF Products, Mul
    <3> QED
      BY <1>1, <1>4, <1>5, <1>6, <1>9, <2>1, <2>4, <3>1, <3>2
  <2> QED
    BY <1>1, <2>2, <2>3, <2>4
<1>10. CASE a > 0 /\ b <= 0
  <2>1. G!F!TimesN(I, J) =
          IF c <= 0 THEN Bounds(MulUp(I.lb, J.rb), MulUp(I.rb, Opposite(J.lb)))
          ELSE IF e > 0 THEN Bounds(MulUp(I.lb, J.rb), MulUp(I.lb, J.lb))
          ELSE Bounds(MulUp(I.rb, Opposite(J.rb)), MulUp(I.lb, J.lb))
    BY <1>1, <1>3, <1>7 DEF G!F!TimesN
  <2>2. CASE c <= 0
    <3>1. e > 0
      BY <1>1, <2>2
    <3>2. MulUp(I.lb, J.rb) = Mul(I.lb, J.rb) /\ MulUp(I.rb, Opposite(J.lb)) = Mul(I.rb, Opposite(J.lb))
      BY <1>1, <1>2, <1>7, <1>10, <2>2, <3>1
    <3> HIDE DEF Mul
    <3>3. Products(<<"N", "P">>, I, J) = Bounds(Mul(I.lb, J.rb), Mul(I.rb, Opposite(J.lb)))
      BY DEF Products, Mul
    <3> QED
      BY <1>1, <1>4, <1>5, <1>6, <1>10, <2>1, <2>2, <3>2, <3>3
  <2>3. CASE c > 0 /\ e > 0
    <3>1. MulUp(I.lb, J.rb) = Mul(I.lb, J.rb) /\ MulUp(I.lb, J.lb) = Mul(I.lb, J.lb)
      BY <1>1, <1>7, <1>10, <2>3
    <3> HIDE DEF Mul
    <3>2. Products(<<"N", "M">>, I, J) = Bounds(Mul(I.lb, J.rb), Mul(I.lb, J.lb))
      BY DEF Products, Mul
    <3> QED
      BY <1>1, <1>4, <1>5, <1>6, <1>10, <2>1, <2>3, <3>1, <3>2
  <2>4. CASE c > 0 /\ e <= 0
    <3>1. MulUp(I.rb, Opposite(J.rb)) = Mul(I.rb, Opposite(J.rb)) /\ MulUp(I.lb, J.lb) = Mul(I.lb, J.lb)
      BY <1>1, <1>2, <1>7, <1>10, <2>4
    <3> HIDE DEF Mul
    <3>2. Products(<<"N", "N">>, I, J) = Bounds(Mul(I.rb, Opposite(J.rb)), Mul(I.lb, J.lb))
      BY DEF Products, Mul
    <3> QED
      BY <1>1, <1>4, <1>5, <1>6, <1>10, <2>1, <2>4, <3>1, <3>2
  <2> QED
    BY <1>1, <2>2, <2>3, <2>4
<1> QED
  BY <1>1, <1>6, <1>8, <1>9, <1>10

(* operator*= of floats gives an interval, the hull of the products.         *)
LEMMA FloatProductIsHull ==
  ASSUME NEW I \in Intervals, NEW J \in Intervals
  PROVE  /\ G!F!Times(I, J) \in Intervals
         /\ I \in NonEmpty /\ J \in NonEmpty => G!F!Times(I, J) \in NonEmpty
         /\ I = emptyset \/ J = emptyset => G!F!Times(I, J) = emptyset
         /\ Value(G!F!Times(I, J)) = Hull(RealProducts(I, J))
<1>1. CASE I = emptyset \/ J = emptyset
  <2>1. G!F!is_empty(I) \/ G!F!is_empty(J)
    BY <1>1, EmptySetIs, FloatBoundsAre
  <2>2. G!F!Times(I, J) = emptyset
    BY <2>1, FloatBoundsAre DEF G!F!Times
  <2>3. RealProducts(I, J) = {}
    BY <1>1, EmptyHasNone DEF RealProducts
  <2>4. emptyset \notin NonEmpty
    BY EmptySetIs, NonEmptyIs
  <2> QED
    BY <1>1, <2>2, <2>3, <2>4, ValueIs DEF Intervals
<1>2. CASE I \in NonEmpty /\ J \in NonEmpty
  <2>0. /\ ~G!F!is_empty(I) /\ ~G!F!is_empty(J)
        /\ I # emptyset /\ J # emptyset
    BY <1>2, NonEmptyIs, EmptySetIs, FloatBoundsAre
  <2>1. ASSUME NEW K \in NonEmpty
        PROVE  /\ G!F!is_zero(K) <=> Num(K.lb) = 0 /\ Num(K.rb) = 0
               /\ Num(K.lb) = 0 /\ Num(K.rb) = 0 => Value(K) = <<0, 0>>
    <3>1. /\ K = Bounds(K.lb, K.rb) /\ K.lb \in Ends /\ K.rb \in Ends
          /\ IsZero(K.lb) <=> Num(K.lb) = 0
          /\ IsZero(K.rb) <=> Num(K.rb) = 0
      BY <2>1, NonEmptyIs, FiniteOrInfinite
    <3>2. Value(K) = <<Num(K.lb), Num(K.rb)>>
      BY <2>1, <3>1, ValueIs
    <3> QED
      BY <3>1, <3>2, FloatsAreDoubles DEF G!F!is_zero
  <2>2. CASE G!F!is_zero(I)
    <3>1. G!F!Times(I, J) = I
      BY <2>0, <2>2 DEF G!F!Times
    <3>2. Value(I) = <<0, 0>> /\ Hull(RealProducts(I, J)) = <<0, 0>>
      BY <1>2, <2>1, <2>2, ZeroGivesHull
    <3> QED
      BY <1>2, <2>0, <3>1, <3>2 DEF Intervals
  <2>3. CASE ~G!F!is_zero(I) /\ G!F!is_zero(J)
    <3>1. G!F!Times(I, J) = J
      BY <2>0, <2>3 DEF G!F!Times
    <3>2. Value(J) = <<0, 0>> /\ Hull(RealProducts(I, J)) = <<0, 0>>
      BY <1>2, <2>1, <2>3, ZeroGivesHull
    <3> QED
      BY <1>2, <2>0, <3>1, <3>2 DEF Intervals
  <2>4. CASE ~G!F!is_zero(I) /\ ~G!F!is_zero(J)
    <3>1. /\ Num(I.lb) # 0 \/ Num(I.rb) # 0
          /\ Num(J.lb) # 0 \/ Num(J.rb) # 0
      BY <1>2, <2>1, <2>4
    <3>2. /\ OnSide(FloatSide(I), I) /\ OnSide(FloatSide(J), J)
          /\ G!F!Times(I, J) = Products(<<FloatSide(I), FloatSide(J)>>, I, J)
      BY <1>2, <3>1, FloatProductsAre
    <3>3. /\ Products(<<FloatSide(I), FloatSide(J)>>, I, J) \in NonEmpty
          /\ Value(Products(<<FloatSide(I), FloatSide(J)>>, I, J)) = Hull(RealProducts(I, J))
      BY <1>2, <3>2, ProductsAreInterval, SidesGiveHull
    <3> QED
      BY <2>0, <3>2, <3>3 DEF Intervals
  <2> QED
    BY <2>2, <2>3, <2>4
<1> QED
  BY <1>1, <1>2 DEF Intervals

-----------------------------------------------------------------------------
(* The loop of binary exponentiation of the floats: its states, the one after *)
(* another, and what its rest returns, g being that of the next             *)
Stage(e) == [n : 0 .. e, y : Numbers, z : Numbers]
After(s, squares, products) ==
  [n |-> s.n \div 2, y |-> G!F!Multiplied(s.n, s.y, s.z, products),
   z |-> IF s.n = 1 THEN s.z ELSE G!F!Square(s.z, squares)]
Carried(g, e, squares, products) ==
  [s \in Stage(e) |-> IF s.n = 0 THEN s.y ELSE g[After(s, squares, products)]]

Upward == {"up", "down"}

(* What the loop multiplies, on the doubles.                                *)
LEMMA SquaresAre ==
  /\ \A z : G!F!Square(z, "up") = MulUp(z, z)
  /\ \A z : G!F!Square(z, "down") = MulUp(z, Opposite(z))
  /\ \A n, y, z : G!F!Multiplied(n, y, z, "up") = IF n % 2 = 1 THEN MulUp(y, z) ELSE y
  /\ \A n, y, z : G!F!Multiplied(n, y, z, "down") = IF n % 2 = 1 THEN Opposite(MulUp(y, z)) ELSE y
<1>1. \A z : G!F!Square(z, "up") = MulUp(z, z)
  BY FloatsAreDoubles DEF G!F!Square
<1>2. \A z : G!F!Square(z, "down") = MulUp(z, Opposite(z))
  BY FloatsAreDoubles DEF G!F!Square
<1>3. \A n, y, z : G!F!Multiplied(n, y, z, "up") = IF n % 2 = 1 THEN MulUp(y, z) ELSE y
  BY FloatsAreDoubles DEF G!F!Multiplied, G!F!odd
<1>4. \A n, y, z : G!F!Multiplied(n, y, z, "down") = IF n % 2 = 1 THEN Opposite(MulUp(y, z)) ELSE y
  BY FloatsAreDoubles DEF G!F!Multiplied, G!F!odd
<1> QED
  BY <1>1, <1>2, <1>3, <1>4

(* A state of the loop is followed by another, of a lesser exponent.         *)
LEMMA StageIsFollowed ==
  ASSUME NEW e \in Nat, NEW s \in Stage(e), s.n # 0, NEW q \in Upward, NEW p \in Upward
  PROVE  /\ After(s, q, p).n = s.n \div 2 /\ s.n \div 2 < s.n /\ s.n \div 2 \in Nat
         /\ \A k \in Nat : s.n <= k + 1 => After(s, q, p) \in Stage(k)
<1>1. s.n \in Nat /\ s.n >= 1 /\ s.y \in Numbers /\ s.z \in Numbers
  BY DEF Stage
<1>2. s.n \div 2 \in Nat /\ s.n \div 2 < s.n
  BY <1>1
<1>3. Opposite(s.z) \in Numbers
  BY <1>1, NumbersAre
<1>4. G!F!Multiplied(s.n, s.y, s.z, p) \in Numbers
  <2>1. MulUp(s.y, s.z) \in Numbers /\ Opposite(MulUp(s.y, s.z)) \in Numbers
    BY <1>1, NumbersAre
  <2> QED
    BY <1>1, <2>1, SquaresAre DEF Upward
<1>5. G!F!Square(s.z, q) \in Numbers
  <2>1. MulUp(s.z, s.z) \in Numbers /\ MulUp(s.z, Opposite(s.z)) \in Numbers
    BY <1>1, <1>3, NumbersAre
  <2> QED
    BY <2>1, SquaresAre DEF Upward
<1>6. \A k \in Nat : s.n <= k + 1 => s.n \div 2 \in 0 .. k
  BY <1>1, <1>2
<1> QED
  BY <1>1, <1>2, <1>4, <1>5, <1>6 DEF After, Stage

(* The loop returns something from each of its states.                      *)
LEMMA LoopIsFunction ==
  ASSUME NEW e \in Nat, NEW q \in Upward, NEW p \in Upward
  PROVE  \E f : f = Carried(f, e, q, p)
<1> DEFINE Bad == {k \in Nat : ~\E f : f = Carried(f, k, q, p)}
<1> SUFFICES ASSUME Bad # {} PROVE FALSE
  OBVIOUS
<1>1. PICK m \in Bad : \A k \in Bad : m <= k
  <2>1. Bad \subseteq Nat
    OBVIOUS
  <2> HIDE DEF Bad
  <2> QED
    BY <2>1, LeastNatural
<1>2. m \in Nat /\ ~\E f : f = Carried(f, m, q, p)
  BY <1>1
<1>3. CASE m = 0
  <2> DEFINE f == [s \in Stage(0) |-> s.y]
  <2>1. \A s \in Stage(0) : s.n = 0
    BY DEF Stage
  <2>2. f = Carried(f, 0, q, p)
    BY <2>1 DEF Carried
  <2> QED
    BY <1>2, <1>3, <2>2
<1>4. CASE m # 0
  <2>1. m - 1 \in Nat
    BY <1>2, <1>4
  <2>2. m - 1 \notin Bad
    BY <1>1, <1>2, <2>1
  <2>3. PICK g : g = Carried(g, m - 1, q, p)
    BY <2>1, <2>2
  <2> DEFINE f == [s \in Stage(m) |-> IF s.n = 0 THEN s.y ELSE g[After(s, q, p)]]
  <2>4. \A s \in Stage(m - 1) : s \in Stage(m) /\ g[s] = f[s]
    <3>1. \A s \in Stage(m - 1) : s \in Stage(m)
      BY <1>2, <2>1 DEF Stage
    <3>2. \A s \in Stage(m - 1) : g[s] = IF s.n = 0 THEN s.y ELSE g[After(s, q, p)]
      BY <2>3 DEF Carried
    <3> QED
      BY <3>1, <3>2
  <2>5. \A s \in Stage(m) : s.n # 0 => f[After(s, q, p)] = g[After(s, q, p)]
    <3> SUFFICES ASSUME NEW s \in Stage(m), s.n # 0 PROVE f[After(s, q, p)] = g[After(s, q, p)]
      OBVIOUS
    <3>1. s.n \in Nat /\ s.n <= (m - 1) + 1
      BY <1>2 DEF Stage
    <3>2. After(s, q, p) \in Stage(m - 1)
      BY <1>2, <2>1, <3>1, StageIsFollowed
    <3> HIDE DEF f
    <3> QED
      BY <2>4, <3>2
  <2>6. f = Carried(f, m, q, p)
    <3>1. Carried(f, m, q, p) = [s \in Stage(m) |-> IF s.n = 0 THEN s.y ELSE f[After(s, q, p)]]
      BY DEF Carried
    <3> DEFINE h(s) == f[After(s, q, p)]
               k(s) == g[After(s, q, p)]
    <3>2. \A s \in Stage(m) : s.n # 0 => h(s) = k(s)
      BY <2>5
    <3>3. f = [s \in Stage(m) |-> IF s.n = 0 THEN s.y ELSE k(s)]
      OBVIOUS
    <3>4. Carried(f, m, q, p) = [s \in Stage(m) |-> IF s.n = 0 THEN s.y ELSE h(s)]
      BY <3>1
    <3> HIDE DEF f, h, k
    <3> QED
      BY <3>2, <3>3, <3>4
  <2> QED
    BY <1>2, <2>6
<1> QED
  BY <1>3, <1>4

(* BinaryPower() is what the loop returns from its first state.              *)
LEMMA PowerIsLoop ==
  ASSUME NEW e \in Nat, NEW q \in Upward, NEW p \in Upward
  PROVE  \E f : /\ f = Carried(f, e, q, p)
                /\ \A z : G!F!BinaryPower(z, e, q, p) = f[[n |-> e, y |-> OfNum(One), z |-> z]]
<1> DEFINE f == CHOOSE power : power = Carried(power, e, q, p)
<1>1. f = Carried(f, e, q, p)
  BY LoopIsFunction, Zenon
<1>2. f = CHOOSE power : power =
            [s \in [n : 0 .. e, y : G!F!Doubles \union {G!F!NaN}, z : G!F!Doubles \union {G!F!NaN}] |->
              IF s.n = 0 THEN s.y
              ELSE power[[n |-> s.n \div 2, y |-> G!F!Multiplied(s.n, s.y, s.z, p),
                          z |-> IF s.n = 1 THEN s.z ELSE G!F!Square(s.z, q)]]]
  <2>1. Numbers = G!F!Doubles \union {G!F!NaN}
    BY FloatsAreDoubles DEF Numbers
  <2> QED
    BY <2>1, Zenon DEF Carried, Stage, After
<1>3. \A z : G!F!BinaryPower(z, e, q, p) = f[[n |-> e, y |-> OfNum(One), z |-> z]]
  <2> HIDE DEF f
  <2>1. \A v : G!F!OfNum(v) = OfNum(v)
    BY FloatsAreDoubles
  <2> QED
    BY <1>2, <2>1, Zenon DEF G!F!BinaryPower
<1> QED
  BY <1>1, <1>3

(* A state of the loop that rounds upward, of a number that is not negative   *)
Rising(s) ==
  /\ s.y \in Doubles /\ s.z \in Doubles
  /\ \/ Num(s.y) > 0 /\ Num(s.z) > 0
     \/ Num(s.y) >= 0 /\ ~IsInf(s.y) /\ Num(s.z) = 0

(* A state of the loop of a left bound, beside one of a right bound           *)
Beside(s, t) ==
  /\ s.n = t.n
  /\ s.y \in Doubles /\ s.z \in Doubles /\ ~IsInf(s.y) /\ ~IsInf(s.z)
  /\ t.y \in Doubles /\ t.z \in Doubles /\ Num(t.y) > 0 /\ Num(t.z) > 0
  /\ Num(s.y) >= 0 /\ Num(s.y) <= Num(t.y)
  /\ Num(s.z) <= 0 /\ -Num(s.z) <= Num(t.z)

(* The loops remain in such states.                                          *)
LEMMA RisingIsKept ==
  ASSUME NEW e \in Nat, NEW s \in Stage(e), s.n # 0, Rising(s)
  PROVE  Rising(After(s, "up", "up"))
<1> DEFINE y == IF s.n % 2 = 1 THEN MulUp(s.y, s.z) ELSE s.y
           z == IF s.n = 1 THEN s.z ELSE MulUp(s.z, s.z)
<1>1. After(s, "up", "up") = [n |-> s.n \div 2, y |-> y, z |-> z]
  BY SquaresAre, Zenon DEF After
<1>2. s.y \in Doubles /\ s.z \in Doubles /\ Num(s.y) \in Int /\ Num(s.z) \in Int
  BY NumOfMagnitude DEF Rising
<1>3. CASE Num(s.y) > 0 /\ Num(s.z) > 0
  <2>1. MulUp(s.y, s.z) \in Doubles /\ Num(MulUp(s.y, s.z)) > 0
    BY <1>2, <1>3, ProductOfPositive
  <2>2. MulUp(s.z, s.z) \in Doubles /\ Num(MulUp(s.z, s.z)) > 0
    BY <1>2, <1>3, ProductOfPositive
  <2>3. y \in Doubles /\ z \in Doubles /\ Num(y) > 0 /\ Num(z) > 0
    BY <1>2, <1>3, <2>1, <2>2
  <2> HIDE DEF y, z
  <2> QED
    BY <1>1, <2>3 DEF Rising
<1>4. CASE Num(s.y) >= 0 /\ ~IsInf(s.y) /\ Num(s.z) = 0
  <2>0. ~IsInf(s.z)
    BY <1>2, <1>4, InfinityIs, LargestMagnitude
  <2>1. /\ MulUp(s.y, s.z) \in Doubles /\ ~IsInf(MulUp(s.y, s.z)) /\ Num(MulUp(s.y, s.z)) = 0
        /\ MulUp(s.z, s.z) \in Doubles /\ Num(MulUp(s.z, s.z)) = 0
    BY <1>2, <1>4, <2>0, ProductWithZero
  <2>2. y \in Doubles /\ ~IsInf(y) /\ Num(y) >= 0
    BY <1>2, <1>4, <2>1
  <2>3. z \in Doubles /\ Num(z) = 0
    BY <1>2, <1>4, <2>0, <2>1
  <2> HIDE DEF y, z
  <2> QED
    BY <1>1, <2>2, <2>3 DEF Rising
<1> QED
  BY <1>3, <1>4 DEF Rising

(* A step of a power keeps the factors beside 0, on the sides they were on.   *)
LEMMA BesideIsKept ==
  ASSUME NEW e \in Nat, NEW s \in Stage(e), NEW t \in Stage(e), s.n # 0, Beside(s, t)
  PROVE  Beside(After(s, "down", "down"), After(t, "up", "up"))
<1> DEFINE y == IF s.n % 2 = 1 THEN Opposite(MulUp(s.y, s.z)) ELSE s.y
           z == IF s.n = 1 THEN s.z ELSE MulUp(s.z, Opposite(s.z))
           v == IF s.n % 2 = 1 THEN MulUp(t.y, t.z) ELSE t.y
           w == IF s.n = 1 THEN t.z ELSE MulUp(t.z, t.z)
<1>1. /\ After(s, "down", "down") = [n |-> s.n \div 2, y |-> y, z |-> z]
      /\ After(t, "up", "up") = [n |-> s.n \div 2, y |-> v, z |-> w]
  <2>1. t.n = s.n
    BY DEF Beside
  <2> QED
    BY <2>1, SquaresAre, Zenon DEF After
<1> DEFINE a == Num(s.y)
           b == Num(s.z)
           c == Num(t.y)
           d == Num(t.z)
<1>2. /\ s.y \in Doubles /\ s.z \in Doubles /\ ~IsInf(s.y) /\ ~IsInf(s.z)
      /\ t.y \in Doubles /\ t.z \in Doubles
      /\ a \in Int /\ b \in Int /\ c \in Int /\ d \in Int
      /\ c > 0 /\ d > 0 /\ a >= 0 /\ a <= c /\ b <= 0 /\ -b <= d
  BY NumOfMagnitude DEF Beside
<1>3. /\ Opposite(s.z) \in Doubles /\ ~IsInf(Opposite(s.z)) /\ Num(Opposite(s.z)) = -b
  BY <1>2, OppositeIsDouble DEF IsInf
<1>4. /\ a * b <= 0 /\ a * b \in Int /\ c * d \in Int /\ -(a * b) <= c * d
      /\ b * (-b) <= 0 /\ b * (-b) \in Int /\ d * d \in Int /\ -(b * (-b)) <= d * d
  <2> HIDE DEF a, b, c, d
  <2>1. a \in Nat /\ -b \in Nat /\ c \in Nat /\ d \in Nat
    BY <1>2
  <2>2. a * (-b) <= c * d /\ (-b) * (-b) <= d * d
    BY <1>2, <2>1, ProductsGrow
  <2>3. /\ a * (-b) = -(a * b) /\ a * b \in Int /\ c * d \in Int /\ a * b <= 0
        /\ b * (-b) = -(b * b) /\ (-b) * (-b) = b * b /\ b * b \in Int /\ b * b >= 0 /\ d * d \in Int
    BY <1>2, SignsMultiply
  <2> QED
    BY <2>2, <2>3
<1>5. /\ MulUp(s.y, s.z) \in Doubles /\ ~IsInf(MulUp(s.y, s.z))
      /\ Num(MulUp(s.y, s.z)) \in Int /\ Num(MulUp(s.y, s.z)) <= 0
      /\ -Num(MulUp(s.y, s.z)) <= Num(MulUp(t.y, t.z))
  BY <1>2, <1>4, ProductsAreBeside
<1>6. /\ MulUp(s.z, Opposite(s.z)) \in Doubles /\ ~IsInf(MulUp(s.z, Opposite(s.z)))
      /\ Num(MulUp(s.z, Opposite(s.z))) \in Int /\ Num(MulUp(s.z, Opposite(s.z))) <= 0
      /\ -Num(MulUp(s.z, Opposite(s.z))) <= Num(MulUp(t.z, t.z))
  BY <1>2, <1>3, <1>4, ProductsAreBeside
<1>7. /\ MulUp(t.y, t.z) \in Doubles /\ Num(MulUp(t.y, t.z)) > 0
      /\ MulUp(t.z, t.z) \in Doubles /\ Num(MulUp(t.z, t.z)) > 0
  BY <1>2, ProductOfPositive
<1>8. LET r == Opposite(MulUp(s.y, s.z)) IN
      r \in Doubles /\ ~IsInf(r) /\ Num(r) = -Num(MulUp(s.y, s.z))
  BY <1>5, OppositeIsDouble DEF IsInf
<1>9. /\ y \in Doubles /\ ~IsInf(y) /\ v \in Doubles /\ Num(v) > 0
      /\ Num(y) >= 0 /\ Num(y) <= Num(v)
  <2>1. CASE s.n % 2 = 1
    BY <1>5, <1>7, <1>8, <2>1
  <2>2. CASE s.n % 2 # 1
    BY <1>2, <2>2
  <2> QED
    BY <2>1, <2>2
<1>10. /\ z \in Doubles /\ ~IsInf(z) /\ w \in Doubles /\ Num(w) > 0
       /\ Num(z) <= 0 /\ -Num(z) <= Num(w)
  <2>1. CASE s.n = 1
    BY <1>2, <2>1
  <2>2. CASE s.n # 1
    BY <1>6, <1>7, <2>2
  <2> QED
    BY <2>1, <2>2
<1> HIDE DEF y, z, v, w
<1> QED
  BY <1>1, <1>9, <1>10 DEF Beside

(* What the loops return from them.                                          *)
LEMMA RisingReturns ==
  ASSUME NEW e \in Nat, NEW f, f = Carried(f, e, "up", "up")
  PROVE  \A s \in Stage(e) : Rising(s) => f[s] \in Doubles /\ Num(f[s]) >= 0
<1> DEFINE Bad == {k \in 0 .. e : \E s \in Stage(e) : /\ s.n = k /\ Rising(s)
                                                     /\ ~(f[s] \in Doubles /\ Num(f[s]) >= 0)}
<1>0. \A s \in Stage(e) : s.n \in 0 .. e
  BY DEF Stage
<1> SUFFICES ASSUME Bad # {} PROVE FALSE
  BY <1>0
<1>1. PICK m \in Bad : \A k \in Bad : m <= k
  <2>1. Bad \subseteq Nat
    OBVIOUS
  <2> HIDE DEF Bad
  <2> QED
    BY <2>1, LeastNatural
<1>2. PICK s \in Stage(e) : s.n = m /\ Rising(s) /\ ~(f[s] \in Doubles /\ Num(f[s]) >= 0)
  BY <1>1
<1>3. f[s] = IF s.n = 0 THEN s.y ELSE f[After(s, "up", "up")]
  BY DEF Carried
<1>4. CASE s.n = 0
  <2>1. s.y \in Doubles /\ Num(s.y) >= 0
    BY <1>2, NumOfMagnitude DEF Rising
  <2> QED
    BY <1>2, <1>3, <1>4, <2>1
<1>5. CASE s.n # 0
  <2> DEFINE t == After(s, "up", "up")
  <2>1. s.n <= e + 1 /\ s.n \in Nat
    BY DEF Stage
  <2>2. t \in Stage(e) /\ t.n < s.n /\ t.n \in Nat
    BY <1>5, <2>1, StageIsFollowed DEF Upward
  <2>3. Rising(t)
    BY <1>2, <1>5, RisingIsKept
  <2>4. ~(f[t] \in Doubles /\ Num(f[t]) >= 0)
    BY <1>2, <1>3, <1>5
  <2> HIDE DEF t
  <2>5. t.n \in Bad
    BY <1>0, <2>2, <2>3, <2>4
  <2> QED
    BY <1>1, <1>2, <2>1, <2>2, <2>5
<1> QED
  BY <1>4, <1>5

(* And so does the whole of it.                                              *)
LEMMA BesideReturn ==
  ASSUME NEW e \in Nat, NEW f, f = Carried(f, e, "down", "down"),
         NEW g, g = Carried(g, e, "up", "up")
  PROVE  \A s, t \in Stage(e) :
           Beside(s, t) => /\ f[s] \in Doubles /\ ~IsInf(f[s])
                           /\ Num(f[s]) >= 0 /\ Num(f[s]) <= Num(g[t])
<1> DEFINE Good(s, t) == /\ f[s] \in Doubles /\ ~IsInf(f[s])
                         /\ Num(f[s]) >= 0 /\ Num(f[s]) <= Num(g[t])
           Bad == {k \in 0 .. e : \E s, t \in Stage(e) : s.n = k /\ Beside(s, t) /\ ~Good(s, t)}
<1>0. \A s \in Stage(e) : s.n \in 0 .. e
  BY DEF Stage
<1> SUFFICES ASSUME Bad # {} PROVE FALSE
  BY <1>0
<1>1. PICK m \in Bad : \A k \in Bad : m <= k
  <2>1. Bad \subseteq Nat
    OBVIOUS
  <2> HIDE DEF Bad
  <2> QED
    BY <2>1, LeastNatural
<1>2. PICK s \in Stage(e), t \in Stage(e) : s.n = m /\ Beside(s, t) /\ ~Good(s, t)
  BY <1>1
<1>3. /\ f[s] = IF s.n = 0 THEN s.y ELSE f[After(s, "down", "down")]
      /\ g[t] = IF t.n = 0 THEN t.y ELSE g[After(t, "up", "up")]
  <2>1. f[s] = IF s.n = 0 THEN s.y ELSE f[After(s, "down", "down")]
    BY DEF Carried
  <2>2. g[t] = IF t.n = 0 THEN t.y ELSE g[After(t, "up", "up")]
    BY DEF Carried
  <2> QED
    BY <2>1, <2>2
<1>4. s.n = t.n
  BY <1>2 DEF Beside
<1>5. CASE s.n = 0
  <2>1. f[s] = s.y /\ g[t] = t.y
    BY <1>3, <1>4, <1>5
  <2> QED
    BY <1>2, <2>1 DEF Beside
<1>6. CASE s.n # 0
  <2> DEFINE u == After(s, "down", "down")
             v == After(t, "up", "up")
  <2>1. s.n <= e + 1 /\ s.n \in Nat
    BY DEF Stage
  <2>2. u \in Stage(e) /\ u.n < s.n /\ u.n \in Nat
    BY <1>6, <2>1, StageIsFollowed DEF Upward
  <2>3. v \in Stage(e)
    BY <1>4, <1>6, <2>1, StageIsFollowed DEF Upward
  <2>4. Beside(u, v)
    BY <1>2, <1>6, BesideIsKept
  <2>5. f[s] = f[u] /\ g[t] = g[v]
    BY <1>3, <1>4, <1>6
  <2> HIDE DEF u, v
  <2>6. ~Good(u, v)
    BY <1>2, <2>5
  <2> HIDE DEF Good
  <2>7. u.n \in Bad
    BY <1>0, <2>2, <2>3, <2>4, <2>6
  <2> QED
    BY <1>1, <1>2, <2>1, <2>2, <2>7
<1> QED
  BY <1>5, <1>6

(* PowerUp() of a number that is not negative is not negative, and PowerDn()  *)
(* of the left bound of an interval above 0 is at most PowerUp() of the right *)
(* one.                                                                      *)
LEMMA PowersOfBounds ==
  ASSUME NEW e \in Nat
  PROVE  /\ \A x \in Doubles : Num(x) >= 0 =>
              G!F!PowerUp(x, e) \in Doubles /\ Num(G!F!PowerUp(x, e)) >= 0
         /\ \A x, w \in Doubles : ~IsInf(x) /\ Num(x) <= 0 /\ Num(w) > 0 /\ -Num(x) <= Num(w) =>
              /\ G!F!PowerDn(x, e) \in Doubles /\ ~IsInf(G!F!PowerDn(x, e))
              /\ Num(G!F!PowerDn(x, e)) >= 0
              /\ Num(G!F!PowerDn(x, e)) <= Num(G!F!PowerUp(w, e))
<1> DEFINE start(z) == [n |-> e, y |-> OfNum(One), z |-> z]
<1>1. PICK f : /\ f = Carried(f, e, "down", "down")
               /\ \A z : G!F!BinaryPower(z, e, "down", "down") = f[start(z)]
  BY PowerIsLoop, Zenon DEF Upward
<1>2. PICK g : /\ g = Carried(g, e, "up", "up")
               /\ \A z : G!F!BinaryPower(z, e, "up", "up") = g[start(z)]
  BY PowerIsLoop, Zenon DEF Upward
<1>3. \A z : G!F!PowerDn(z, e) = f[start(z)] /\ G!F!PowerUp(z, e) = g[start(z)]
  BY <1>1, <1>2, Zenon DEF G!F!PowerDn, G!F!PowerUp
<1>4. /\ OfNum(One) \in Doubles /\ Num(OfNum(One)) = One /\ ~IsInf(OfNum(One))
      /\ One \in Nat /\ One >= 1 /\ One <= Largest /\ Largest \in Nat
  BY UnitIs, EndsAre, LargestMagnitude, MagnitudesAssumption, InfinityIs
<1>5. \A z \in Doubles : start(z) \in Stage(e) /\ Num(z) \in Int
  BY <1>4, NumOfMagnitude DEF Stage, Numbers
<1>6. ASSUME NEW x \in Doubles, Num(x) >= 0
      PROVE  G!F!PowerUp(x, e) \in Doubles /\ Num(G!F!PowerUp(x, e)) >= 0
  <2>1. Rising(start(x))
    <3>1. start(x).y = OfNum(One) /\ start(x).z = x
      OBVIOUS
    <3> HIDE DEF start
    <3>2. Num(x) > 0 \/ Num(x) = 0
      BY <1>6, NumOfMagnitude
    <3> QED
      BY <1>4, <3>1, <3>2 DEF Rising
  <2>2. start(x) \in Stage(e) /\ G!F!PowerUp(x, e) = g[start(x)]
    BY <1>3, <1>5
  <2> HIDE DEF start
  <2> QED
    BY <1>2, <2>1, <2>2, RisingReturns
<1>7. ASSUME NEW x \in Doubles, NEW w \in Doubles,
             ~IsInf(x), Num(x) <= 0, Num(w) > 0, -Num(x) <= Num(w)
      PROVE  /\ G!F!PowerDn(x, e) \in Doubles /\ ~IsInf(G!F!PowerDn(x, e))
             /\ Num(G!F!PowerDn(x, e)) >= 0
             /\ Num(G!F!PowerDn(x, e)) <= Num(G!F!PowerUp(w, e))
  <2>1. Beside(start(x), start(w))
    BY <1>4, <1>5, <1>7 DEF Beside
  <2>2. /\ start(x) \in Stage(e) /\ G!F!PowerDn(x, e) = f[start(x)]
        /\ start(w) \in Stage(e) /\ G!F!PowerUp(w, e) = g[start(w)]
    BY <1>3, <1>5
  <2> HIDE DEF start
  <2> QED
    BY <1>1, <1>2, <2>1, <2>2, BesideReturn
<1> QED
  BY <1>6, <1>7

(* The constants of intervals of floats are intervals.                       *)
LEMMA FloatConstantsAre ==
  /\ universe \in NonEmpty
  /\ G!F!one \in NonEmpty
<1>1. universe \in NonEmpty
  <2>1. universe = Bounds(Infinity, Infinity)
    BY DEF universe
  <2>2. Infinity \in Ends /\ Num(Infinity) >= 0 /\ Num(Infinity) \in Int
    BY EndsAre, InfinityIs, LargestMagnitude
  <2> QED
    BY <2>1, <2>2 DEF NonEmpty, Bounds
<1>2. G!F!one \in NonEmpty
  <2>1. G!F!one = Bounds(OfNum(-One), OfNum(One))
    BY UnitIs, FloatBoundsAre, FloatsAreDoubles DEF G!F!one, G!F!intervalf
  <2>2. One \in Nat
    BY LargestMagnitude
  <2> QED
    BY <2>1, <2>2, UnitIs DEF NonEmpty, Bounds
<1> QED
  BY <1>1, <1>2

(* pow() of an interval of floats is one, and of the empty set is empty.     *)
LEMMA FloatPowerIsInterval ==
  ASSUME NEW I \in Intervals, NEW n \in Nat
  PROVE  /\ G!F!pow(I, n) \in Intervals
         /\ I \in NonEmpty => G!F!pow(I, n) \in NonEmpty
<1>0. \A x \in Doubles : Num(x) = 0 => Opposite(x) \in Doubles /\ Num(Opposite(x)) = 0
  BY OppositeIsDouble
<1>1. CASE I = emptyset
  <2>1. G!F!is_empty(I)
    BY <1>1, EmptySetIs, FloatBoundsAre
  <2>2. G!F!pow(I, n) = I
    BY <2>1, Zenon DEF G!F!pow
  <2>3. I \notin NonEmpty
    BY <1>1, EmptySetIs, NonEmptyIs
  <2> QED
    BY <2>2, <2>3
<1>2. CASE I \in NonEmpty
  <2>0. ~G!F!is_empty(I)
    BY <1>2, NonEmptyIs, FloatBoundsAre
  <2>1. CASE n = 0
    <3>1. G!F!pow(I, n) = G!F!one
      BY <2>0, <2>1 DEF G!F!pow
    <3> QED
      BY <3>1, FloatConstantsAre DEF Intervals
  <2>2. CASE n # 0
    <3>1. G!F!pow(I, n) = G!F!uipow(I, n)
      <4>1. G!F!pow(I, n) = G!F!InvertedIf(n < 0, G!F!uipow(I, IF n < 0 THEN -n ELSE n))
        BY <2>0, <2>2, Zenon DEF G!F!pow
      <4>2. ~(n < 0)
        OBVIOUS
      <4> QED
        BY <4>1, <4>2, Zenon DEF G!F!InvertedIf
    <3>2. /\ I.lb \in Doubles /\ I.rb \in Doubles /\ I.lb \in Ends /\ I.rb \in Ends
          /\ Num(I.lb) \in Int /\ Num(I.rb) \in Int /\ Num(I.lb) + Num(I.rb) >= 0
      BY <1>2, NonEmptyIs
    <3>3. \A x \in Doubles : G!F!negative(x) <=> Num(x) < 0
      <4> SUFFICES ASSUME NEW x \in Doubles PROVE G!F!negative(x) <=> Num(x) < 0
        OBVIOUS
      <4>1. x # NaN /\ Zero(FALSE) # NaN /\ Num(Zero(FALSE)) = 0
        BY FiniteOrInfinite, EndsAre
      <4>2. G!F!negative(x) <=> Lt(x, Zero(FALSE))
        BY FloatsAreDoubles DEF G!F!negative
      <4> QED
        BY <4>1, <4>2 DEF Lt
    <3>4. \A l, r : G!F!intervalf(l, r) = Bounds(Opposite(l), r) /\ G!F!Bounds(l, r) = Bounds(l, r)
      BY FloatBoundsAre
    <3>5. /\ \A x \in Doubles : Num(x) >= 0 => G!F!PowerUp(x, n) \in Ends /\ Num(G!F!PowerUp(x, n)) >= 0
          /\ \A x \in Doubles : Num(x) \in Int
      <4>1. \A x \in Doubles : Num(x) >= 0 => x \in Ends
        BY EndsAre, InfinityIs, LargestMagnitude
      <4> QED
        BY <4>1, PowersOfBounds, NumOfMagnitude
    <3>6. ASSUME NEW K \in NonEmpty, Num(K.lb) < 0
          PROVE  G!F!uipow_dnup(K, n) \in NonEmpty
      <4>1. /\ K.lb \in Doubles /\ K.rb \in Doubles /\ ~IsInf(K.lb) /\ Num(K.lb) \in Int
            /\ Num(K.rb) \in Int /\ Num(K.rb) > 0 /\ -Num(K.lb) <= Num(K.rb)
        BY <3>6, NonEmptyIs
      <4> DEFINE d == G!F!PowerDn(K.lb, n)
                 u == G!F!PowerUp(K.rb, n)
      <4>2. d \in Doubles /\ ~IsInf(d) /\ Num(d) >= 0 /\ Num(d) <= Num(u)
        <5>1. Num(K.lb) <= 0
          BY <3>6, <4>1
        <5> QED
          BY <4>1, <5>1, PowersOfBounds
      <4>3. u \in Ends /\ Num(u) \in Int
        BY <3>5, <4>1, EndsAre
      <4>4. G!F!uipow_dnup(K, n) = Bounds(Opposite(d), u)
        BY <3>4 DEF G!F!uipow_dnup
      <4> HIDE DEF d, u
      <4>5. Opposite(d) \in Ends /\ Num(Opposite(d)) = -Num(d) /\ Num(d) \in Int
        <5>1. Opposite(d) \in Doubles /\ ~IsInf(Opposite(d)) /\ Num(Opposite(d)) = -Num(d)
          BY <4>2, OppositeIsDouble DEF IsInf
        <5> QED
          BY <4>2, <5>1, EndsAre, NumOfMagnitude
      <4> QED
        BY <4>2, <4>3, <4>4, <4>5 DEF NonEmpty, Bounds
    <3>7. CASE Num(I.lb) >= 0 /\ Num(I.rb) >= 0
      <4> DEFINE l == G!F!PowerUp(I.lb, n)
                 u == G!F!PowerUp(I.rb, n)
                 r == Bounds(l, u)
      <4>1. l \in Ends /\ u \in Ends /\ Num(l) >= 0 /\ Num(u) >= 0 /\ Num(l) \in Int /\ Num(u) \in Int
        BY <3>2, <3>5, <3>7, EndsAre
      <4>2. G!F!uipow(I, n) = G!F!AroundZero(r, n)
        <5>1. ~G!F!negative(I.lb) /\ ~G!F!negative(I.rb)
          BY <3>2, <3>3, <3>7
        <5>2. G!F!uipow_upup(I, n) = r
          BY <3>4 DEF G!F!uipow_upup
        <5> HIDE DEF r
        <5> QED
          BY <5>1, <5>2 DEF G!F!uipow
      <4>3. r \in NonEmpty
        BY <4>1 DEF NonEmpty, Bounds
      <4>4. \/ G!F!AroundZero(r, n) = r
            \/ G!F!AroundZero(r, n) = Bounds(Opposite(Zero(FALSE)), u)
            \/ G!F!AroundZero(r, n) = Bounds(Opposite(Zero(FALSE)), l)
        <5>1. r.lb = l /\ r.rb = u
          BY DEF Bounds
        <5>2. G!F!Zero(FALSE) = Zero(FALSE)
          BY FloatsAreDoubles
        <5> HIDE DEF r
        <5> QED
          BY <3>4, <5>1, <5>2 DEF G!F!AroundZero
      <4> HIDE DEF l, u
      <4>5. Opposite(Zero(FALSE)) \in Ends /\ Num(Opposite(Zero(FALSE))) = 0
        <5>1. Zero(FALSE) \in Doubles /\ Num(Zero(FALSE)) = 0
          BY EndsAre
        <5>2. PICK z \in Doubles : z = Zero(FALSE) /\ Num(z) = 0
          BY <5>1
        <5>3. Opposite(z) \in Doubles /\ Num(Opposite(z)) = 0
          BY <1>0, <5>2
        <5>4. Opposite(z) \in Ends
          BY <3>5, <5>3, EndsAre, InfinityIs, LargestMagnitude
        <5> QED
          BY <5>2, <5>3, <5>4
      <4>6. Bounds(Opposite(Zero(FALSE)), u) \in NonEmpty /\ Bounds(Opposite(Zero(FALSE)), l) \in NonEmpty
        <5>1. ASSUME NEW w \in Ends, Num(w) = 0 PROVE Bounds(w, u) \in NonEmpty /\ Bounds(w, l) \in NonEmpty
          BY <4>1, <5>1 DEF NonEmpty, Bounds
        <5> QED
          BY <4>5, <5>1
      <4> QED
        BY <3>1, <4>2, <4>3, <4>4, <4>6 DEF Intervals
    <3>8. CASE Num(I.lb) < 0
      <4>1. G!F!negative(I.lb) /\ ~G!F!negative(I.rb)
        BY <3>2, <3>3, <3>8
      <4>2. G!F!uipow(I, n) = G!F!uipow_dnup(I, n)
        BY <4>1 DEF G!F!uipow
      <4> QED
        BY <1>2, <3>1, <3>6, <3>8, <4>2 DEF Intervals
    <3>9. CASE Num(I.rb) < 0
      <4>1. ~G!F!negative(I.lb) /\ G!F!negative(I.rb)
        BY <3>2, <3>3, <3>9
      <4> DEFINE K == Minus(I)
                 r == G!F!uipow_dnup(K, n)
      <4>2. K.lb = I.rb /\ K.rb = I.lb /\ K \in NonEmpty
        <5>1. K = Bounds(I.rb, I.lb)
          BY DEF Minus
        <5> QED
          BY <3>2, <5>1 DEF NonEmpty, Bounds
      <4>3. G!F!Opposed(I) = K
        BY FloatOppositeIs
      <4> HIDE DEF K
      <4>4. r \in NonEmpty
        BY <3>6, <3>9, <4>2
      <4>5. G!F!uipow(I, n) = G!F!BelowZero(r, n)
        BY <4>1, <4>3 DEF G!F!uipow
      <4> HIDE DEF r
      <4>6. G!F!Opposed(r) \in NonEmpty
        <5>1. r \in Intervals
          BY <4>4 DEF Intervals
        <5>2. G!F!Opposed(r) = Bounds(r.rb, r.lb)
          BY <5>1, FloatOppositeIs DEF Minus
        <5> QED
          BY <4>4, <5>2, NonEmptyIs DEF NonEmpty, Bounds
      <4>7. G!F!uipow(I, n) \in {r, G!F!Opposed(r)}
        BY <4>5 DEF G!F!BelowZero
      <4> QED
        BY <3>1, <4>4, <4>6, <4>7 DEF Intervals
    <3> QED
      BY <3>2, <3>7, <3>8, <3>9
  <2> QED
    BY <2>1, <2>2
<1> QED
  BY <1>1, <1>2 DEF Intervals

(* Twice the distance of a double of v units to n/2 units                    *)
Off(v, n) == Modulus(2 * v - n)

(* The double nearest to the middle of two numbers is one, and no other is    *)
(* nearer.                                                                   *)
LEMMA NearestMiddle ==
  ASSUME NEW n \in Int, -(2 * Largest) <= n, n <= 2 * Largest
  PROVE  /\ RoundNearest(n, 2) \in Doubles /\ ~IsInf(RoundNearest(n, 2))
         /\ \A v \in FiniteNums : Off(Num(RoundNearest(n, 2)), n) <= Off(v, n)
<1> DEFINE size == IF n < 0 THEN -n ELSE n
           q == size \div 2
           b == FloorOf(q)
           a == NextMagnitude(b)
           r == NearestFrom(size, 2, b)
           t == (2 * size) \div 2
           rest == (2 * size) % 2
           neg == n < 0
<1>1. /\ Largest \in Magnitudes /\ Largest \in Nat /\ Magnitudes \subseteq Nat
      /\ \A k \in Magnitudes : k <= Largest
      /\ Oo = Largest + 1
  BY LargestMagnitude, MagnitudesAssumption DEF Oo
<1>2. size \in Nat /\ size <= 2 * Largest /\ (n < 0 => size = -n) /\ (n >= 0 => size = n)
  BY <1>1
<1>3. RoundNearest(n, 2) = [neg |-> neg, mag |-> r] /\ neg \in BOOLEAN /\ (neg <=> n < 0)
  BY DEF RoundNearest
<1>4. r = IF ~(t > b + a \/ (t = b + a /\ (rest # 0 \/ ~Even(b)))) THEN b
          ELSE IF a > Largest THEN Oo ELSE a
  BY DEF NearestFrom, NearestOf, IsUpper
<1> HIDE DEF size, neg
<1>5. q \in Nat /\ 2 * q <= size /\ size <= 2 * q + 1 /\ t = size
  BY <1>2
<1> HIDE DEF q, t, rest
<1>6. b \in Magnitudes /\ b <= q /\ \A m \in Magnitudes : m <= q => m <= b
  BY <1>5, FloorIs
<1> HIDE DEF b
<1>7. /\ a \in Nat /\ b < a
      /\ b # Largest => a \in Magnitudes /\ \A k \in Magnitudes : b < k => a <= k
  BY <1>6, NextMagnitudeIs
<1> HIDE DEF a, r
<1>8. b = Largest => size = 2 * Largest /\ r = b
  <2> SUFFICES ASSUME b = Largest PROVE size = 2 * Largest /\ r = b
    OBVIOUS
  <2>1. size = 2 * Largest
    BY <1>1, <1>2, <1>5, <1>6
  <2>2. ~(t > b + a) /\ t # b + a
    BY <1>1, <1>5, <1>7, <2>1
  <2> QED
    BY <1>4, <2>1, <2>2
<1>9. b # Largest => /\ a \in Magnitudes /\ a <= Largest
                     /\ (r = b /\ size <= b + a) \/ (r = a /\ size >= b + a)
  <2> SUFFICES ASSUME b # Largest
               PROVE  /\ a \in Magnitudes /\ a <= Largest
                      /\ (r = b /\ size <= b + a) \/ (r = a /\ size >= b + a)
    OBVIOUS
  <2>1. a \in Magnitudes /\ a <= Largest /\ a \in Nat /\ b \in Nat
    BY <1>1, <1>6, <1>7
  <2> QED
    <3>1. r = b \/ r = a
      BY <1>1, <1>4, <2>1
    <3>2. t > b + a => r = a
      BY <1>1, <1>4, <2>1
    <3>3. ~(t > b + a) /\ t # b + a => r = b
      BY <1>4
    <3> QED
      BY <1>2, <1>5, <2>1, <3>1, <3>2, <3>3
<1>10. r \in Magnitudes /\ r \in Nat
  BY <1>1, <1>6, <1>8, <1>9
<1>11. ASSUME NEW v \in Magnitudes
       PROVE  Modulus(2 * r - size) <= Modulus(2 * v - size)
  <2>1. v \in Nat /\ b \in Nat /\ v <= Largest
    BY <1>1, <1>6
  <2>2. CASE b = Largest
    BY <1>2, <1>8, <1>10, <2>1, <2>2 DEF Modulus
  <2>3. CASE b # Largest
    <3>1. v <= b \/ a <= v
      BY <1>6, <1>7, <2>1, <2>3
    <3>2. 2 * b <= size /\ size <= 2 * a
      <4>1. q < a
        BY <1>5, <1>6, <1>7, <1>9, <2>1, <2>3
      <4> QED
        BY <1>2, <1>5, <1>6, <1>7, <2>1, <4>1
    <3> QED
      BY <1>2, <1>7, <1>9, <1>10, <2>1, <2>3, <3>1, <3>2 DEF Modulus
  <2> QED
    BY <2>2, <2>3
<1>12. /\ RoundNearest(n, 2) \in Doubles /\ ~IsInf(RoundNearest(n, 2))
       /\ n < 0 => Num(RoundNearest(n, 2)) = -r
       /\ n >= 0 => Num(RoundNearest(n, 2)) = r
  <2>1. RoundNearest(n, 2) \in Doubles
    BY <1>3, <1>10 DEF Doubles
  <2>2. RoundNearest(n, 2).mag = r /\ r # Oo
    BY <1>1, <1>3, <1>10
  <2>3. /\ n < 0 => Num(RoundNearest(n, 2)) = -r
        /\ n >= 0 => Num(RoundNearest(n, 2)) = r
    BY <1>3 DEF Num
  <2> QED
    BY <2>1, <2>2, <2>3 DEF IsInf
<1>13. ASSUME NEW v \in FiniteNums PROVE Off(Num(RoundNearest(n, 2)), n) <= Off(v, n)
  <2>1. v \in Int /\ (v >= 0 => v \in Magnitudes) /\ (v < 0 => -v \in Magnitudes)
    BY FiniteNumsRange
  <2>2. 0 \in Magnitudes
    BY MagnitudesAssumption
  <2>3. CASE n >= 0
    <3>1. size = n /\ Num(RoundNearest(n, 2)) = r
      BY <1>2, <1>12, <2>3
    <3>2. CASE v >= 0
      BY <1>11, <2>1, <3>1, <3>2 DEF Off
    <3>3. CASE v < 0
      <4>1. Modulus(2 * r - n) <= Modulus(2 * 0 - n)
        BY <1>11, <2>2, <3>1
      <4>2. Modulus(2 * 0 - n) <= Modulus(2 * v - n)
        BY <2>1, <2>3, <3>3 DEF Modulus
      <4>3. Modulus(2 * r - n) \in Int /\ Modulus(2 * 0 - n) \in Int /\ Modulus(2 * v - n) \in Int
        BY <1>10, <2>1 DEF Modulus
      <4> QED
        BY <3>1, <4>1, <4>2, <4>3 DEF Off
    <3> QED
      BY <2>1, <3>2, <3>3
  <2>4. CASE n < 0
    <3>1. size = -n /\ Num(RoundNearest(n, 2)) = -r
      BY <1>2, <1>12, <2>4
    <3>2. \A k \in Int : Modulus(2 * k - (-n)) = Modulus(2 * (-k) - n)
      BY DEF Modulus
    <3>3. CASE v <= 0
      <4>1. -v \in Magnitudes /\ -v \in Int /\ -(-v) = v
        BY <2>1, <2>2, <3>3
      <4>2. Modulus(2 * r - (-n)) <= Modulus(2 * (-v) - (-n))
        BY <1>11, <3>1, <4>1
      <4>3. Modulus(2 * r - (-n)) = Modulus(2 * (-r) - n)
        BY <1>10, <3>2
      <4>4. Modulus(2 * (-v) - (-n)) = Modulus(2 * v - n)
        BY <3>2, <4>1
      <4> QED
        BY <3>1, <4>2, <4>3, <4>4 DEF Off
    <3>4. CASE v > 0
      <4>1. Modulus(2 * r - (-n)) <= Modulus(2 * 0 - (-n))
        BY <1>11, <2>2, <3>1
      <4>2. Modulus(2 * 0 - (-n)) <= Modulus(2 * v - n)
        BY <2>1, <2>4, <3>4 DEF Modulus
      <4>3. Modulus(2 * r - (-n)) = Modulus(2 * (-r) - n)
        BY <1>10, <3>2
      <4>4. /\ Modulus(2 * r - (-n)) \in Int /\ Modulus(2 * 0 - (-n)) \in Int
            /\ Modulus(2 * v - n) \in Int
        BY <1>10, <2>1 DEF Modulus
      <4> QED
        BY <3>1, <4>1, <4>2, <4>3, <4>4 DEF Off
    <3> QED
      BY <2>1, <3>3, <3>4
  <2> QED
    BY <2>3, <2>4
<1> QED
  BY <1>12, <1>13

(* The middle of an interval of floats is a float within it, the nearest to   *)
(* that of the bounds.                                                       *)
LEMMA FloatMiddleIs ==
  ASSUME NEW I \in NonEmpty
  PROVE  /\ G!F!midpoint(I) \in Doubles /\ ~IsInf(G!F!midpoint(I))
         /\ -Num(I.lb) <= Num(G!F!midpoint(I)) /\ Num(G!F!midpoint(I)) <= Num(I.rb)
         /\ Infinity \notin {I.lb, I.rb} =>
              \A v \in FiniteNums : Off(Num(G!F!midpoint(I)), Num(I.rb) - Num(I.lb))
                                      <= Off(v, Num(I.rb) - Num(I.lb))
<1> DEFINE m == G!F!midpoint(I)
           a == Num(I.lb)
           b == Num(I.rb)
<1>1. /\ I.lb \in Doubles /\ I.rb \in Doubles /\ I.lb \in Ends /\ I.rb \in Ends
      /\ a \in Int /\ b \in Int /\ a + b >= 0
      /\ left(I) \in Doubles /\ Num(left(I)) = -a /\ left(I) # NaN /\ right(I) = I.rb
      /\ ~is_empty(I)
  BY NonEmptyIs
<1>2. /\ left(I) = MinusInfinity <=> I.lb = Infinity
      /\ I.lb = Infinity <=> a = Largest + 1
      /\ I.rb = Infinity <=> b = Largest + 1
      /\ -Largest <= a /\ a <= Largest + 1 /\ -Largest <= b /\ b <= Largest + 1
      /\ Largest \in Nat
  BY <1>1, EndsAre, LeftIsInfinite, LargestMagnitude
<1>3. Eq(left(I), Opposite(right(I))) <=> a = b
  <2>1. Opposite(I.rb) \in Doubles /\ Num(Opposite(I.rb)) = -b /\ Opposite(I.rb) # NaN
    BY <1>1, OppositeIsDouble, FiniteOrInfinite
  <2> QED
    BY <1>1, <2>1 DEF Eq
<1>4. m = IF a = b THEN Zero(FALSE)
          ELSE IF I.lb = Infinity THEN OfNum(-Largest)
          ELSE IF I.rb = Infinity THEN OfNum(Largest)
          ELSE RoundNearest(b - a, 2)
  <2> DEFINE e == Eq(left(I), Opposite(right(I)))
             i == left(I) = MinusInfinity
  <2>1. m = IF e THEN Zero(FALSE) ELSE IF i THEN OfNum(-Largest)
            ELSE IF right(I) = Infinity THEN OfNum(Largest)
            ELSE RoundNearest(Num(left(I)) + Num(right(I)), 2)
    <3>1. ~G!F!is_empty(I)
      BY <1>1, FloatBoundsAre
    <3>2. /\ G!F!left(I) = left(I) /\ G!F!right(I) = right(I)
          /\ G!F!MinusInfinity = MinusInfinity /\ G!F!Infinity = Infinity /\ G!F!Largest = Largest
          /\ \A neg : G!F!Zero(neg) = Zero(neg)
          /\ \A v : G!F!OfNum(v) = OfNum(v)
          /\ \A x : G!F!Opposite(x) = Opposite(x)
          /\ \A x : G!F!Num(x) = Num(x)
          /\ \A x, y : G!F!Eq(x, y) = Eq(x, y)
          /\ \A n, d : G!F!RoundNearest(n, d) = RoundNearest(n, d)
      BY FloatBoundsAre, FloatsAreDoubles
    <3> QED
      BY <3>1, <3>2 DEF G!F!midpoint
  <2>2. e <=> a = b
    BY <1>3
  <2>3. i <=> I.lb = Infinity
    BY <1>2
  <2>4. Num(left(I)) + Num(right(I)) = b - a
    BY <1>1
  <2> HIDE DEF e, i, m, a, b
  <2> QED
    BY <1>1, <2>1, <2>2, <2>3, <2>4
<1>5. \A v \in FiniteNums : OfNum(v) \in Doubles /\ Num(OfNum(v)) = v /\ ~IsInf(OfNum(v))
  BY OfNumIsNum, FiniteOrInfinite
<1>6. /\ \A v \in FiniteNums : v \in Int /\ -Largest <= v /\ v <= Largest
      /\ Largest \in FiniteNums /\ -Largest \in FiniteNums
  BY FiniteNumsRange
<1>0. Zero(FALSE) \in Doubles /\ ~IsInf(Zero(FALSE)) /\ Num(Zero(FALSE)) = 0
  <2>1. Zero(FALSE) \in Doubles /\ Num(Zero(FALSE)) = 0
    BY EndsAre
  <2> QED
    BY <2>1, LargestMagnitude DEF Zero, IsInf, Oo
<1> HIDE DEF m
<1>7. CASE a = b
  <2>1. m \in Doubles /\ ~IsInf(m) /\ Num(m) = 0
    <3>1. m = Zero(FALSE)
      BY <1>4, <1>7
    <3> QED
      BY <1>0, <3>1
  <2>2. \A v \in FiniteNums : Off(Num(m), b - a) <= Off(v, b - a)
    BY <1>1, <1>6, <1>7, <2>1 DEF Off, Modulus
  <2> QED
    BY <1>1, <1>7, <2>1, <2>2 DEF m
<1>8. CASE a # b /\ I.lb = Infinity
  <2>1. m \in Doubles /\ ~IsInf(m) /\ Num(m) = -Largest
    BY <1>4, <1>5, <1>6, <1>8
  <2> QED
    BY <1>1, <1>2, <1>8, <2>1 DEF m
<1>9. CASE a # b /\ I.lb # Infinity /\ I.rb = Infinity
  <2>1. m \in Doubles /\ ~IsInf(m) /\ Num(m) = Largest
    BY <1>4, <1>5, <1>6, <1>9
  <2> QED
    BY <1>1, <1>2, <1>9, <2>1 DEF m
<1>10. CASE a # b /\ I.lb # Infinity /\ I.rb # Infinity
  <2>1. m = RoundNearest(b - a, 2)
    BY <1>4, <1>10
  <2>2. b - a \in Int /\ -(2 * Largest) <= b - a /\ b - a <= 2 * Largest
    BY <1>1, <1>2, <1>10
  <2>3. /\ m \in Doubles /\ ~IsInf(m)
        /\ \A v \in FiniteNums : Off(Num(m), b - a) <= Off(v, b - a)
    BY <2>1, <2>2, NearestMiddle
  <2>4. -a \in FiniteNums /\ b \in FiniteNums
    <3>1. ~IsInf(I.lb) /\ ~IsInf(I.rb)
      BY <1>1, <1>10, EndsAre
    <3>2. a \in FiniteNums /\ b \in FiniteNums
      BY <1>1, <3>1, FiniteOrInfinite
    <3> QED
      BY <3>2, FiniteNumsRange
  <2>5. 2 * (-a) <= b - a /\ b - a <= 2 * b
    BY <1>1
  <2>6. /\ \A w \in FiniteNums : /\ b - a <= 2 * w => Num(RoundNearest(b - a, 2)) <= w
                                 /\ 2 * w <= b - a => w <= Num(RoundNearest(b - a, 2))
    BY <2>2, NearestIs
  <2>7. -a <= Num(m) /\ Num(m) <= b
    BY <2>1, <2>4, <2>5, <2>6
  <2> QED
    BY <2>3, <2>7 DEF m
<1> QED
  BY <1>7, <1>8, <1>9, <1>10

(* The parts that split() gives are intervals, whose union is the whole.     *)
LEMMA FloatPartsAre ==
  ASSUME NEW I \in NonEmpty
  PROVE  /\ G!F!split_first(I) \in NonEmpty /\ G!F!split_second(I) \in NonEmpty
         /\ Value(Join(G!F!split_first(I), G!F!split_second(I))) = Value(I)
<1> DEFINE m == G!F!midpoint(I)
           A == Bounds(I.lb, m)
           B == Bounds(Opposite(m), I.rb)
<1>1. /\ m \in Doubles /\ ~IsInf(m) /\ -Num(I.lb) <= Num(m) /\ Num(m) <= Num(I.rb)
      /\ Num(m) \in Int
  BY FloatMiddleIs, NumOfMagnitude
<1>2. /\ I.lb \in Ends /\ I.rb \in Ends /\ I.lb \in Doubles
      /\ Num(I.lb) \in Int /\ Num(I.rb) \in Int /\ I = Bounds(I.lb, I.rb)
  BY NonEmptyIs
<1>3. /\ G!F!split_first(I) = A
      /\ G!F!split_second(I) = B
  <2>1. Opposite(left(I)) = I.lb
    BY <1>2, OppositeTwice DEF left
  <2> HIDE DEF m
  <2> QED
    BY <2>1, FloatBoundsAre DEF G!F!split_first, G!F!split_second, m, right
<1> HIDE DEF m
<1>4. m \in Ends /\ Opposite(m) \in Ends /\ Num(Opposite(m)) = -Num(m)
  <2>1. Opposite(m) \in Doubles /\ ~IsInf(Opposite(m)) /\ Num(Opposite(m)) = -Num(m)
    BY <1>1, OppositeIsDouble DEF IsInf
  <2> QED
    BY <1>1, <2>1, EndsAre
<1>5. /\ A \in NonEmpty /\ A.lb = I.lb /\ A.rb = m
      /\ B \in NonEmpty /\ B.lb = Opposite(m) /\ B.rb = I.rb
  BY <1>1, <1>2, <1>4 DEF NonEmpty, Bounds
<1> HIDE DEF A, B
<1>6. /\ Join(A, B) \in NonEmpty
      /\ Num(Join(A, B).lb) = Num(I.lb) /\ Num(Join(A, B).rb) = Num(I.rb)
  <2>1. /\ Join(A, B) \in NonEmpty
        /\ Num(Join(A, B).lb) = IF Num(A.lb) <= Num(B.lb) THEN Num(B.lb) ELSE Num(A.lb)
        /\ Num(Join(A, B).rb) = IF Num(A.rb) <= Num(B.rb) THEN Num(B.rb) ELSE Num(A.rb)
    BY <1>5, JoinIs
  <2>2. /\ Num(A.lb) = Num(I.lb) /\ Num(A.rb) = Num(m)
        /\ Num(B.lb) = -Num(m) /\ Num(B.rb) = Num(I.rb)
    BY <1>4, <1>5
  <2> QED
    BY <1>1, <1>2, <2>1, <2>2
<1>7. \A K \in NonEmpty : Value(K) = <<Num(K.lb), Num(K.rb)>>
  BY ValueIs, NonEmptyIs
<1> QED
  BY <1>3, <1>5, <1>6, <1>7

(* Those of the empty set are empty.                                        *)
LEMMA EmptyPartsAre ==
  /\ G!F!midpoint(emptyset) = NaN
  /\ G!F!split_first(emptyset) = emptyset /\ G!F!split_second(emptyset) = emptyset
<1>1. G!F!is_empty(emptyset)
  BY EmptySetIs, FloatBoundsAre
<1>2. G!F!midpoint(emptyset) = NaN
  BY <1>1, FloatsAreDoubles DEF G!F!midpoint
<1>3. left(emptyset) = NaN /\ right(emptyset) = NaN /\ Opposite(NaN) = NaN
  BY EmptySetIs, OppositeIsDouble
<1>4. Bounds(NaN, NaN) = emptyset
  BY DEF emptyset
<1> QED
  BY <1>2, <1>3, <1>4, FloatBoundsAre DEF G!F!split_first, G!F!split_second

(* What a program of intervals of floats keeps *)
KeepsFloats == floats => Sse \in BOOLEAN /\ obj \in [Names -> Intervals]

(* The intervals that a program builds of floats are intervals.              *)
LEMMA ConstructedOfFloats ==
  ASSUME NEW I \in G!Constructed, G!F!is_empty(I) => I = G!F!emptyset
  PROVE  I \in Intervals
<1>1. CASE G!F!is_empty(I)
  BY <1>1, FloatBoundsAre DEF Intervals
<1>2. CASE ~G!F!is_empty(I)
  <2>1. emptyset.lb = NaN /\ is_empty(emptyset)
    BY EmptySetIs
  <2>2. I # G!F!emptyset
    BY <1>2, <2>1, FloatBoundsAre
  <2>3. PICK l \in Doubles \ {Infinity}, r \in Doubles \ {MinusInfinity} : I = Bounds(Opposite(l), r)
    <3>1. G!MinusInfinity = MinusInfinity /\ G!Infinity = Infinity /\ G!Doubles = Doubles
      BY DEF MinusInfinity, Doubles, Opposite, NaN, Infinity, Oo, Largest, G!MinusInfinity,
         G!Doubles, G!Opposite, G!NaN, G!Infinity, G!Oo, G!Largest
    <3>2. \E l \in Doubles \ {Infinity}, r \in Doubles \ {MinusInfinity} : I = G!F!intervalf(l, r)
      BY <2>2, <3>1 DEF G!Constructed
    <3> QED
      BY <3>2, FloatBoundsAre
  <2>4. /\ Opposite(l) \in Doubles /\ Num(Opposite(l)) = -Num(l) /\ Opposite(Opposite(l)) = l
        /\ Num(l) \in Int /\ Num(r) \in Int
    BY OppositeIsDouble, OppositeTwice, NumOfMagnitude
  <2>5. Opposite(l) # MinusInfinity
    BY <2>4, InfinityIs
  <2>6. Opposite(l) \in Ends /\ r \in Ends
    BY <2>4, <2>5, EndsAre
  <2>7. Num(l) <= Num(r)
    <3>1. Leq(l, r)
      <4>1. left(I) = l /\ right(I) = r
        BY <2>3, <2>4 DEF left, right, Bounds
      <4>2. ~is_empty(I)
        BY <1>2, FloatBoundsAre
      <4> QED
        BY <4>1, <4>2 DEF is_empty
    <3> QED
      BY <3>1 DEF Leq
  <2> QED
    BY <2>3, <2>4, <2>6, <2>7 DEF Intervals, NonEmpty, Bounds
<1> QED
  BY <1>1, <1>2

(* The parts that split() gives are intervals.                               *)
LEMMA FloatPartsAreIntervals ==
  ASSUME NEW I \in Intervals
  PROVE  G!F!split_first(I) \in Intervals /\ G!F!split_second(I) \in Intervals
BY FloatPartsAre, EmptyPartsAre DEF Intervals

(* Every operation of a program leaves its intervals of floats intervals.     *)
LEMMA OperationsGiveFloats ==
  ASSUME Sse \in BOOLEAN, obj \in [Names -> Intervals], G!Next
  PROVE  obj' \in [Names -> Intervals]
<1>1. "x" \in Names /\ "y" \in Names /\ G!Names = Names
  BY DEF Names, G!Names
<1>2. \A n \in Names : obj[n] \in Intervals
  OBVIOUS
<1>3. ASSUME NEW I \in Intervals, G!Assign("x", I) PROVE obj' \in [Names -> Intervals]
  BY <1>1, <1>3 DEF G!Assign
<1>4. CASE G!Exchange
  BY <1>1, <1>2, <1>4 DEF G!Exchange, Names
<1>5. CASE G!Construct("x")
  <2>1. PICK I \in G!Constructed : (G!F!is_empty(I) => I = G!F!emptyset) /\ G!Assign("x", I)
    BY <1>5 DEF G!Construct
  <2>2. I \in Intervals
    BY <2>1, ConstructedOfFloats
  <2> QED
    BY <1>3, <2>1, <2>2
<1>6. CASE G!Transform("x") \/ G!Split("x")
  <2>1. /\ G!F!Opposed(obj["x"]) \in Intervals /\ G!F!inverse(obj["x"]) \in Intervals
        /\ G!F!split_first(obj["x"]) \in Intervals /\ G!F!split_second(obj["x"]) \in Intervals
    BY <1>1, <1>2, FloatOppositeIs, FloatInverseIs, MinusIsInterval, InverseIsInterval,
       FloatPartsAreIntervals
  <2> QED
    BY <1>3, <1>6, <2>1 DEF G!Transform, G!Split
<1>7. CASE G!Power("x")
  <2>1. PICK n \in Exponents : G!Assign("x", G!F!pow(obj["x"], n))
    BY <1>7 DEF G!Power
  <2>2. G!F!pow(obj["x"], n) \in Intervals
    BY <1>1, <1>2, FloatPowerIsInterval, MCAssumption
  <2> QED
    BY <1>3, <2>1, <2>2
<1>8. ASSUME NEW i \in Names,
             G!Add("x", i) \/ G!Subtract("x", i) \/ G!Multiply("x", i) \/ G!Divide("x", i)
      PROVE  obj' \in [Names -> Intervals]
  <2>1. obj["x"] \in Intervals /\ obj[i] \in Intervals
    BY <1>1, <1>2
  <2>2. /\ G!F!Plus(obj["x"], obj[i]) \in Intervals
        /\ G!F!Minus(obj["x"], obj[i], FALSE) \in Intervals
    BY <2>1, SumIsInterval, FloatSumsAre
  <2>3. G!F!Times(obj["x"], obj[i]) \in Intervals
    BY <2>1, FloatProductIsHull
  <2>4. G!F!Over(obj["x"], obj[i]) \in Intervals
    BY <2>1, FloatProductIsHull, FloatInverseIs, InverseIsInterval DEF G!F!Over
  <2>5. CASE G!Add("x", i) \/ G!Subtract("x", i)
    BY <1>3, <2>2, <2>5 DEF G!Add, G!Subtract
  <2>6. CASE G!Multiply("x", i) \/ G!Divide("x", i)
    BY <1>3, <2>3, <2>4, <2>6 DEF G!Multiply, G!Divide
  <2> QED
    BY <1>8, <2>5, <2>6
<1> QED
  BY <1>1, <1>4, <1>5, <1>6, <1>7, <1>8 DEF G!Next

(* A program of intervals of floats starts with intervals, and keeps them.    *)
LEMMA KeepsFloatsIsInductive ==
  /\ MCInit => KeepsFloats
  /\ KeepsFloats /\ [MCNext]_<<vars, floats>> => KeepsFloats'
<1>1. MCInit => KeepsFloats
  <2>1. ASSUME MCInit, floats PROVE Sse \in BOOLEAN /\ obj \in [Names -> Intervals]
    <3>1. Sse \in BOOLEAN /\ obj = [n \in Names |-> universe]
      BY <2>1, ProgramAssumption DEF MCInit, Init
    <3>2. universe \in Intervals
      BY <3>1, ConstantsAreIntervals DEF Intervals
    <3> QED
      BY <3>1, <3>2
  <2> QED
    BY <2>1 DEF KeepsFloats
<1>2. ASSUME KeepsFloats, [MCNext]_<<vars, floats>> PROVE KeepsFloats'
  <2>1. CASE floats /\ G!Next /\ UNCHANGED <<Sse, floats>>
    <3>1. obj' \in [Names -> Intervals]
      BY <1>2, <2>1, OperationsGiveFloats DEF KeepsFloats
    <3> QED
      BY <1>2, <2>1, <3>1 DEF KeepsFloats
  <2>2. CASE ~floats /\ floats' = floats
    BY <2>2 DEF KeepsFloats
  <2>3. CASE UNCHANGED <<vars, floats>>
    BY <1>2, <2>3 DEF KeepsFloats, vars
  <2> QED
    BY <1>2, <2>1, <2>2, <2>3 DEF MCNext
<1> QED
  BY <1>1, <1>2

(* A hull has no number on a side of 0 where none of its rationals is.       *)
LEMMA HullHasSign ==
  ASSUME NEW Q, NEW a, NEW b, Hull(Q) = <<a, b>>, \A q \in Q : q[1] \in Int /\ q[2] \in Nat
  PROVE  /\ (\A q \in Q : q[1] <= 0) => b <= 0
         /\ (\A q \in Q : q[1] >= 0) => a <= 0
<1>1. ASSUME NEW R, \A r \in R : r[1] <= 0 /\ r[2] \in Nat PROVE Ceiling(R) <= 0
  <2> DEFINE U == Bounding(R)
  <2>1. Ceiling(R) = IF U = {} THEN Oo ELSE Min(U)
    BY DEF Ceiling, Bounding
  <2>2. 0 \in U
    BY <1>1, FiniteNumsRange DEF Bounding
  <2>3. U \subseteq Int /\ \A v \in U : -Largest <= v
    BY FiniteNumsRange DEF Bounding
  <2>4. -Largest \in Int
    BY ConstantsAre
  <2>5. PICK m \in U : \A k \in U : m <= k
    BY <2>2, <2>3, <2>4, LeastInteger
  <2>6. Min(U) \in U /\ \A k \in U : Min(U) <= k
    BY <2>5 DEF Min
  <2> QED
    BY <2>1, <2>2, <2>6
<1>2. Hull(Q) = <<Ceiling(Opposites(Q)), Ceiling(Q)>>
  <2>1. Hull({}) = << >>
    BY ValueIs
  <2> QED
    BY <2>1 DEF Hull, Opposites
<1>3. a = Ceiling(Opposites(Q)) /\ b = Ceiling(Q)
  BY <1>2
<1>4. (\A q \in Q : q[1] <= 0) => b <= 0
  BY <1>1, <1>3
<1>5. ASSUME \A q \in Q : q[1] >= 0 PROVE a <= 0
  <2>1. ASSUME NEW r \in Opposites(Q) PROVE r[1] <= 0 /\ r[2] \in Nat
    <3>1. PICK q \in Q : r = <<-(q[1]), q[2]>>
      BY DEF Opposites
    <3>2. q[1] \in Int /\ q[1] >= 0 /\ q[2] \in Nat
      BY <1>5
    <3>3. r[1] = -(q[1]) /\ r[2] = q[2]
      BY <3>1
    <3> HIDE <3>1
    <3> QED
      BY <3>2, <3>3
  <2> QED
    BY <1>1, <1>3, <2>1
<1> QED
  BY <1>4, <1>5

(* A product by an interval without a bound has none on that side, but by 0.  *)
LEMMA ProductsAreUnbounded ==
  ASSUME NEW I \in NonEmpty, NEW J \in NonEmpty, NEW P \in NonEmpty,
         Value(P) = Hull(RealProducts(I, J))
  PROVE  /\ J.rb = Infinity => /\ Num(I.rb) > 0 => P.rb = Infinity
                               /\ Num(I.lb) > 0 => P.lb = Infinity
         /\ J.lb = Infinity => /\ Num(I.lb) > 0 => P.rb = Infinity
                               /\ Num(I.rb) > 0 => P.lb = Infinity
<1> DEFINE f == Fine * Fine
           a == Reach(I.lb)
           b == Reach(I.rb)
           c == Reach(J.lb)
           e == Reach(J.rb)
<1>1. /\ I.lb \in Ends /\ I.rb \in Ends /\ J.lb \in Ends /\ J.rb \in Ends
      /\ P.lb \in Ends /\ P.rb \in Ends /\ ~is_empty(P)
      /\ Num(I.lb) \in Int /\ Num(I.rb) \in Int /\ Num(P.lb) \in Int /\ Num(P.rb) \in Int
  BY NonEmptyIs
<1>2. Hull(RealProducts(I, J)) = <<Num(P.lb), Num(P.rb)>>
  BY <1>1 DEF Value
<1>3. /\ f \in Nat /\ f >= 1 /\ a \in Int /\ b \in Int /\ c \in Int /\ e \in Int
      /\ (-Bottom(I)) * (-Bottom(J)) = (a * c) * f
      /\ (-Bottom(I)) * Top(J) = -((a * e) * f)
      /\ Top(I) * (-Bottom(J)) = -((b * c) * f)
      /\ Top(I) * Top(J) = (b * e) * f
  BY ExtremesMultiply
<1>4. /\ Top(I) \in Samples(I) /\ -Bottom(I) \in Samples(I)
      /\ Top(J) \in Samples(J) /\ -Bottom(J) \in Samples(J)
  BY SamplesAre
<1>5. ASSUME NEW x \in Samples(I), NEW y \in Samples(J), NEW n \in Int, x * y = n
      PROVE  /\ P.rb = Infinity \/ n <= Num(P.rb) * (f * One)
             /\ P.lb = Infinity \/ -n <= Num(P.lb) * (f * One)
  <2>1. <<x * y, f * One>> \in RealProducts(I, J)
    BY DEF RealProducts
  <2>2. <<x * y, f * One>>[1] = n /\ <<x * y, f * One>>[2] = f * One
    BY <1>5
  <2>3. /\ Num(P.rb) = Oo \/ n <= Num(P.rb) * (f * One)
        /\ Num(P.lb) = Oo \/ -n <= Num(P.lb) * (f * One)
    BY <1>2, <2>1, <2>2, HullHas
  <2>4. /\ P.rb = Infinity <=> Num(P.rb) = Oo
        /\ P.lb = Infinity <=> Num(P.lb) = Oo
    BY <1>1, EndsAre, ConstantsAre DEF Oo
  <2> QED
    BY <2>3, <2>4
<1>6. One \in Nat /\ One >= 1 /\ Largest \in Nat /\ Beyond \in Nat /\ Beyond > Largest * One
      /\ Largest * One \in Nat
  BY LargestMagnitude, BeyondIs, ConstantsAre
<1> HIDE DEF f, a, b, c, e
<1>7. ASSUME NEW x \in Ends, NEW r \in Int, r >= 1, x # Infinity
      PROVE  ~((r * Beyond) * f <= Num(x) * (f * One))
  <2>1. Num(x) \in Int /\ Num(x) <= Largest
    BY <1>7, EndsAre
  <2>2. Num(x) * One <= Largest * One /\ Num(x) * One \in Int
    BY <1>6, <2>1, ProductsCompare
  <2>3. Num(x) * (f * One) = (Num(x) * One) * f
    BY <1>3, <1>6, <2>1
  <2>4. r * Beyond \in Int /\ Beyond <= r * Beyond
    <3>1. 1 * Beyond <= r * Beyond
      BY <1>6, <1>7, ProductsCompare
    <3> QED
      BY <1>6, <1>7, <3>1
  <2>5. Num(x) * One < r * Beyond
    BY <1>6, <2>2, <2>4
  <2>6. (Num(x) * One) * f < (r * Beyond) * f
    BY <1>3, <2>2, <2>4, <2>5, ProductsCompare
  <2>7. (Num(x) * One) * f \in Int /\ (r * Beyond) * f \in Int
    BY <1>3, <2>2, <2>4
  <2> QED
    BY <2>3, <2>6, <2>7
<1>8. /\ Num(I.rb) > 0 => b >= 1
      /\ Num(I.lb) > 0 => a >= 1
      /\ J.rb = Infinity => e = Beyond
      /\ J.lb = Infinity => c = Beyond
  BY <1>1, ReachIs, <1>3 DEF a, b, c, e
<1>9. /\ (b * e) * f \in Int /\ (a * e) * f \in Int /\ (a * c) * f \in Int /\ (b * c) * f \in Int
  BY <1>3
<1>10. /\ P.rb = Infinity \/ (b * e) * f <= Num(P.rb) * (f * One)
       /\ P.lb = Infinity \/ (a * e) * f <= Num(P.lb) * (f * One)
       /\ P.rb = Infinity \/ (a * c) * f <= Num(P.rb) * (f * One)
       /\ P.lb = Infinity \/ (b * c) * f <= Num(P.lb) * (f * One)
  <2>1. \A n \in Int : -n \in Int /\ -(-n) = n
    OBVIOUS
  <2>2. P.rb = Infinity \/ (b * e) * f <= Num(P.rb) * (f * One)
    BY <1>3, <1>4, <1>5, <1>9
  <2>3. P.rb = Infinity \/ (a * c) * f <= Num(P.rb) * (f * One)
    BY <1>3, <1>4, <1>5, <1>9
  <2>4. P.lb = Infinity \/ -(-((a * e) * f)) <= Num(P.lb) * (f * One)
    BY <1>3, <1>4, <1>5, <1>9, <2>1
  <2>5. P.lb = Infinity \/ -(-((b * c) * f)) <= Num(P.lb) * (f * One)
    BY <1>3, <1>4, <1>5, <1>9, <2>1
  <2> QED
    BY <1>9, <2>1, <2>2, <2>3, <2>4, <2>5
<1> QED
  BY <1>1, <1>3, <1>7, <1>8, <1>10

(* The number of units of a unit, in units of the samples                    *)
Units == (One * Fine) * One

(* The hull of the inverses of an interval has that of each of its reals.     *)
LEMMA InverseHas ==
  ASSUME NEW I \in NonEmpty, NEW V \in NonEmpty, Value(V) = Hull(Ratios(Point(OfNum(One)), I)),
         NEW y \in Samples(I) \ {0}
  PROVE  /\ Units \in Int /\ y \in Int
         /\ y > 0 => /\ V.rb = Infinity \/ Units <= Num(V.rb) * y
                     /\ V.lb = Infinity \/ -Units <= Num(V.lb) * y
         /\ y < 0 => /\ V.rb = Infinity \/ -Units <= Num(V.rb) * (-y)
                     /\ V.lb = Infinity \/ Units <= Num(V.lb) * (-y)
<1> DEFINE p == Point(OfNum(One))
           x == One * Fine
<1>1. One \in Nat /\ One >= 1 /\ One <= Largest /\ Largest \in Nat /\ Fine \in Nat
  BY LargestMagnitude, ConstantsAre, MagnitudesAssumption
<1>2. x \in Samples(p)
  <2>1. p \in NonEmpty /\ p.rb = OfNum(One) /\ OfNum(One) \in Ends /\ Num(OfNum(One)) = One
    BY UnitIs
  <2>2. OfNum(One) # Infinity
    BY <1>1, <2>1, EndsAre
  <2>3. Reach(OfNum(One)) = One
    BY <2>1, <2>2 DEF Reach
  <2> HIDE DEF p
  <2>4. Top(p) = One * Fine
    BY <2>1, <2>3 DEF Top
  <2> QED
    BY <2>1, <2>4, SamplesAre
<1>3. y \in Int /\ y # 0 /\ x \in Int /\ Units = x * One /\ Units \in Int /\ -x * One = -Units
  <2>1. y \in Int /\ x \in Int
    BY <1>1, SamplesAre
  <2> QED
    BY <1>1, <2>1 DEF Units
<1> HIDE DEF p, x
<1>4. Ratio(x, y) \in Ratios(p, I)
  BY <1>2 DEF Ratios
<1>5. /\ y > 0 => Ratio(x, y)[1] = Units /\ Ratio(x, y)[2] = y
      /\ y < 0 => Ratio(x, y)[1] = -Units /\ Ratio(x, y)[2] = -y
  BY <1>3 DEF Ratio
<1>6. Hull(Ratios(p, I)) = <<Num(V.lb), Num(V.rb)>> /\ V.lb \in Ends /\ V.rb \in Ends
  BY NonEmptyIs DEF Value, p
<1>7. /\ V.rb = Infinity <=> Num(V.rb) = Oo
      /\ V.lb = Infinity <=> Num(V.lb) = Oo
  BY <1>6, EndsAre, ConstantsAre DEF Oo
<1> DEFINE q == Ratio(x, y)
<1>8. /\ V.rb = Infinity \/ q[1] <= Num(V.rb) * q[2]
      /\ V.lb = Infinity \/ -(q[1]) <= Num(V.lb) * q[2]
  BY <1>4, <1>6, <1>7, HullHas
<1>9. -(-Units) = Units
  BY <1>3
<1> HIDE DEF q
<1>10. CASE y > 0
  <2>1. q[1] = Units /\ q[2] = y /\ ~(y < 0)
    BY <1>3, <1>5, <1>10 DEF q
  <2> QED
    BY <1>3, <1>8, <1>10, <2>1
<1>11. CASE y < 0
  <2>1. q[1] = -Units /\ q[2] = -y /\ ~(y > 0)
    BY <1>3, <1>5, <1>11 DEF q
  <2> QED
    BY <1>3, <1>8, <1>9, <1>11, <2>1
<1> QED
  BY <1>3, <1>10, <1>11

(* The hull of products has that of a sample by each bound.                  *)
LEMMA SampleByBounds ==
  ASSUME NEW I \in NonEmpty, NEW V \in NonEmpty, NEW P \in NonEmpty,
         Value(P) = Hull(RealProducts(I, V)), NEW x \in Samples(I)
  PROVE  /\ x \in Int /\ Fine * One \in Nat
         /\ V.rb # Infinity => /\ P.rb = Infinity \/ x * Num(V.rb) <= Num(P.rb) * (Fine * One)
                               /\ P.lb = Infinity \/ -(x * Num(V.rb)) <= Num(P.lb) * (Fine * One)
         /\ V.lb # Infinity => /\ P.rb = Infinity \/ -(x * Num(V.lb)) <= Num(P.rb) * (Fine * One)
                               /\ P.lb = Infinity \/ x * Num(V.lb) <= Num(P.lb) * (Fine * One)
         /\ x = 0 => /\ P.rb = Infinity \/ 0 <= Num(P.rb) * (Fine * One)
                     /\ P.lb = Infinity \/ 0 <= Num(P.lb) * (Fine * One)
<1> DEFINE k == Fine * One
           d == (Fine * Fine) * One
           r == Num(P.rb)
           l == Num(P.lb)
<1>1. /\ Fine \in Nat /\ Fine >= 1 /\ One \in Nat /\ One >= 1 /\ k \in Nat /\ d \in Nat
      /\ d = k * Fine
  BY ConstantsAre, LargestMagnitude
<1>2. /\ V.lb \in Ends /\ V.rb \in Ends /\ P.lb \in Ends /\ P.rb \in Ends /\ ~is_empty(P)
      /\ Num(V.lb) \in Int /\ Num(V.rb) \in Int /\ r \in Int /\ l \in Int
  BY NonEmptyIs
<1>3. Hull(RealProducts(I, V)) = <<l, r>>
  BY <1>2 DEF Value
<1>4. /\ x \in Int /\ Top(V) \in Samples(V) /\ -Bottom(V) \in Samples(V)
      /\ Top(V) \in Int /\ Bottom(V) \in Int
  BY SamplesAre
<1>5. /\ P.rb = Infinity <=> r = Oo
      /\ P.lb = Infinity <=> l = Oo
  BY <1>2, EndsAre, ConstantsAre DEF Oo
<1> HIDE DEF k, r, l
<1>6. ASSUME NEW w \in Samples(V), NEW n \in Int, x * w = n * Fine
      PROVE  /\ P.rb = Infinity \/ n <= r * k
             /\ P.lb = Infinity \/ -n <= l * k
  <2>1. <<x * w, d>> \in RealProducts(I, V)
    BY DEF RealProducts
  <2>2. <<x * w, d>>[1] = n * Fine /\ <<x * w, d>>[2] = d
    BY <1>6
  <2>3. /\ P.rb = Infinity \/ n * Fine <= r * d
        /\ P.lb = Infinity \/ -(n * Fine) <= l * d
    BY <1>3, <1>5, <2>1, <2>2, HullHas
  <2>4. r * d = (r * k) * Fine /\ l * d = (l * k) * Fine /\ -(n * Fine) = (-n) * Fine
    <3>1. -(n * Fine) = (-n) * Fine
      BY <1>1, SignsMultiply
    <3> HIDE DEF d
    <3> QED
      BY <1>1, <1>2, <3>1 DEF r, l
  <2>5. r * k \in Int /\ l * k \in Int /\ -n \in Int
    BY <1>1, <1>2 DEF r, l
  <2> QED
    BY <1>1, <2>3, <2>4, <2>5, ProductsCompare
<1>7. ASSUME V.rb # Infinity
      PROVE  /\ P.rb = Infinity \/ x * Num(V.rb) <= r * k
             /\ P.lb = Infinity \/ -(x * Num(V.rb)) <= l * k
  <2>1. Top(V) = Num(V.rb) * Fine
    BY <1>2, <1>7, ReachIs DEF Top
  <2>2. x * (Num(V.rb) * Fine) = (x * Num(V.rb)) * Fine /\ x * Num(V.rb) \in Int
    BY <1>1, <1>2, <1>4
  <2> QED
    BY <1>4, <1>6, <2>1, <2>2
<1>8. ASSUME V.lb # Infinity
      PROVE  /\ P.rb = Infinity \/ -(x * Num(V.lb)) <= r * k
             /\ P.lb = Infinity \/ x * Num(V.lb) <= l * k
  <2>1. Bottom(V) = Num(V.lb) * Fine
    BY <1>2, <1>8, ReachIs DEF Bottom
  <2>2. x * (-(Num(V.lb) * Fine)) = (-(x * Num(V.lb))) * Fine
    <3>1. x * (-(Num(V.lb) * Fine)) = -(x * (Num(V.lb) * Fine))
      BY <1>1, <1>2, <1>4, SignsMultiply
    <3>2. (-(x * Num(V.lb))) * Fine = -((x * Num(V.lb)) * Fine)
      BY <1>1, <1>2, <1>4, SignsMultiply
    <3>3. x * (Num(V.lb) * Fine) = (x * Num(V.lb)) * Fine
      BY <1>1, <1>2, <1>4
    <3> QED
      BY <3>1, <3>2, <3>3
  <2>3. -(x * Num(V.lb)) \in Int /\ -(-(x * Num(V.lb))) = x * Num(V.lb)
    BY <1>2, <1>4
  <2>4. /\ P.rb = Infinity \/ -(x * Num(V.lb)) <= r * k
        /\ P.lb = Infinity \/ -(-(x * Num(V.lb))) <= l * k
    BY <1>4, <1>6, <2>1, <2>2, <2>3
  <2> QED
    BY <2>3, <2>4
<1>9. ASSUME x = 0
      PROVE  /\ P.rb = Infinity \/ 0 <= r * k
             /\ P.lb = Infinity \/ 0 <= l * k
  <2>1. \A w \in Int : 0 * w = 0
    OBVIOUS
  <2>2. x * Top(V) = x * Fine
    BY <1>1, <1>4, <1>9, <2>1
  <2>3. \A z \in Int : z <= 0 => -z >= 0 /\ -z \in Int
    OBVIOUS
  <2> HIDE DEF d
  <2>4. /\ P.rb = Infinity \/ x <= r * k
        /\ P.lb = Infinity \/ -x <= l * k
    BY <1>4, <1>6, <2>2
  <2>5. -x >= 0 /\ -x \in Int /\ r * k \in Int /\ l * k \in Int
    BY <1>1, <1>2, <1>4, <1>9, <2>3 DEF r, l
  <2> QED
    BY <1>9, <2>4, <2>5
<1> QED
  BY <1>1, <1>4, <1>7, <1>8, <1>9 DEF k, r, l

(* operator/= of floats, the hull of the products by the hull of the inverses, *)
(* has every quotient.                                                        *)
LEMMA QuotientIsKept ==
  ASSUME NEW I \in NonEmpty, NEW J \in NonEmpty, NEW V \in NonEmpty, NEW P \in NonEmpty,
         Value(V) = Hull(Ratios(Point(OfNum(One)), J)), Value(P) = Hull(RealProducts(I, V)),
         NEW q \in Ratios(I, J)
  PROVE  InRational(q, P)
<1>1. PICK x \in Samples(I), y \in Samples(J) \ {0} : q = Ratio(x, y)
  BY DEF Ratios
<1> DEFINE n == IF y < 0 THEN -Units ELSE Units
           d == IF y < 0 THEN -y ELSE y
           t == IF y < 0 THEN -x ELSE x
           k == Fine * One
           u == Num(V.rb)
           v == Num(V.lb)
           r == Num(P.rb)
           l == Num(P.lb)
<1>2. /\ x \in Int /\ y \in Int /\ Units \in Int /\ y # 0
      /\ -Bottom(I) <= x /\ x <= Top(I) /\ Top(I) \in Int /\ Bottom(I) \in Int
  BY InverseHas, SamplesAre
<1>3. n \in Int /\ d \in Nat /\ d >= 1 /\ t \in Int
  BY <1>2
<1>4. q = <<t * One, d>>
  <2>1. y < 0 => q = <<-(x * One), -y>> /\ t = -x /\ d = -y
    BY <1>1 DEF Ratio
  <2>2. ~(y < 0) => q = <<x * One, y>> /\ t = x /\ d = y
    BY <1>1 DEF Ratio
  <2>3. -(x * One) = (-x) * One
    BY <1>2, LargestMagnitude, SignsMultiply
  <2> HIDE DEF t, d
  <2> QED
    BY <2>1, <2>2, <2>3
<1>5. /\ V.rb = Infinity \/ n <= u * d
      /\ V.lb = Infinity \/ -n <= v * d
  <2>1. CASE y > 0
    <3>1. n = Units /\ d = y
      BY <1>2, <2>1
    <3> QED
      BY <2>1, <3>1, InverseHas
  <2>2. CASE y < 0
    <3>1. n = -Units /\ d = -y /\ -n = Units
      BY <1>2, <2>2
    <3> QED
      BY <2>2, <3>1, InverseHas
  <2> QED
    BY <1>2, <2>1, <2>2
<1>6. /\ u \in Int /\ v \in Int /\ r \in Int /\ l \in Int
      /\ Num(I.lb) \in Int /\ Num(I.rb) \in Int
  BY NonEmptyIs
<1>7. /\ x > 0 => Num(I.rb) > 0
      /\ x < 0 => Num(I.lb) > 0
  <2>1. /\ Num(I.rb) <= 0 => Top(I) <= 0
        /\ Num(I.lb) <= 0 => -Bottom(I) >= 0
    BY SamplesAreOnSides
  <2> QED
    BY <1>2, <1>6, <2>1
<1>8. /\ V.rb = Infinity => /\ x > 0 => P.rb = Infinity
                            /\ x < 0 => P.lb = Infinity
      /\ V.lb = Infinity => /\ x < 0 => P.rb = Infinity
                            /\ x > 0 => P.lb = Infinity
  BY <1>7, ProductsAreUnbounded
<1>9. /\ k \in Nat
      /\ V.rb # Infinity => /\ P.rb = Infinity \/ x * u <= r * k
                            /\ P.lb = Infinity \/ -(x * u) <= l * k
      /\ V.lb # Infinity => /\ P.rb = Infinity \/ -(x * v) <= r * k
                            /\ P.lb = Infinity \/ x * v <= l * k
      /\ x = 0 => /\ P.rb = Infinity \/ 0 <= r * k
                  /\ P.lb = Infinity \/ 0 <= l * k
  BY SampleByBounds
<1>10. k >= 1 /\ One \in Nat /\ Fine \in Nat
  <2>1. Fine \in Nat /\ Fine >= 1 /\ One \in Nat /\ One >= 1
    BY ConstantsAre, LargestMagnitude
  <2> QED
    BY <1>9, <2>1, SignsMultiply
<1>11. x * n = (t * One) * k
  <2>1. x * n = t * Units
    <3>1. x * (-Units) = (-x) * Units
      BY <1>2, SignsMultiply
    <3> QED
      BY <3>1
  <2>2. t * ((One * Fine) * One) = (t * One) * (Fine * One)
    BY <1>3, <1>10
  <2> QED
    BY <2>1, <2>2 DEF Units
<1>12. (-x) * n = (-(t * One)) * k
  <2>1. (-x) * n = -(x * n)
    BY <1>2, <1>3, SignsMultiply
  <2>2. (-(t * One)) * k = -((t * One) * k)
    <3>1. t * One \in Int
      BY <1>3, <1>10
    <3> QED
      BY <1>9, <3>1, SignsMultiply
  <2> QED
    BY <1>11, <2>1, <2>2
<1> HIDE DEF n, d, t, k, u, v, r, l
<1>13. ASSUME P.rb # Infinity PROVE t * One <= r * d
  <2>1. r * k \in Int /\ t * One \in Int /\ r * d \in Int
    BY <1>3, <1>6, <1>9, <1>10
  <2>2. x * n <= (r * k) * d
    <3>1. /\ x > 0 => n <= u * d /\ x * u <= r * k
          /\ x < 0 => -n <= v * d /\ -(x * v) <= r * k
          /\ x = 0 => 0 <= r * k
      BY <1>5, <1>8, <1>9, <1>13
    <3> QED
      BY <1>2, <1>3, <1>6, <2>1, <3>1, ProductIsBetween
  <2>3. (r * k) * d = (r * d) * k
    BY <1>3, <1>6, <1>9
  <2>4. (t * One) * k <= (r * d) * k
    BY <1>11, <2>2, <2>3
  <2> QED
    BY <1>9, <1>10, <2>1, <2>4, ProductsCompare
<1>14. ASSUME P.lb # Infinity PROVE -(t * One) <= l * d
  <2>1. l * k \in Int /\ -(t * One) \in Int /\ l * d \in Int /\ -x \in Int
    BY <1>2, <1>3, <1>6, <1>9, <1>10
  <2>2. (-x) * n <= (l * k) * d
    <3>1. (-x) * u = -(x * u) /\ -((-x) * v) = x * v
      <4>1. (-x) * v = -(x * v) /\ x * v \in Int
        BY <1>2, <1>6, SignsMultiply
      <4>2. -(-(x * v)) = x * v
        BY <4>1
      <4> QED
        BY <1>2, <1>6, <4>1, <4>2, SignsMultiply
    <3>2. /\ -x > 0 => n <= u * d /\ -(x * u) <= l * k
          /\ -x < 0 => -n <= v * d /\ x * v <= l * k
          /\ -x = 0 => 0 <= l * k
      BY <1>2, <1>5, <1>8, <1>9, <1>14
    <3>3. /\ -x > 0 => n <= u * d /\ (-x) * u <= l * k
          /\ -x < 0 => -n <= v * d /\ -((-x) * v) <= l * k
          /\ -x = 0 => 0 <= l * k
      BY <3>1, <3>2
    <3> QED
      BY <1>3, <1>6, <2>1, <3>3, ProductIsBetween
  <2>3. (l * k) * d = (l * d) * k
    BY <1>3, <1>6, <1>9
  <2>4. (-(t * One)) * k <= (l * d) * k
    BY <1>12, <2>2, <2>3
  <2> QED
    BY <1>9, <1>10, <2>1, <2>4, ProductsCompare
<1>15. /\ ~is_empty(P) /\ right(P) = P.rb /\ Num(left(P)) = -l
       /\ left(P) = MinusInfinity <=> P.lb = Infinity
  BY NonEmptyIs, LeftIsInfinite DEF l
<1>16. P.lb # Infinity => Num(left(P)) * d <= t * One
  <2>1. (-l) * d = -(l * d) /\ l * d \in Int /\ t * One \in Int
    BY <1>3, <1>6, <1>10, SignsMultiply
  <2> QED
    BY <1>14, <1>15, <2>1
<1>17. q[1] = t * One /\ q[2] = d
  BY <1>4
<1> QED
  BY <1>13, <1>15, <1>16, <1>17 DEF InRational, r

(* The hull of the inverses of numbers of one sign has no number of the other. *)
LEMMA InverseHasSign ==
  ASSUME NEW J \in NonEmpty, NEW V \in NonEmpty, Value(V) = Hull(Ratios(Point(OfNum(One)), J))
  PROVE  /\ (\A y \in Samples(J) \ {0} : y > 0) => \A w \in Samples(V) : w >= 0
         /\ (\A y \in Samples(J) \ {0} : y < 0) => \A w \in Samples(V) : w <= 0
<1> DEFINE p == Point(OfNum(One))
           R == Ratios(p, J)
           T == Samples(J) \ {0}
<1>1. /\ V.lb \in Ends /\ V.rb \in Ends /\ ~is_empty(V)
      /\ Num(V.lb) \in Int /\ Num(V.rb) \in Int
  BY NonEmptyIs
<1>2. Hull(R) = <<Num(V.lb), Num(V.rb)>>
  BY <1>1 DEF Value
<1>3. \A u \in Samples(p) : u \in Int /\ u >= 0
  <2>1. p \in NonEmpty /\ p.lb = OfNum(-One) /\ OfNum(-One) \in Ends /\ Num(OfNum(-One)) = -One
    BY UnitIs
  <2>2. One \in Nat /\ One >= 1
    BY LargestMagnitude
  <2> HIDE DEF p
  <2>3. -Bottom(p) >= 0 /\ Bottom(p) \in Int
    BY <2>1, <2>2, SamplesAreOnSides, SamplesAre
  <2> QED
    BY <2>1, <2>3, SamplesAre
<1>4. \A y \in T : y \in Int /\ y # 0
  BY SamplesAre
<1>5. ASSUME NEW q \in R
      PROVE  \E y \in T : /\ q[1] \in Int /\ q[2] \in Nat
                          /\ y > 0 => q[1] >= 0
                          /\ y < 0 => q[1] <= 0
  <2>1. PICK u \in Samples(p), y \in T : q = Ratio(u, y)
    BY DEF Ratios
  <2>2. u * One \in Int /\ u * One >= 0
    <3>1. u \in Int /\ u >= 0 /\ One \in Nat
      BY <1>3, LargestMagnitude
    <3> QED
      BY <3>1, SignsMultiply
  <2>3. y \in Int /\ y # 0
    BY <1>4
  <2> HIDE DEF p, T
  <2>4. /\ y < 0 => q[1] = -(u * One) /\ q[2] = -y
        /\ ~(y < 0) => q[1] = u * One /\ q[2] = y
    BY <2>1 DEF Ratio
  <2> QED
    BY <2>2, <2>3, <2>4
<1> HIDE DEF p, R, T
<1>6. \A q \in R : q[1] \in Int /\ q[2] \in Nat
  BY <1>5
<1>7. /\ \A w \in Samples(V) : w \in Int /\ -Bottom(V) <= w /\ w <= Top(V)
      /\ Top(V) \in Int /\ Bottom(V) \in Int
      /\ Num(V.lb) <= 0 => -Bottom(V) >= 0
      /\ Num(V.rb) <= 0 => Top(V) <= 0
  BY SamplesAre, SamplesAreOnSides
<1>8. ASSUME \A y \in T : y > 0 PROVE \A w \in Samples(V) : w >= 0
  <2>1. \A q \in R : q[1] >= 0
    BY <1>5, <1>8
  <2>2. Num(V.lb) <= 0
    BY <1>2, <1>6, <2>1, HullHasSign
  <2> QED
    BY <1>7, <2>2
<1>9. ASSUME \A y \in T : y < 0 PROVE \A w \in Samples(V) : w <= 0
  <2>1. \A q \in R : q[1] <= 0
    BY <1>5, <1>9
  <2>2. Num(V.rb) <= 0
    BY <1>2, <1>6, <2>1, HullHasSign
  <2> QED
    BY <1>7, <2>2
<1> QED
  BY <1>8, <1>9 DEF T

(* operator/= of floats gives no number on a side of 0 where no quotient is.  *)
LEMMA QuotientHasSign ==
  ASSUME NEW I \in NonEmpty, NEW J \in NonEmpty, NEW V \in NonEmpty, NEW P \in NonEmpty,
         Value(V) = Hull(Ratios(Point(OfNum(One)), J)), Value(P) = Hull(RealProducts(I, V))
  PROVE  /\ (\A q \in Ratios(I, J) : q[1] >= 0) => Num(P.lb) <= 0
         /\ (\A q \in Ratios(I, J) : q[1] <= 0) => Num(P.rb) <= 0
<1> DEFINE T == Samples(J) \ {0}
           Q == RealProducts(I, V)
<1>1. ~is_empty(P) /\ Num(P.lb) \in Int /\ Num(P.rb) \in Int
  BY NonEmptyIs
<1>2. Hull(Q) = <<Num(P.lb), Num(P.rb)>>
  BY <1>1 DEF Value
<1>3. /\ \A x \in Samples(I) : x \in Int
      /\ \A y \in T : y \in Int /\ y # 0
      /\ \A w \in Samples(V) : w \in Int
  BY SamplesAre
<1>4. /\ (\A y \in T : y > 0) => \A w \in Samples(V) : w >= 0
      /\ (\A y \in T : y < 0) => \A w \in Samples(V) : w <= 0
  BY InverseHasSign
<1>5. ASSUME NEW x \in Samples(I), NEW y \in T
      PROVE  \E q \in Ratios(I, J) : /\ y < 0 => q[1] = -(x * One)
                                     /\ y > 0 => q[1] = x * One
  <2>1. Ratio(x, y) \in Ratios(I, J)
    BY DEF Ratios
  <2>2. /\ y < 0 => Ratio(x, y)[1] = -(x * One)
        /\ y > 0 => Ratio(x, y)[1] = x * One
    BY <1>3 DEF Ratio
  <2> QED
    BY <2>1, <2>2
<1>6. ASSUME NEW q \in Q
      PROVE  \E x \in Samples(I), w \in Samples(V) :
               q[1] = x * w /\ q[1] \in Int /\ q[2] \in Nat
  <2>1. PICK x \in Samples(I), w \in Samples(V) : q = <<x * w, Fine * Fine * One>>
    BY DEF RealProducts
  <2>2. Fine * Fine * One \in Nat
    <3>1. Fine \in Nat /\ One \in Nat
      BY ConstantsAre, LargestMagnitude
    <3> QED
      BY <3>1, SignsMultiply
  <2>3. x * w \in Int
    BY <1>3
  <2> QED
    BY <2>1, <2>2, <2>3
<1> HIDE DEF T, Q
<1>7. \A q \in Q : q[1] \in Int /\ q[2] \in Nat
  BY <1>6
<1>8. \A x \in Samples(I) : /\ x * One \in Int
                            /\ x > 0 => x * One > 0
                            /\ x < 0 => x * One < 0
  <2>1. One \in Nat /\ One >= 1
    BY LargestMagnitude
  <2>2. ASSUME NEW x \in Int
        PROVE  /\ x * One \in Int
               /\ x > 0 => x * One > 0
               /\ x < 0 => x * One < 0
    <3>1. /\ 0 < x => 0 * One < x * One
          /\ x < 0 => x * One < 0 * One
      BY <2>1, ProductsCompare
    <3>2. 0 * One = 0
      BY <2>1
    <3> QED
      BY <2>1, <3>1, <3>2
  <2> QED
    BY <1>3, <2>2
<1>9. ASSUME \A q \in Ratios(I, J) : q[1] >= 0 PROVE Num(P.lb) <= 0
  <2>1. \A x \in Samples(I), y \in T : /\ x > 0 => y > 0
                                       /\ x < 0 => y < 0
    BY <1>3, <1>5, <1>8, <1>9
  <2>2. ASSUME NEW x \in Samples(I), NEW w \in Samples(V) PROVE x * w >= 0
    <3>1. x > 0 => w >= 0
      BY <1>4, <2>1
    <3>2. x < 0 => w <= 0
      BY <1>4, <2>1
    <3>3. x \in Int /\ w \in Int
      BY <1>3
    <3>4. \A v \in Int : 0 * v = 0
      OBVIOUS
    <3> QED
      BY <3>1, <3>2, <3>3, <3>4, SignsMultiply
  <2>3. \A q \in Q : q[1] >= 0
    BY <1>6, <2>2
  <2> QED
    BY <1>2, <1>7, <2>3, HullHasSign
<1>10. ASSUME \A q \in Ratios(I, J) : q[1] <= 0 PROVE Num(P.rb) <= 0
  <2>1. \A x \in Samples(I), y \in T : /\ x > 0 => y < 0
                                       /\ x < 0 => y > 0
    BY <1>3, <1>5, <1>8, <1>10
  <2>2. ASSUME NEW x \in Samples(I), NEW w \in Samples(V) PROVE x * w <= 0
    <3>1. x > 0 => w <= 0
      BY <1>4, <2>1
    <3>2. x < 0 => w >= 0
      BY <1>4, <2>1
    <3>3. x \in Int /\ w \in Int
      BY <1>3
    <3>4. \A v \in Int : 0 * v = 0
      OBVIOUS
    <3> QED
      BY <3>1, <3>2, <3>3, <3>4, SignsMultiply
  <2>3. \A q \in Q : q[1] <= 0
    BY <1>6, <2>2
  <2> QED
    BY <1>2, <1>7, <2>3, HullHasSign
<1> QED
  BY <1>9, <1>10

(* The quotients of the floats: none is left out, and there are quotients    *)
(* when the result is not empty.                                             *)
LEMMA QuotientOfFloatsIsKept ==
  ASSUME NEW I \in Intervals, NEW J \in Intervals, Sse \in BOOLEAN
  PROVE  LET Q == G!F!Over(I, J) IN
         /\ \A q \in Ratios(I, J) : InRational(q, Q)
         /\ is_empty(Q) <=> Ratios(I, J) = {}
         /\ Ratios(I, J) # {} =>
              /\ (\A q \in Ratios(I, J) : q[1] >= 0) => Leq(Zero(FALSE), left(Q))
              /\ (\A q \in Ratios(I, J) : q[1] <= 0) => Leq(right(Q), Zero(FALSE))
<1> DEFINE V == inverse(J)
           Q == G!F!Over(I, J)
           R == Ratios(I, J)
<1>1. V \in Intervals /\ Value(V) = Hull(Ratios(Point(OfNum(One)), J))
  BY InverseIsInterval, InverseIsHull
<1>2. Q = G!F!Times(I, V)
  BY FloatInverseIs DEF G!F!Over
<1> HIDE DEF V
<1>3. /\ Q \in Intervals /\ Value(Q) = Hull(RealProducts(I, V))
      /\ I \in NonEmpty /\ V \in NonEmpty => Q \in NonEmpty
      /\ I = emptyset \/ V = emptyset => Q = emptyset
  BY <1>1, <1>2, FloatProductIsHull
<1> HIDE DEF Q
<1>4. CASE I = emptyset \/ J = emptyset
  <2>1. R = {}
    BY <1>4, EmptyHasNone DEF Ratios
  <2>2. J = emptyset => V = emptyset
    BY EmptySetIs DEF V, inverse
  <2>3. Q = emptyset /\ is_empty(emptyset)
    BY <1>3, <1>4, <2>2, EmptySetIs
  <2> QED
    BY <2>1, <2>3 DEF Q
<1>5. CASE I \in NonEmpty /\ J \in NonEmpty
  <2>1. Point(OfNum(One)) \in NonEmpty
    BY UnitIs
  <2>2. R = {} <=> Ratios(Point(OfNum(One)), J) = {}
    BY <1>5, <2>1, RatiosAre
  <2>3. CASE R = {}
    <3>1. Value(V) = << >>
      BY <1>1, <2>2, <2>3, ValueIs
    <3>2. V \notin NonEmpty
      <4>1. ASSUME V \in NonEmpty PROVE FALSE
        <5>1. ~is_empty(V)
          BY <4>1, NonEmptyIs
        <5>2. Value(V) = <<Num(V.lb), Num(V.rb)>>
          BY <5>1 DEF Value
        <5> QED
          BY <3>1, <5>2
      <4> QED
        BY <4>1
    <3>3. Q = emptyset /\ is_empty(emptyset)
      BY <1>1, <1>3, <3>2, EmptySetIs DEF Intervals
    <3> QED
      BY <2>3, <3>3 DEF Q
  <2>4. CASE R # {}
    <3>1. V # emptyset
      <4>1. ASSUME V = emptyset PROVE FALSE
        <5>1. Hull(Ratios(Point(OfNum(One)), J)) = << >>
          BY <1>1, <4>1, ValueIs
        <5> QED
          BY <2>2, <2>4, <5>1 DEF Hull
      <4> QED
        BY <4>1
    <3>2. V \in NonEmpty /\ Q \in NonEmpty
      BY <1>1, <1>3, <1>5, <3>1 DEF Intervals
    <3>3. \A q \in R : InRational(q, Q)
      BY <1>1, <1>3, <1>5, <3>2, QuotientIsKept
    <3>4. /\ (\A q \in R : q[1] >= 0) => Num(Q.lb) <= 0
          /\ (\A q \in R : q[1] <= 0) => Num(Q.rb) <= 0
      BY <1>1, <1>3, <1>5, <3>2, QuotientHasSign
    <3>5. /\ ~is_empty(Q)
          /\ Leq(Zero(FALSE), left(Q)) <=> Num(Q.lb) <= 0
          /\ Leq(right(Q), Zero(FALSE)) <=> Num(Q.rb) <= 0
      BY <3>2, NonEmptyIs, BoundsCompare
    <3> QED
      BY <2>4, <3>3, <3>4, <3>5 DEF Q
  <2> QED
    BY <2>3, <2>4
<1> QED
  BY <1>4, <1>5 DEF Intervals

(* For every format: whatever operations a program applies, in any order, to *)
(* intervals of floats, each is one of IEEE 1788 or the empty set of NaNs,    *)
(* the operators +, - and * and inverse() give the hull of the results on    *)
(* reals with no test for NaNs in the products, and operator/=, rounded      *)
(* twice, keeps every quotient and gives none on a side of 0 that has none.  *)
THEOREM FloatArithmeticIsKeptAlways ==
  MCSpec => []FloatArithmeticIsKept
<1>1. MCInit => KeepsFloats
  BY KeepsFloatsIsInductive
<1>2. KeepsFloats /\ [MCNext]_<<vars, floats>> => KeepsFloats'
  BY KeepsFloatsIsInductive
<1>3. KeepsFloats => FloatArithmeticIsKept
  <2>1. SUFFICES ASSUME KeepsFloats, floats
                 PROVE  G!WellFormed /\ G!OperationsAreHulls /\ G!QuotientsAreKept
    BY DEF FloatArithmeticIsKept, G!ArithmeticIsKept
  <2>2. /\ Sse \in BOOLEAN /\ obj["x"] \in Intervals /\ obj["y"] \in Intervals
        /\ \A n \in G!Names : obj[n] \in Intervals
    BY <2>1 DEF KeepsFloats, Names, G!Names
  <2>3. G!WellFormed
    <3>1. \A I \in Intervals : IF is_empty(I) THEN I = emptyset
                               ELSE Lt(left(I), Infinity) /\ Lt(MinusInfinity, right(I))
      BY EmptySetIs, BoundsCompare
    <3>2. G!MinusInfinity = MinusInfinity /\ G!F!emptyset = emptyset
      BY FloatBoundsAre DEF MinusInfinity, Opposite, NaN, Infinity, Oo, Largest,
         G!MinusInfinity, G!Opposite, G!NaN, G!Infinity, G!Oo, G!Largest
    <3> QED
      BY <2>2, <3>1, <3>2, FloatRealsAre DEF G!WellFormed
  <2>4. G!OperationsAreHulls
    <3>1. /\ Value(G!F!Plus(obj["x"], obj["y"])) = Hull(Sums(obj["x"], obj["y"]))
          /\ Value(G!F!Minus(obj["x"], obj["y"], FALSE)) = Hull(Differences(obj["x"], obj["y"]))
      <4>1. \A I, J \in Intervals : /\ Value(Plus(I, J, FALSE)) = Hull(Sums(I, J))
                                    /\ Value(Difference(I, J, FALSE)) = Hull(Differences(I, J))
        BY SumIsHull
      <4> QED
        BY <2>2, <4>1, FloatSumsAre
    <3>2. Value(G!F!Times(obj["x"], obj["y"])) = Hull(RealProducts(obj["x"], obj["y"]))
      BY <2>2, FloatProductIsHull
    <3>3. Value(G!F!inverse(obj["x"])) = Hull(Ratios(Point(OfNum(One)), obj["x"]))
      BY <2>2, FloatInverseIs, InverseIsHull
    <3> QED
      BY <3>1, <3>2, <3>3, FloatRealsAre DEF G!OperationsAreHulls, G!X, G!Y
  <2>5. G!QuotientsAreKept
    BY <2>2, QuotientOfFloatsIsKept, FloatRealsAre DEF G!QuotientsAreKept, G!X, G!Y
  <2> QED
    BY <2>3, <2>4, <2>5
<1> QED
  BY <1>1, <1>2, <1>3, PTL DEF MCSpec

(* The middle of an interval of floats and the parts that split() gives.     *)
LEMMA MidpointOfFloats ==
  ASSUME obj["x"] \in Intervals
  PROVE  G!MidpointIsNearest
<1> DEFINE I == obj["x"]
           m == G!F!midpoint(I)
           s == Num(left(I)) + Num(right(I))
           off(b) == LET d == 2 * Num(b) - s IN IF d < 0 THEN -d ELSE d
<1>1. CASE I = emptyset
  <2>1. is_empty(I) /\ m = NaN
    BY <1>1, EmptySetIs, EmptyPartsAre
  <2> QED
    BY <2>1, FloatRealsAre DEF G!MidpointIsNearest, G!X
<1>2. CASE I \in NonEmpty
  <2>1. /\ m \in Doubles /\ ~IsInf(m) /\ m # NaN /\ Num(m) \in Int
        /\ -Num(I.lb) <= Num(m) /\ Num(m) <= Num(I.rb)
        /\ Infinity \notin {I.lb, I.rb} =>
             \A v \in FiniteNums : Off(Num(m), Num(I.rb) - Num(I.lb)) <= Off(v, Num(I.rb) - Num(I.lb))
    BY <1>2, FloatMiddleIs, FiniteOrInfinite, NumOfMagnitude
  <2>2. /\ Num(I.lb) \in Int /\ Num(I.rb) \in Int /\ I.rb # NaN /\ ~is_empty(I)
        /\ left(I) # NaN /\ Num(left(I)) = -Num(I.lb) /\ right(I) = I.rb
    BY <1>2, NonEmptyIs
  <2>3. Leq(left(I), m) /\ Leq(m, right(I))
    BY <2>1, <2>2 DEF Leq
  <2>4. s = Num(I.rb) - Num(I.lb)
    BY <2>2
  <2>5. \A b : off(b) = Off(Num(b), Num(I.rb) - Num(I.lb))
    BY <2>4 DEF Off, Modulus
  <2>6. \A v \in FiniteNums : Num(OfNum(v)) = v
    BY OfNumIsNum
  <2> HIDE DEF m, off, s
  <2>7. Infinity \notin {I.lb, I.rb} => \A v \in FiniteNums : off(m) <= off(OfNum(v))
    BY <2>1, <2>5, <2>6
  <2>8. Value(Join(G!F!split_first(I), G!F!split_second(I))) = Value(I)
    BY <1>2, FloatPartsAre
  <2>9. /\ G!is_empty(I) = is_empty(I) /\ G!left(I) = left(I) /\ G!right(I) = right(I)
        /\ G!Infinity = Infinity /\ G!FiniteNums = FiniteNums
        /\ G!Leq(G!left(I), m) = Leq(left(I), m) /\ G!Leq(m, G!right(I)) = Leq(m, right(I))
        /\ \A b : G!Num(b) = Num(b)
        /\ \A v : G!OfNum(v) = OfNum(v)
        /\ G!Value(G!Join(G!F!split_first(I), G!F!split_second(I)))
             = Value(Join(G!F!split_first(I), G!F!split_second(I)))
        /\ G!Value(I) = Value(I)
    BY FloatRealsAre
  <2>10. Infinity \notin {I.lb, I.rb} =>
           \A v \in FiniteNums :
             (LET d == 2 * Num(m) - (Num(left(I)) + Num(right(I))) IN IF d < 0 THEN -d ELSE d)
             <= (LET d == 2 * Num(OfNum(v)) - (Num(left(I)) + Num(right(I)))
                 IN IF d < 0 THEN -d ELSE d)
    BY <2>7 DEF off, s
  <2>11. G!F!midpoint(obj["x"]) = m /\ obj["x"] = I
    BY DEF m
  <2> HIDE DEF I
  <2> QED
    BY <2>2, <2>3, <2>8, <2>9, <2>10, <2>11 DEF G!MidpointIsNearest, G!X
<1> QED
  BY <1>1, <1>2 DEF Intervals

(* The relations of intervals of floats are those of intervals of doubles but *)
(* that of strict inclusion, which needs bounds that are numbers.            *)
LEMMA FloatRelationsAre ==
  ASSUME NEW I, NEW J
  PROVE  /\ G!F!set_contains(I, J) <=> set_contains(I, J)
         /\ G!F!set_eq(I, J) <=> set_eq(I, J)
         /\ G!F!possibly_eq(I, J) <=> possibly_eq(I, J)
         /\ G!F!set_disjoint(I, J) <=> set_disjoint(I, J)
         /\ G!F!set_strictly_contains(I, J) <=>
              is_empty(J) \/ (Lt(left(I), left(J)) /\ Lt(right(J), right(I)))
<1>1. \A K \in {I, J} : /\ G!F!left(K) = left(K) /\ G!F!right(K) = right(K)
                         /\ G!F!is_empty(K) = is_empty(K)
  BY FloatBoundsAre
<1>2. /\ \A x, y : G!F!Leq(x, y) = Leq(x, y)
      /\ \A x, y : G!F!Lt(x, y) = Lt(x, y)
      /\ \A x, y : G!F!Eq(x, y) = Eq(x, y)
  BY FloatsAreDoubles
<1>3. /\ G!F!is_empty(I) <=> is_empty(I)
      /\ G!F!is_empty(J) <=> is_empty(J)
      /\ G!F!Leq(G!F!left(I), G!F!left(J)) <=> Leq(left(I), left(J))
      /\ G!F!Leq(G!F!right(J), G!F!right(I)) <=> Leq(right(J), right(I))
      /\ G!F!Leq(G!F!left(I), G!F!right(J)) <=> Leq(left(I), right(J))
      /\ G!F!Leq(G!F!left(J), G!F!right(I)) <=> Leq(left(J), right(I))
      /\ G!F!Eq(G!F!left(I), G!F!left(J)) <=> Eq(left(I), left(J))
      /\ G!F!Eq(G!F!right(I), G!F!right(J)) <=> Eq(right(I), right(J))
      /\ G!F!Lt(G!F!left(I), G!F!left(J)) <=> Lt(left(I), left(J))
      /\ G!F!Lt(G!F!right(J), G!F!right(I)) <=> Lt(right(J), right(I))
      /\ G!F!Lt(G!F!right(I), G!F!left(J)) <=> Lt(right(I), left(J))
      /\ G!F!Lt(G!F!right(J), G!F!left(I)) <=> Lt(right(J), left(I))
  BY <1>1, <1>2
<1> QED
  BY <1>3 DEF G!F!set_contains, set_contains, G!F!set_eq, set_eq, G!F!possibly_eq, possibly_eq,
     G!F!set_disjoint, set_disjoint, Vacuous, G!F!set_strictly_contains

(* The relations of doubles, of any two intervals.                           *)
LEMMA RelationsOfIntervals ==
  ASSUME NEW I \in Intervals, NEW J \in Intervals
  PROVE  /\ possibly_eq(I, J) <=> {x \in Samples(I) \union Samples(J) : In(x, I) /\ In(x, J)} # {}
         /\ set_disjoint(I, J) <=> {x \in Samples(I) \union Samples(J) : In(x, I) /\ In(x, J)} = {}
         /\ set_contains(I, J) <=> \A x \in Samples(J) : In(x, I)
         /\ set_eq(I, J) <=> (\A x \in Samples(I) : In(x, J)) /\ (\A x \in Samples(J) : In(x, I))
<1>1. RelationsAre(I, J)
  <2>1. CASE I \in NonEmpty /\ J \in NonEmpty
    BY <2>1, RelationsOfNonEmpty
  <2>2. CASE I = emptyset \/ J = emptyset
    BY <2>2, RelationsOfEmpty
  <2> QED
    BY <2>1, <2>2 DEF Intervals
<1> QED
  BY <1>1 DEF RelationsAre

(* Strict inclusion, of floats, is between inclusion and that of the reals    *)
(* around.                                                                   *)
LEMMA StrictlyContainsIs ==
  ASSUME NEW I \in Intervals, NEW J \in Intervals
  PROVE  LET strictly == is_empty(J) \/ (Lt(left(I), left(J)) /\ Lt(right(J), right(I))) IN
         /\ strictly => \A x \in Samples(J) : In(x, I)
         /\ ~strictly => \/ (\E y \in Samples(J), e \in {-1, 1} : ~In(y + e, I))
                         \/ Infinity \in {I.lb, I.rb}
<1> DEFINE strictly == is_empty(J) \/ (Lt(left(I), left(J)) /\ Lt(right(J), right(I)))
<1>1. CASE J = emptyset
  <2>1. is_empty(J) /\ Samples(J) = {}
    BY <1>1, EmptySetIs, EmptyHasNone
  <2> QED
    BY <2>1
<1>2. CASE J \in NonEmpty /\ I = emptyset
  <2>1. ~is_empty(J) /\ left(I) = NaN /\ \A z : ~In(z, I)
    BY <1>2, NonEmptyIs, EmptySetIs, EmptyHasNone
  <2>2. ~Lt(left(I), left(J))
    BY <2>1 DEF Lt
  <2>3. PICK y : y \in Samples(J)
    BY <1>2, EmptyHasNone
  <2> QED
    BY <2>1, <2>2, <2>3
<1>3. CASE I \in NonEmpty /\ J \in NonEmpty
  <2>1. strictly <=> Num(J.lb) < Num(I.lb) /\ Num(J.rb) < Num(I.rb)
    <3>1. /\ left(I) # NaN /\ Num(left(I)) = -Num(I.lb) /\ right(I) = I.rb /\ I.rb # NaN
          /\ Num(I.lb) \in Int /\ Num(I.rb) \in Int
      BY <1>3, NonEmptyIs
    <3>2. /\ left(J) # NaN /\ Num(left(J)) = -Num(J.lb) /\ right(J) = J.rb /\ J.rb # NaN
          /\ Num(J.lb) \in Int /\ Num(J.rb) \in Int /\ ~is_empty(J)
      BY <1>3, NonEmptyIs
    <3> QED
      BY <3>1, <3>2 DEF Lt
  <2> HIDE DEF strictly
  <2>2. (\A y \in Samples(J), e \in {-1, 1} : In(y + e, I)) <=>
          /\ I.lb = Infinity \/ Num(J.lb) < Num(I.lb)
          /\ I.rb = Infinity \/ Num(J.rb) < Num(I.rb)
    BY <1>3, InnerSamplesAre
  <2>3. ~strictly => \/ (\E y \in Samples(J), e \in {-1, 1} : ~In(y + e, I))
                     \/ Infinity \in {I.lb, I.rb}
    BY <2>1, <2>2
  <2>4. strictly => set_contains(I, J)
    <3>1. /\ Num(I.lb) \in Int /\ Num(I.rb) \in Int
          /\ Num(J.lb) \in Int /\ Num(J.rb) \in Int
      BY <1>3, NonEmptyIs
    <3>2. set_contains(I, J) <=> Num(J.lb) <= Num(I.lb) /\ Num(J.rb) <= Num(I.rb)
      BY <1>3, RelationsCompare
    <3> QED
      BY <2>1, <3>1, <3>2
  <2>5. strictly => \A x \in Samples(J) : In(x, I)
    BY <2>4, RelationsOfIntervals
  <2>6. /\ strictly => \A x \in Samples(J) : In(x, I)
        /\ ~strictly => \/ (\E y \in Samples(J), e \in {-1, 1} : ~In(y + e, I))
                        \/ Infinity \in {I.lb, I.rb}
    BY <2>3, <2>5
  <2> QED
    BY <2>6, Zenon DEF strictly
<1> QED
  BY <1>1, <1>2, <1>3 DEF Intervals

(* A pair is its two intervals.                                             *)
LEMMA PairIs ==
  ASSUME NEW I \in Intervals, NEW J \in Intervals
  PROVE  G!P!first(G!P!Pair(I, J)) = I /\ G!P!second(G!P!Pair(I, J)) = J
<1>1. G!P!Pair(I, J) = [k \in 0 .. 3 |-> <<I.lb, I.rb, J.lb, J.rb>>[k + 1]]
  BY DEF G!P!Pair, G!P!Lanes
<1>2. /\ G!P!Pair(I, J)[0] = I.lb /\ G!P!Pair(I, J)[1] = I.rb
      /\ G!P!Pair(I, J)[2] = J.lb /\ G!P!Pair(I, J)[3] = J.rb
  BY <1>1
<1>3. /\ I = [lb |-> I.lb, rb |-> I.rb]
      /\ J = [lb |-> J.lb, rb |-> J.rb]
  BY NonEmptyIs DEF Intervals, Bounds, emptyset
<1> QED
  BY <1>2, <1>3 DEF G!P!first, G!P!second

(* The relations of a pair compare negated left bounds: on two intervals they *)
(* are those of the intervals.                                               *)
LEMMA PairRelationsAre ==
  ASSUME NEW I \in Intervals, NEW J \in Intervals
  PROVE  /\ (G!P!nothing(J) \/ (Leq(J.lb, I.lb) /\ Leq(J.rb, I.rb))) <=> set_contains(I, J)
         /\ ((G!P!nothing(I) /\ G!P!nothing(J)) \/ (Eq(I.lb, J.lb) /\ Eq(I.rb, J.rb)))
              <=> Value(I) = Value(J)
         /\ (Leq(Opposite(I.lb), J.rb) /\ Leq(Opposite(J.lb), I.rb)) <=> possibly_eq(I, J)
<1>1. \A K : G!P!nothing(K) <=> is_empty(K)
  BY PairFloatsAreDoubles DEF G!P!nothing, is_empty, left, right
<1>2. (Leq(Opposite(I.lb), J.rb) /\ Leq(Opposite(J.lb), I.rb)) <=> possibly_eq(I, J)
  BY DEF possibly_eq, left, right
<1>3. CASE I = emptyset \/ J = emptyset
  <2>1. /\ is_empty(I) <=> I = emptyset
        /\ is_empty(J) <=> J = emptyset
        /\ emptyset.lb = NaN /\ emptyset.rb = NaN /\ left(emptyset) = NaN
    BY EmptySetIs
  <2>2. \A x : ~Leq(x, NaN) /\ ~Leq(NaN, x) /\ ~Eq(x, NaN) /\ ~Eq(NaN, x)
    BY DEF Leq, Eq
  <2>3. set_contains(I, J) <=> is_empty(J)
    BY <1>3, <2>1, <2>2 DEF set_contains
  <2>4. Value(I) = Value(J) <=> is_empty(I) /\ is_empty(J)
    <3>1. \A a, b : << >> # <<a, b>>
      OBVIOUS
    <3> QED
      BY <1>3, <2>1, <3>1 DEF Value
  <2> QED
    BY <1>1, <1>2, <1>3, <2>1, <2>2, <2>3, <2>4
<1>4. CASE I \in NonEmpty /\ J \in NonEmpty
  <2>1. /\ ~is_empty(I) /\ I.lb # NaN /\ I.rb # NaN /\ Num(I.lb) \in Int /\ Num(I.rb) \in Int
        /\ ~is_empty(J) /\ J.lb # NaN /\ J.rb # NaN /\ Num(J.lb) \in Int /\ Num(J.rb) \in Int
    BY <1>4, NonEmptyIs
  <2>2. /\ Leq(J.lb, I.lb) <=> Num(J.lb) <= Num(I.lb)
        /\ Leq(J.rb, I.rb) <=> Num(J.rb) <= Num(I.rb)
        /\ Eq(I.lb, J.lb) <=> Num(I.lb) = Num(J.lb)
        /\ Eq(I.rb, J.rb) <=> Num(I.rb) = Num(J.rb)
    BY <2>1 DEF Leq, Eq
  <2>3. set_contains(I, J) <=> Num(J.lb) <= Num(I.lb) /\ Num(J.rb) <= Num(I.rb)
    BY <1>4, RelationsCompare
  <2>4. Value(I) = Value(J) <=> Num(I.lb) = Num(J.lb) /\ Num(I.rb) = Num(J.rb)
    BY <2>1 DEF Value
  <2> QED
    BY <1>1, <1>2, <2>1, <2>2, <2>3, <2>4
<1> QED
  BY <1>3, <1>4 DEF Intervals

(* The bit of set_contains() is that of the real in the interval.            *)
LEMMA PairHas ==
  ASSUME NEW I \in Intervals, NEW v \in FiniteNums
  PROVE  Leq(Opposite(I.lb), OfNum(v)) /\ Leq(OfNum(v), I.rb) <=> In(v * Fine, I)
<1>1. OfNum(v) # NaN /\ Num(OfNum(v)) = v /\ v \in Int /\ -Largest <= v /\ v <= Largest
  BY OfNumIsNum, FiniteOrInfinite, FiniteNumsRange
<1>2. CASE I = emptyset
  <2>1. I.rb = NaN /\ ~In(v * Fine, I)
    BY <1>2, EmptySetIs, EmptyHasNone
  <2> QED
    BY <2>1 DEF Leq
<1>3. CASE I \in NonEmpty
  <2>1. /\ left(I) # NaN /\ Num(left(I)) = -Num(I.lb) /\ I.rb # NaN
        /\ Num(I.lb) \in Int /\ Num(I.rb) \in Int /\ I.lb \in Ends /\ I.rb \in Ends
    BY <1>3, NonEmptyIs
  <2>2. /\ I.lb = Infinity => Num(I.lb) = Largest + 1
        /\ I.rb = Infinity => Num(I.rb) = Largest + 1
        /\ Largest \in Nat /\ Fine \in Nat /\ Fine >= 1
    BY <2>1, EndsAre, ConstantsAre
  <2>3. v * Fine \in Int
    BY <1>1, <2>2
  <2>4. In(v * Fine, I) <=> /\ I.lb = Infinity \/ -(Num(I.lb) * Fine) <= v * Fine
                            /\ I.rb = Infinity \/ v * Fine <= Num(I.rb) * Fine
    BY <1>3, <2>3, InIs
  <2>5. v * Fine <= Num(I.rb) * Fine <=> v <= Num(I.rb)
    BY <1>1, <2>1, <2>2, ProductsCompare
  <2>6. -(Num(I.lb) * Fine) <= v * Fine <=> -Num(I.lb) <= v
    <3>1. -(Num(I.lb) * Fine) = (-Num(I.lb)) * Fine
      BY <2>1, <2>2, SignsMultiply
    <3> QED
      BY <1>1, <2>1, <2>2, <3>1, ProductsCompare
  <2>7. /\ Leq(Opposite(I.lb), OfNum(v)) <=> -Num(I.lb) <= v
        /\ Leq(OfNum(v), I.rb) <=> v <= Num(I.rb)
    BY <1>1, <2>1 DEF Leq, left
  <2> QED
    BY <1>1, <2>1, <2>2, <2>4, <2>5, <2>6, <2>7
<1> QED
  BY <1>2, <1>3 DEF Intervals

(* What is in the whole line, and what the whole line is in.                 *)
LEMMA WholeLineIs ==
  ASSUME NEW I \in Intervals
  PROVE  /\ universe \in Intervals
         /\ set_contains(I, universe) <=> Value(I) = Value(universe)
         /\ possibly_eq(universe, I) <=> ~is_empty(I)
<1>1. /\ universe \in NonEmpty /\ universe.lb = Infinity /\ universe.rb = Infinity
      /\ Num(Infinity) = Largest + 1
  BY FloatConstantsAre, InfinityIs DEF universe, Bounds
<1>2. /\ ~is_empty(universe) /\ Value(universe) = <<Largest + 1, Largest + 1>>
  BY <1>1, NonEmptyIs DEF Value
<1> HIDE DEF universe
<1>3. CASE I = emptyset
  <2>1. is_empty(I) /\ left(I) = NaN
    BY <1>3, EmptySetIs
  <2>2. ~set_contains(I, universe) /\ ~possibly_eq(universe, I)
    BY <1>2, <2>1 DEF set_contains, possibly_eq, Leq
  <2>3. Value(I) # Value(universe)
    BY <1>2, <2>1 DEF Value
  <2> QED
    BY <1>1, <2>1, <2>2, <2>3 DEF Intervals
<1>4. CASE I \in NonEmpty
  <2>1. /\ ~is_empty(I) /\ I.lb \in Ends /\ I.rb \in Ends
        /\ Num(I.lb) \in Int /\ Num(I.lb) <= Largest + 1 /\ -Largest <= Num(I.lb)
        /\ Num(I.rb) \in Int /\ Num(I.rb) <= Largest + 1 /\ -Largest <= Num(I.rb)
        /\ Largest \in Nat
    BY <1>4, NonEmptyIs, EndsAre, ConstantsAre
  <2>2. /\ set_contains(I, universe) <=> Largest + 1 <= Num(I.lb) /\ Largest + 1 <= Num(I.rb)
        /\ possibly_eq(universe, I) <=> Largest + 1 + Num(I.lb) >= 0 /\ Num(I.rb) + (Largest + 1) >= 0
    BY <1>1, <1>4, RelationsCompare
  <2>3. Value(I) = <<Num(I.lb), Num(I.rb)>>
    BY <2>1 DEF Value
  <2> QED
    BY <1>1, <1>2, <2>1, <2>2, <2>3 DEF Intervals
<1> QED
  BY <1>3, <1>4 DEF Intervals

(* The relations true of both intervals of two pairs, one by one.            *)
LEMMA PairsCompareBoth ==
  ASSUME NEW I \in Intervals, NEW J \in Intervals, NEW K \in Intervals, NEW L \in Intervals
  PROVE  /\ G!P!set_contains_all(G!P!Pair(I, J), G!P!Pair(K, L))
              <=> set_contains(I, K) /\ set_contains(J, L)
         /\ G!P!set_eq_all(G!P!Pair(I, J), G!P!Pair(K, L))
              <=> Value(I) = Value(K) /\ Value(J) = Value(L)
         /\ G!P!possibly_eq_all(G!P!Pair(I, J), G!P!Pair(K, L))
              <=> possibly_eq(I, K) /\ possibly_eq(J, L)
<1>1. G!P!BothOf(G!P!Pair(I, J), G!P!Pair(K, L)) = {<<I, K>>, <<J, L>>}
  BY PairIs DEF G!P!BothOf
<1>2. \A x, y : /\ G!P!Leq(x, y) <=> Leq(x, y)
                /\ G!P!Eq(x, y) <=> Eq(x, y)
                /\ G!P!Opposite(x) = Opposite(x)
  BY PairFloatsAreDoubles
<1>3. \A M, N : <<M, N>>[1] = M /\ <<M, N>>[2] = N
  OBVIOUS
<1>4. /\ (G!P!nothing(K) \/ (Leq(K.lb, I.lb) /\ Leq(K.rb, I.rb))) <=> set_contains(I, K)
      /\ (G!P!nothing(L) \/ (Leq(L.lb, J.lb) /\ Leq(L.rb, J.rb))) <=> set_contains(J, L)
      /\ ((G!P!nothing(I) /\ G!P!nothing(K)) \/ (Eq(I.lb, K.lb) /\ Eq(I.rb, K.rb)))
           <=> Value(I) = Value(K)
      /\ ((G!P!nothing(J) /\ G!P!nothing(L)) \/ (Eq(J.lb, L.lb) /\ Eq(J.rb, L.rb)))
           <=> Value(J) = Value(L)
      /\ (Leq(Opposite(I.lb), K.rb) /\ Leq(Opposite(K.lb), I.rb)) <=> possibly_eq(I, K)
      /\ (Leq(Opposite(J.lb), L.rb) /\ Leq(Opposite(L.lb), J.rb)) <=> possibly_eq(J, L)
  BY PairRelationsAre
<1>5. G!P!set_contains_all(G!P!Pair(I, J), G!P!Pair(K, L))
        <=> set_contains(I, K) /\ set_contains(J, L)
  BY <1>1, <1>2, <1>3, <1>4 DEF G!P!set_contains_all
<1>6. G!P!set_eq_all(G!P!Pair(I, J), G!P!Pair(K, L))
        <=> Value(I) = Value(K) /\ Value(J) = Value(L)
  BY <1>1, <1>2, <1>3, <1>4 DEF G!P!set_eq_all
<1>7. G!P!possibly_eq_all(G!P!Pair(I, J), G!P!Pair(K, L))
        <=> possibly_eq(I, K) /\ possibly_eq(J, L)
  BY <1>1, <1>2, <1>3, <1>4 DEF G!P!possibly_eq_all
<1> QED
  BY <1>5, <1>6, <1>7

(* The relations of x and y, and of pairs that they are in.                  *)
LEMMA RelationsOfFloats ==
  ASSUME obj["x"] \in Intervals, obj["y"] \in Intervals
  PROVE  G!RelationsAreOfSets
<1> DEFINE I == obj["x"]
           J == obj["y"]
           S == Samples(I)
           T == Samples(J)
           meeting == {x \in S \union T : In(x, I) /\ In(x, J)}
           within(K, U) == \A x \in U : In(x, K)
<1>1. /\ G!F!set_contains(I, J) <=> within(I, T)
      /\ G!F!set_eq(I, J) <=> within(I, T) /\ within(J, S)
      /\ G!F!possibly_eq(I, J) <=> meeting # {}
      /\ G!F!set_disjoint(I, J) <=> meeting = {}
  BY FloatRelationsAre, RelationsOfIntervals
<1>2. /\ G!F!set_strictly_contains(I, J) => within(I, T)
      /\ ~G!F!set_strictly_contains(I, J) =>
           (\E y \in T, e \in {-1, 1} : ~In(y + e, I)) \/ Infinity \in {I.lb, I.rb}
  BY FloatRelationsAre, StrictlyContainsIs
<1>3. /\ universe \in Intervals
      /\ set_contains(I, J) <=> within(I, T)
      /\ set_contains(I, universe) <=> Value(I) = Value(universe)
      /\ possibly_eq(I, J) <=> meeting # {}
      /\ possibly_eq(universe, I) <=> ~is_empty(I)
  BY WholeLineIs, RelationsOfIntervals
<1>4. /\ G!P!set_contains_all(G!P!Pair(I, I), G!P!Pair(J, universe))
           <=> within(I, T) /\ Value(I) = Value(universe)
      /\ G!P!set_eq_all(G!P!Pair(universe, I), G!P!Pair(universe, J)) <=> Value(I) = Value(J)
      /\ G!P!possibly_eq_all(G!P!Pair(I, universe), G!P!Pair(J, I))
           <=> meeting # {} /\ ~is_empty(I)
  BY <1>3, PairsCompareBoth
<1>5. ASSUME NEW v \in FiniteNums
      PROVE  G!P!set_contains(G!P!Pair(I, J), OfNum(v)) =
               2 * (IF In(v * Fine, I) THEN 1 ELSE 0) + (IF In(v * Fine, J) THEN 1 ELSE 0)
  <2>1. \A x, y : G!P!Leq(x, y) <=> Leq(x, y)
    BY PairFloatsAreDoubles
  <2>2. \A x : G!P!Opposite(x) = Opposite(x)
    BY PairFloatsAreDoubles
  <2>3. /\ G!P!Leq(G!P!Opposite(I.lb), OfNum(v)) /\ G!P!Leq(OfNum(v), I.rb) <=> In(v * Fine, I)
        /\ G!P!Leq(G!P!Opposite(J.lb), OfNum(v)) /\ G!P!Leq(OfNum(v), J.rb) <=> In(v * Fine, J)
    BY <2>1, <2>2, PairHas
  <2>4. G!P!first(G!P!Pair(I, J)) = I /\ G!P!second(G!P!Pair(I, J)) = J
    BY PairIs
  <2> QED
    BY <2>3, <2>4 DEF G!P!set_contains
<1>6. /\ G!F!universe = universe /\ G!Infinity = Infinity /\ G!FiniteNums = FiniteNums
      /\ \A K : G!Samples(K) = Samples(K) /\ G!Value(K) = Value(K)
      /\ \A K : G!is_empty(K) = is_empty(K)
      /\ \A x, K : G!In(x, K) = In(x, K)
      /\ \A v : G!OfNum(v) = OfNum(v)
  BY FloatRealsAre, FloatBoundsAre
<1>7. /\ \A U : (\A x \in U : G!In(x, I)) <=> within(I, U)
      /\ \A U : (\A x \in U : G!In(x, J)) <=> within(J, U)
      /\ G!Samples(I) = S /\ G!Samples(J) = T
      /\ {x \in G!Samples(I) \union G!Samples(J) : G!In(x, I) /\ G!In(x, J)} = meeting
      /\ G!Value(I) = Value(I) /\ G!Value(J) = Value(J) /\ G!Value(universe) = Value(universe)
      /\ G!is_empty(I) <=> is_empty(I)
  <2>1. /\ \A x : G!In(x, I) <=> In(x, I)
        /\ \A x : G!In(x, J) <=> In(x, J)
    BY <1>6
  <2> QED
    BY <1>6, <2>1
<1> HIDE DEF S, T, meeting, within
<1>8. /\ G!F!set_contains(I, J) = (\A x \in G!Samples(J) : G!In(x, I))
      /\ G!F!set_eq(I, J) = ((\A x \in G!Samples(J) : G!In(x, I))
                              /\ (\A x \in G!Samples(I) : G!In(x, J)))
  BY <1>1, <1>7 DEF G!F!set_contains, G!F!set_eq
<1>9. /\ G!F!possibly_eq(I, J) =
           ({x \in G!Samples(I) \union G!Samples(J) : G!In(x, I) /\ G!In(x, J)} # {})
      /\ G!F!set_disjoint(I, J) =
           ({x \in G!Samples(I) \union G!Samples(J) : G!In(x, I) /\ G!In(x, J)} = {})
  BY <1>1, <1>7 DEF G!F!possibly_eq, G!F!set_disjoint
<1>10. /\ G!F!set_strictly_contains(I, J) => \A x \in G!Samples(J) : G!In(x, I)
       /\ ~G!F!set_strictly_contains(I, J) =>
            \/ (\E y \in G!Samples(J), e \in {-1, 1} : ~G!In(y + e, I))
            \/ G!Infinity \in {I.lb, I.rb}
  BY <1>2, <1>6, <1>7
<1>11. G!P!set_contains_all(G!P!Pair(I, I), G!P!Pair(J, G!F!universe)) =
         ((\A x \in G!Samples(J) : G!In(x, I)) /\ G!Value(I) = G!Value(G!F!universe))
  BY <1>4, <1>6, <1>7 DEF G!P!set_contains_all
<1>12. G!P!set_eq_all(G!P!Pair(G!F!universe, I), G!P!Pair(G!F!universe, J)) =
         (G!Value(I) = G!Value(J))
  BY <1>4, <1>6, <1>7 DEF G!P!set_eq_all
<1>13. G!P!possibly_eq_all(G!P!Pair(I, G!F!universe), G!P!Pair(J, I)) =
         ({x \in G!Samples(I) \union G!Samples(J) : G!In(x, I) /\ G!In(x, J)} # {}
            /\ ~G!is_empty(I))
  BY <1>4, <1>6, <1>7 DEF G!P!possibly_eq_all
<1>14. \A v \in G!FiniteNums :
         G!P!set_contains(G!P!Pair(I, J), G!OfNum(v)) =
           2 * (IF G!In(v * Fine, I) THEN 1 ELSE 0) + (IF G!In(v * Fine, J) THEN 1 ELSE 0)
  <2>1. /\ \A x : G!In(x, I) <=> In(x, I)
        /\ \A x : G!In(x, J) <=> In(x, J)
    BY <1>6
  <2> QED
    BY <1>5, <1>6, <2>1
<1>15. G!X = I /\ G!Y = J
  BY DEF G!X, G!Y
<1> HIDE DEF I, J
<1>16. /\ G!F!set_contains(G!X, G!Y) = (\A x \in G!Samples(G!Y) : G!In(x, G!X))
       /\ G!F!set_eq(G!X, G!Y) = ((\A x \in G!Samples(G!Y) : G!In(x, G!X))
                                   /\ (\A x \in G!Samples(G!X) : G!In(x, G!Y)))
  BY <1>8, <1>15
<1>17. LET common == {x \in G!Samples(G!X) \union G!Samples(G!Y) : G!In(x, G!X) /\ G!In(x, G!Y)} IN
       /\ G!F!possibly_eq(G!X, G!Y) = (common # {})
       /\ G!F!set_disjoint(G!X, G!Y) = (common = {})
  BY <1>9, <1>15
<1>18. LET strictly == G!F!set_strictly_contains(G!X, G!Y) IN
       /\ strictly => \A x \in G!Samples(G!Y) : G!In(x, G!X)
       /\ ~strictly => \/ (\E y \in G!Samples(G!Y), e \in {-1, 1} : ~G!In(y + e, G!X))
                       \/ G!Infinity \in {G!X.lb, G!X.rb}
  BY <1>10, <1>15
<1>19. G!P!set_contains_all(G!P!Pair(G!X, G!X), G!P!Pair(G!Y, G!F!universe)) =
         ((\A x \in G!Samples(G!Y) : G!In(x, G!X)) /\ G!Value(G!X) = G!Value(G!F!universe))
  BY <1>11, <1>15
<1>20. G!P!set_eq_all(G!P!Pair(G!F!universe, G!X), G!P!Pair(G!F!universe, G!Y)) =
         (G!Value(G!X) = G!Value(G!Y))
  BY <1>12, <1>15
<1>21. LET common == {x \in G!Samples(G!X) \union G!Samples(G!Y) : G!In(x, G!X) /\ G!In(x, G!Y)} IN
       G!P!possibly_eq_all(G!P!Pair(G!X, G!F!universe), G!P!Pair(G!Y, G!X)) =
         (common # {} /\ ~G!is_empty(G!X))
  BY <1>13, <1>15
<1>22. \A v \in G!FiniteNums :
         G!P!set_contains(G!P!Pair(G!X, G!Y), G!OfNum(v)) =
           2 * (IF G!In(v * Fine, G!X) THEN 1 ELSE 0) + (IF G!In(v * Fine, G!Y) THEN 1 ELSE 0)
  BY <1>14, <1>15
<1> QED
  BY <1>16, <1>17, <1>18, <1>19, <1>20, <1>21, <1>22, Zenon DEF G!RelationsAreOfSets

(* For every format: what a program reads of its intervals of floats is right *)
(* after any operations. midpoint(), computed with doubles and rounded once,   *)
(* is the float nearest to the middle and within the bounds, the two parts     *)
(* that split() gives have the whole of the interval, and the relations are    *)
(* those of the sets, on the intervals of a pair too.                         *)
THEOREM FloatBoundsAreReadAlways ==
  MCSpec => []FloatBoundsAreRead
<1>1. MCInit => KeepsFloats
  BY KeepsFloatsIsInductive
<1>2. KeepsFloats /\ [MCNext]_<<vars, floats>> => KeepsFloats'
  BY KeepsFloatsIsInductive
<1>3. KeepsFloats => FloatBoundsAreRead
  <2>1. SUFFICES ASSUME KeepsFloats, floats
                 PROVE  G!MidpointIsNearest /\ G!RelationsAreOfSets
    BY DEF FloatBoundsAreRead, G!BoundsAreRead
  <2>2. obj["x"] \in Intervals /\ obj["y"] \in Intervals
    BY <2>1 DEF KeepsFloats, Names
  <2> QED
    BY <2>2, MidpointOfFloats, RelationsOfFloats
<1> QED
  BY <1>1, <1>2, <1>3, PTL DEF MCSpec

(* The four lanes of a pair.                                                 *)
LEMMA PairHasLanes ==
  ASSUME NEW I, NEW J
  PROVE  /\ G!P!Pair(I, J) = [k \in 0 .. 3 |-> <<I.lb, I.rb, J.lb, J.rb>>[k + 1]]
         /\ G!P!Pair(I, J)[0] = I.lb /\ G!P!Pair(I, J)[1] = I.rb
         /\ G!P!Pair(I, J)[2] = J.lb /\ G!P!Pair(I, J)[3] = J.rb
<1>1. G!P!Pair(I, J) = [k \in 0 .. 3 |-> <<I.lb, I.rb, J.lb, J.rb>>[k + 1]]
  BY DEF G!P!Pair, G!P!Lanes
<1> QED
  BY <1>1

(* What an interval is depends on its bounds only, which a pair keeps.       *)
LEMMA PairHasValues ==
  ASSUME NEW I, NEW J
  PROVE  /\ Value(G!P!first(G!P!Pair(I, J))) = Value(I)
         /\ Value(G!P!second(G!P!Pair(I, J))) = Value(J)
<1>2. /\ G!P!Pair(I, J)[0] = I.lb /\ G!P!Pair(I, J)[1] = I.rb
      /\ G!P!Pair(I, J)[2] = J.lb /\ G!P!Pair(I, J)[3] = J.rb
  BY PairHasLanes
<1>3. ASSUME NEW K, NEW L, K.lb = L.lb, K.rb = L.rb
      PROVE  Value(K) = Value(L)
  <2>1. is_empty(K) <=> is_empty(L)
    BY <1>3 DEF is_empty, left, right
  <2> QED
    BY <1>3, <2>1 DEF Value
<1>4. /\ G!P!first(G!P!Pair(I, J)).lb = I.lb /\ G!P!first(G!P!Pair(I, J)).rb = I.rb
      /\ G!P!second(G!P!Pair(I, J)).lb = J.lb /\ G!P!second(G!P!Pair(I, J)).rb = J.rb
  BY <1>2 DEF G!P!first, G!P!second
<1> QED
  BY <1>3, <1>4

(* The two lanes of an interval x in the product by an interval i: the        *)
(* operator of the case of the switch for i.                                 *)
LanesOf(x, i) ==
  CASE SideBySigns(i) = "M" -> G!P!ByM(x, i)
    [] SideBySigns(i) = "P" -> G!P!ByP(x, i)
    [] SideBySigns(i) = "N" -> G!P!ByN(x, i)
    [] SideBySigns(i) = "Z" -> G!P!ByZ(x, i)

(* The sides of an interval are four.                                        *)
LEMMA SidesAreFour ==
  ASSUME NEW I
  PROVE  /\ G!P!Side(I) = SideBySigns(I)
         /\ SideBySigns(I) \in {"M", "P", "N", "Z"}
<1>1. /\ G!P!SignBit(I.lb) <=> SignBit(I.lb)
      /\ G!P!SignBit(I.rb) <=> SignBit(I.rb)
  BY PairFloatsAreDoubles
<1> QED
  BY <1>1 DEF G!P!Side, SideBySigns

(* A case of the switch is that of each of the two intervals.                *)
LEMMA SwitchIsOfEach ==
  ASSUME NEW I \in Intervals, NEW J \in Intervals, NEW K \in Intervals, NEW L \in Intervals
  PROVE  G!P!Times(G!P!Pair(I, J), G!P!Pair(K, L)) = G!P!Pair(LanesOf(I, K), LanesOf(J, L))
<1> DEFINE A == G!P!Pair(I, J)
           B == G!P!Pair(K, L)
           s == SideBySigns(L)
           t == SideBySigns(K)
<1>0. SUFFICES G!P!Times(A, B) = G!P!Pair(LanesOf(I, K), LanesOf(J, L))
  OBVIOUS
<1>1. /\ G!P!first(A) = I /\ G!P!second(A) = J
      /\ G!P!first(B) = K /\ G!P!second(B) = L
  BY PairIs
<1>2. /\ G!P!Side(K) = t /\ G!P!Side(L) = s
      /\ s \in {"M", "P", "N", "Z"} /\ t \in {"M", "P", "N", "Z"}
  BY SidesAreFour
<1>3. <<G!P!Side(G!P!second(B)), G!P!Side(G!P!first(B))>> = <<s, t>>
  BY <1>1, <1>2
<1> HIDE DEF A, B, s, t
<1>4. /\ s = "M" => LanesOf(J, L) = G!P!ByM(J, L)
      /\ s = "P" => LanesOf(J, L) = G!P!ByP(J, L)
      /\ s = "N" => LanesOf(J, L) = G!P!ByN(J, L)
      /\ s = "Z" => LanesOf(J, L) = G!P!ByZ(J, L)
  BY DEF LanesOf, s
<1>5. /\ t = "M" => LanesOf(I, K) = G!P!ByM(I, K)
      /\ t = "P" => LanesOf(I, K) = G!P!ByP(I, K)
      /\ t = "N" => LanesOf(I, K) = G!P!ByN(I, K)
      /\ t = "Z" => LanesOf(I, K) = G!P!ByZ(I, K)
  BY DEF LanesOf, t
<1>6. CASE s = "M"
  <2>1. G!P!Times(A, B) = CASE t = "M" -> G!P!CasesMM(A, B)
                            [] t = "P" -> G!P!CasesMP(A, B)
                            [] t = "N" -> G!P!CasesMN(A, B)
                            [] t = "Z" -> G!P!CasesMZ(A, B)
    BY <1>2, <1>3, <1>6 DEF G!P!Times
  <2> QED
    BY <1>1, <1>2, <1>4, <1>5, <1>6, <2>1
       DEF G!P!CasesMM, G!P!CasesMP, G!P!CasesMN, G!P!CasesMZ
<1>7. CASE s = "P"
  <2>1. G!P!Times(A, B) = CASE t = "M" -> G!P!CasesPM(A, B)
                            [] t = "P" -> G!P!CasesPP(A, B)
                            [] t = "N" -> G!P!CasesPN(A, B)
                            [] t = "Z" -> G!P!CasesPZ(A, B)
    BY <1>2, <1>3, <1>7 DEF G!P!Times
  <2> QED
    BY <1>1, <1>2, <1>4, <1>5, <1>7, <2>1
       DEF G!P!CasesPM, G!P!CasesPP, G!P!CasesPN, G!P!CasesPZ
<1>8. CASE s = "N"
  <2>1. G!P!Times(A, B) = CASE t = "M" -> G!P!CasesNM(A, B)
                            [] t = "P" -> G!P!CasesNP(A, B)
                            [] t = "N" -> G!P!CasesNN(A, B)
                            [] t = "Z" -> G!P!CasesNZ(A, B)
    BY <1>2, <1>3, <1>8 DEF G!P!Times
  <2> QED
    BY <1>1, <1>2, <1>4, <1>5, <1>8, <2>1
       DEF G!P!CasesNM, G!P!CasesNP, G!P!CasesNN, G!P!CasesNZ
<1>9. CASE s = "Z"
  <2>1. G!P!Times(A, B) = CASE t = "M" -> G!P!CasesZM(A, B)
                            [] t = "P" -> G!P!CasesZP(A, B)
                            [] t = "N" -> G!P!CasesZN(A, B)
                            [] t = "Z" -> G!P!CasesZZ(A, B)
    BY <1>2, <1>3, <1>9 DEF G!P!Times
  <2> QED
    BY <1>1, <1>2, <1>4, <1>5, <1>9, <2>1
       DEF G!P!CasesZM, G!P!CasesZP, G!P!CasesZN, G!P!CasesZZ
<1> QED
  BY <1>2, <1>6, <1>7, <1>8, <1>9

(* The lanes of an interval have the hull of its products.                    *)
LEMMA LanesGiveHull ==
  ASSUME NEW x \in NonEmpty, NEW i \in NonEmpty
  PROVE  Value(LanesOf(x, i)) = Hull(RealProducts(x, i))
<1> DEFINE s == SideBySigns(x)
           t == SideBySigns(i)
           Mul(y, z) == NaNToZero(MulUp(y, z))
<1>1. /\ s \in {"M", "P", "N", "Z"} /\ G!P!Side(x) = s
      /\ t \in {"M", "P", "N", "Z"}
  BY SidesAreFour
<1>2. /\ \A y, z : G!P!Mul(y, z) = NaNToZero(MulUp(y, z))
      /\ \A y, z : G!P!MaxPd(y, z) = MaxPd(y, z)
      /\ \A y : G!P!Opposite(y) = Opposite(y)
      /\ \A l, r : G!P!Lane(l, r) = Bounds(l, r)
      /\ G!P!ZeroLane = Bounds(Zero(FALSE), Zero(FALSE))
  BY PairFloatsAreDoubles DEF G!P!Mul, G!P!Lane, G!P!ZeroLane, Bounds
<1>5. /\ G!P!Opposite(x.lb) = Opposite(x.lb) /\ G!P!Opposite(x.rb) = Opposite(x.rb)
      /\ G!P!Opposite(i.lb) = Opposite(i.lb)
  BY <1>2
<1>6. /\ Mul(Opposite(x.lb), i.lb) = Mul(x.lb, Opposite(i.lb))
      /\ Mul(Opposite(x.rb), i.rb) = Mul(x.rb, Opposite(i.rb))
  BY SignMoves, NonEmptyIs
<1>3. CASE s # "Z" /\ t # "Z"
  <2>1. OnSide(s, x) /\ OnSide(t, i)
    BY <1>3, SidesAre
  <2>2. LanesOf(x, i) = Products(<<s, t>>, x, i)
    <3>1. CASE t = "M"
      <4>1. LanesOf(x, i) = G!P!ByM(x, i)
        BY <3>1 DEF LanesOf
      <4> HIDE DEF s, t
      <4> QED
        BY <1>1, <1>2, <1>3, <3>1, <4>1 DEF G!P!ByM, Products
    <3>2. CASE t = "P"
      <4>1. LanesOf(x, i) = G!P!ByP(x, i)
        BY <3>2 DEF LanesOf
      <4>2. /\ s = "M" => G!P!ByP(x, i) = Bounds(Mul(x.lb, i.rb), Mul(x.rb, i.rb))
            /\ s = "P" => G!P!ByP(x, i) = Bounds(Mul(Opposite(x.lb), i.lb), Mul(x.rb, i.rb))
            /\ s = "N" => G!P!ByP(x, i) = Bounds(Mul(x.lb, i.rb), Mul(x.rb, Opposite(i.lb)))
        BY <1>1, <1>2, <1>5 DEF G!P!ByP
      <4>3. /\ Products(<<"M", "P">>, x, i) = Bounds(Mul(x.lb, i.rb), Mul(x.rb, i.rb))
            /\ Products(<<"P", "P">>, x, i) = Bounds(Mul(x.lb, Opposite(i.lb)), Mul(x.rb, i.rb))
            /\ Products(<<"N", "P">>, x, i) = Bounds(Mul(x.lb, i.rb), Mul(x.rb, Opposite(i.lb)))
        BY DEF Products
      <4> HIDE DEF s, t, Mul
      <4> QED
        BY <1>1, <1>3, <1>6, <3>2, <4>1, <4>2, <4>3
    <3>3. CASE t = "N"
      <4>1. LanesOf(x, i) = G!P!ByN(x, i)
        BY <3>3 DEF LanesOf
      <4>2. /\ s = "M" => G!P!ByN(x, i) = Bounds(Mul(x.rb, i.lb), Mul(x.lb, i.lb))
            /\ s = "P" => G!P!ByN(x, i) = Bounds(Mul(x.rb, i.lb), Mul(Opposite(x.lb), i.rb))
            /\ s = "N" => G!P!ByN(x, i) = Bounds(Mul(Opposite(x.rb), i.rb), Mul(x.lb, i.lb))
        BY <1>1, <1>2, <1>5 DEF G!P!ByN
      <4>3. /\ Products(<<"M", "N">>, x, i) = Bounds(Mul(x.rb, i.lb), Mul(x.lb, i.lb))
            /\ Products(<<"P", "N">>, x, i) = Bounds(Mul(x.rb, i.lb), Mul(Opposite(x.lb), i.rb))
            /\ Products(<<"N", "N">>, x, i) = Bounds(Mul(x.rb, Opposite(i.rb)), Mul(x.lb, i.lb))
        BY DEF Products
      <4> HIDE DEF s, t, Mul
      <4> QED
        BY <1>1, <1>3, <1>6, <3>3, <4>1, <4>2, <4>3
    <3> QED
      BY <1>1, <1>3, <3>1, <3>2, <3>3
  <2> QED
    BY <2>1, <2>2, SidesGiveHull
<1>4. CASE s = "Z" \/ t = "Z"
  <2>1. LanesOf(x, i) = Bounds(Zero(FALSE), Zero(FALSE))
    <3>1. LanesOf(x, i) \in {G!P!ByM(x, i), G!P!ByP(x, i), G!P!ByN(x, i), G!P!ByZ(x, i)}
      BY <1>1 DEF LanesOf
    <3>2. s = "Z" => /\ G!P!ByM(x, i) = G!P!ZeroLane /\ G!P!ByP(x, i) = G!P!ZeroLane
                     /\ G!P!ByN(x, i) = G!P!ZeroLane
      <4> HIDE DEF s
      <4> QED
        BY <1>1 DEF G!P!ByM, G!P!ByP, G!P!ByN
    <3>3. G!P!ByZ(x, i) = G!P!ZeroLane
      BY DEF G!P!ByZ
    <3>4. t = "Z" => LanesOf(x, i) = G!P!ByZ(x, i)
      BY DEF LanesOf
    <3> QED
      BY <1>2, <1>4, <3>1, <3>2, <3>3, <3>4
  <2> DEFINE z == Zero(FALSE)
  <2>2. /\ z \in Ends /\ Num(z) = 0
    BY EndsAre
  <2>3. LanesOf(x, i) \in NonEmpty
    <3> HIDE DEF z
    <3>1. Bounds(z, z) \in NonEmpty
      BY <2>2 DEF NonEmpty, Bounds
    <3> QED
      BY <2>1, <3>1 DEF z
  <2>4. Value(LanesOf(x, i)) = <<0, 0>>
    <3>1. LanesOf(x, i).lb = Zero(FALSE) /\ LanesOf(x, i).rb = Zero(FALSE)
      BY <2>1 DEF Bounds
    <3> QED
      BY <2>2, <2>3, <3>1, NonEmptyIs DEF Value
  <2>5. (Num(x.lb) = 0 /\ Num(x.rb) = 0) \/ (Num(i.lb) = 0 /\ Num(i.rb) = 0)
    BY <1>4, SidesOfZero
  <2> QED
    BY <2>4, <2>5, ZeroGivesHull
<1> QED
  BY <1>3, <1>4

(* The product of two pairs has the products of their intervals.             *)
LEMMA ProductsOfPairsAre ==
  ASSUME NEW I \in NonEmpty, NEW J \in NonEmpty, NEW K \in NonEmpty, NEW L \in NonEmpty
  PROVE  G!Values(G!P!Times(G!P!Pair(I, J), G!P!Pair(K, L))) =
           <<Value(G!F!Times(I, K)), Value(G!F!Times(J, L))>>
<1>1. I \in Intervals /\ J \in Intervals /\ K \in Intervals /\ L \in Intervals
  BY DEF Intervals
<1>2. G!P!Times(G!P!Pair(I, J), G!P!Pair(K, L)) = G!P!Pair(LanesOf(I, K), LanesOf(J, L))
  BY <1>1, SwitchIsOfEach
<1>3. /\ Value(LanesOf(I, K)) = Hull(RealProducts(I, K))
      /\ Value(LanesOf(J, L)) = Hull(RealProducts(J, L))
  BY LanesGiveHull
<1>4. /\ Value(G!F!Times(I, K)) = Hull(RealProducts(I, K))
      /\ Value(G!F!Times(J, L)) = Hull(RealProducts(J, L))
  BY <1>1, FloatProductIsHull
<1> QED
  BY <1>2, <1>3, <1>4, PairHasValues, FloatRealsAre DEF G!Values

(* Sums and differences are by lanes.                                        *)
LEMMA SumsOfPairsAre ==
  ASSUME NEW I, NEW J, NEW K, NEW L
  PROVE  G!P!Plus(G!P!Pair(I, J), G!P!Pair(K, L)) = G!P!Pair(G!F!Plus(I, K), G!F!Plus(J, L))
<1> DEFINE A == G!P!Pair(I, J)
           B == G!P!Pair(K, L)
           M == G!F!Plus(I, K)
           N == G!F!Plus(J, L)
<1>1. G!P!Pair(M, N) = [k \in 0 .. 3 |-> <<M.lb, M.rb, N.lb, N.rb>>[k + 1]]
  BY PairHasLanes
<1>2. /\ A[0] = I.lb /\ A[1] = I.rb /\ A[2] = J.lb /\ A[3] = J.rb
      /\ B[0] = K.lb /\ B[1] = K.rb /\ B[2] = L.lb /\ B[3] = L.rb
  BY PairHasLanes
<1>3. /\ M.lb = AddUp(I.lb, K.lb) /\ M.rb = AddUp(I.rb, K.rb)
      /\ N.lb = AddUp(J.lb, L.lb) /\ N.rb = AddUp(J.rb, L.rb)
  BY FloatsAreDoubles DEF G!F!Plus, G!F!Bounds
<1>4. G!P!Plus(A, B) = [k \in 0 .. 3 |-> AddUp(A[k], B[k])]
  BY PairFloatsAreDoubles DEF G!P!Plus, G!P!Sums, G!P!Lanes
<1> HIDE DEF A, B, M, N
<1>5. \A k \in 0 .. 3 : AddUp(A[k], B[k]) = <<M.lb, M.rb, N.lb, N.rb>>[k + 1]
  <2>1. \A k \in 0 .. 3 : k = 0 \/ k = 1 \/ k = 2 \/ k = 3
    OBVIOUS
  <2> QED
    BY <1>2, <1>3, <2>1
<1>6. G!P!Plus(A, B) = G!P!Pair(M, N)
  BY <1>1, <1>4, <1>5
<1> QED
  BY <1>6 DEF A, B, M, N

(* The lanes of a difference cross those of the second pair.                 *)
LEMMA DifferencesOfPairsAre ==
  ASSUME NEW I, NEW J, NEW K, NEW L
  PROVE  G!P!Minus(G!P!Pair(I, J), G!P!Pair(K, L)) =
           G!P!Pair(G!F!Minus(I, K, FALSE), G!F!Minus(J, L, FALSE))
<1> DEFINE A == G!P!Pair(I, J)
           B == G!P!Pair(K, L)
           C == G!P!Shuffle(B, G!P!Crossed)
           M == G!F!Minus(I, K, FALSE)
           N == G!F!Minus(J, L, FALSE)
<1>1. G!P!Pair(M, N) = [k \in 0 .. 3 |-> <<M.lb, M.rb, N.lb, N.rb>>[k + 1]]
  BY PairHasLanes
<1>2. /\ A[0] = I.lb /\ A[1] = I.rb /\ A[2] = J.lb /\ A[3] = J.rb
      /\ B[0] = K.lb /\ B[1] = K.rb /\ B[2] = L.lb /\ B[3] = L.rb
  BY PairHasLanes
<1>3. /\ M.lb = AddUp(I.lb, K.rb) /\ M.rb = AddUp(I.rb, K.lb)
      /\ N.lb = AddUp(J.lb, L.rb) /\ N.rb = AddUp(J.rb, L.lb)
  BY FloatsAreDoubles DEF G!F!Minus, G!F!Bounds
<1>4. /\ G!P!Minus(A, B) = [k \in 0 .. 3 |-> AddUp(A[k], C[k])]
      /\ C[0] = B[1] /\ C[1] = B[0] /\ C[2] = B[3] /\ C[3] = B[2]
  BY PairFloatsAreDoubles DEF G!P!Minus, G!P!Sums, G!P!Lanes, G!P!Shuffle, G!P!Crossed
<1> HIDE DEF A, B, C, M, N
<1>5. \A k \in 0 .. 3 : AddUp(A[k], C[k]) = <<M.lb, M.rb, N.lb, N.rb>>[k + 1]
  <2>1. \A k \in 0 .. 3 : k = 0 \/ k = 1 \/ k = 2 \/ k = 3
    OBVIOUS
  <2> QED
    BY <1>2, <1>3, <1>4, <2>1
<1>6. G!P!Minus(A, B) = G!P!Pair(M, N)
  BY <1>1, <1>4, <1>5
<1> QED
  BY <1>6 DEF A, B, M, N

(* The other intervals tried are not empty.                                  *)
LEMMA CompanionsAreNonEmpty ==
  G!Companions \subseteq NonEmpty
<1>1. ASSUME NEW l \in Doubles, NEW r \in Doubles, Num(l) <= Num(r), Num(l) <= Largest, Num(r) >= -Largest
      PROVE  G!F!intervalf(l, r) \in NonEmpty
  <2>1. /\ Opposite(l) \in Doubles /\ Num(Opposite(l)) = -Num(l) /\ Num(l) \in Int
        /\ Num(r) \in Int /\ Largest \in Nat /\ Num(MinusInfinity) = -(Largest + 1)
    BY OppositeIsDouble, NumOfMagnitude, InfinityIs, LargestMagnitude
  <2>2. Opposite(l) # MinusInfinity /\ r # MinusInfinity
    BY <1>1, <2>1
  <2>3. Opposite(l) \in Ends /\ r \in Ends
    BY <2>1, <2>2, EndsAre
  <2>4. Num(Opposite(l)) + Num(r) >= 0
    BY <1>1, <2>1
  <2>5. G!F!intervalf(l, r) = Bounds(Opposite(l), r)
    BY FloatBoundsAre
  <2> QED
    BY <2>3, <2>4, <2>5 DEF NonEmpty, Bounds
<1>2. \A v \in {One, -One, Largest, -Largest} : OfNum(v) \in Doubles /\ Num(OfNum(v)) = v
  <2>1. One \in Magnitudes
    BY MagnitudesAssumption
  <2>2. {One, -One, Largest, -Largest} \subseteq FiniteNums
    BY <2>1, FiniteNumsRange
  <2> QED
    BY <2>2, OfNumIsNum
<1>3. /\ One \in Nat /\ One >= 1 /\ Largest \in Nat /\ One <= Largest /\ Largest >= 1
      /\ Infinity \in Doubles /\ Num(Infinity) = Largest + 1
      /\ \A neg \in BOOLEAN : Zero(neg) \in Doubles /\ Num(Zero(neg)) = 0
  BY MagnitudesAssumption, LargestMagnitude, InfinityIs, EndsAre
<1>4. G!F!intervalf(OfNum(-One), OfNum(Largest)) \in NonEmpty
  <2>1. -One <= Largest /\ -One \in {One, -One, Largest, -Largest}
        /\ Largest \in {One, -One, Largest, -Largest} /\ Largest >= -Largest
    BY <1>3
  <2> QED
    BY <1>1, <1>2, <1>3, <2>1
<1>5. G!F!intervalf(OfNum(One), Infinity) \in NonEmpty
  <2>1. One <= Largest + 1 /\ Largest + 1 >= -Largest
    BY <1>3
  <2> QED
    BY <1>1, <1>2, <1>3, <2>1
<1>6. G!F!intervalf(OfNum(-Largest), OfNum(-One)) \in NonEmpty
  <2>1. -Largest <= -One /\ -Largest <= Largest
        /\ -One \in {One, -One, Largest, -Largest}
        /\ -Largest \in {One, -One, Largest, -Largest}
    BY <1>3
  <2> QED
    BY <1>1, <1>2, <1>3, <2>1
<1>7. G!F!intervalf(Zero(FALSE), Zero(TRUE)) \in NonEmpty
  <2>1. /\ 0 <= Largest /\ 0 >= -Largest
    BY <1>3
  <2> DEFINE z == Zero(FALSE)
             w == Zero(TRUE)
  <2>2. z \in Doubles /\ Num(z) = 0 /\ w \in Doubles /\ Num(w) = 0
    BY EndsAre
  <2> HIDE DEF z, w
  <2>3. G!F!intervalf(z, w) \in NonEmpty
    BY <1>1, <2>1, <2>2
  <2> QED
    BY <2>3 DEF z, w
<1>8. G!Companions = {G!F!intervalf(OfNum(-One), OfNum(Largest)), G!F!intervalf(OfNum(One), Infinity),
                      G!F!intervalf(OfNum(-Largest), OfNum(-One)),
                      G!F!intervalf(Zero(FALSE), Zero(TRUE))}
  <2>1. G!Largest = Largest
    BY DEF G!Largest, Largest
  <2> QED
    BY <2>1, FloatRealsAre DEF G!Companions
<1> QED
  BY <1>4, <1>5, <1>6, <1>7, <1>8

(* For every format: the sum, the difference and the product of two pairs of  *)
(* intervals of floats, four lanes at once, give each of the two intervals    *)
(* what the operation on it alone gives, in either position, whatever the     *)
(* interval beside it; products when none is empty. The sixteen cases of the  *)
(* switch on the signs of the bounds are hulls as the nine of operator*=.     *)
THEOREM PairsAreTwoIntervalsAlways ==
  MCSpec => []PairsAreTwoIntervals
<1>1. MCInit => KeepsFloats
  BY KeepsFloatsIsInductive
<1>2. KeepsFloats /\ [MCNext]_<<vars, floats>> => KeepsFloats'
  BY KeepsFloatsIsInductive
<1>3. KeepsFloats => PairsAreTwoIntervals
  <2>1. SUFFICES ASSUME KeepsFloats, floats
                 PROVE  G!PairsAreTwoIntervals
    BY DEF PairsAreTwoIntervals
  <2> DEFINE I == obj["x"]
             J == obj["y"]
  <2>2. I \in Intervals /\ J \in Intervals
    BY <2>1 DEF KeepsFloats, Names
  <2>3. G!X = I /\ G!Y = J
    BY DEF G!X, G!Y
  <2> HIDE DEF I, J
  <2>4. G!Values(G!P!Plus(G!P!Pair(I, J), G!P!Pair(J, I))) =
          <<G!Value(G!F!Plus(I, J)), G!Value(G!F!Plus(J, I))>>
    <3>1. G!P!Plus(G!P!Pair(I, J), G!P!Pair(J, I)) = G!P!Pair(G!F!Plus(I, J), G!F!Plus(J, I))
      BY SumsOfPairsAre
    <3>2. /\ Value(G!P!first(G!P!Pair(G!F!Plus(I, J), G!F!Plus(J, I)))) = Value(G!F!Plus(I, J))
          /\ Value(G!P!second(G!P!Pair(G!F!Plus(I, J), G!F!Plus(J, I)))) = Value(G!F!Plus(J, I))
      BY PairHasValues
    <3> QED
      BY <3>1, <3>2, FloatRealsAre DEF G!Values
  <2>5. G!Values(G!P!Minus(G!P!Pair(I, J), G!P!Pair(J, I))) =
          <<G!Value(G!F!Minus(I, J, FALSE)), G!Value(G!F!Minus(J, I, FALSE))>>
    <3> DEFINE K == G!F!Minus(I, J, FALSE)
               L == G!F!Minus(J, I, FALSE)
    <3>1. G!P!Minus(G!P!Pair(I, J), G!P!Pair(J, I)) = G!P!Pair(K, L)
      BY DifferencesOfPairsAre
    <3>2. Value(G!P!first(G!P!Pair(K, L))) = Value(K) /\ Value(G!P!second(G!P!Pair(K, L))) = Value(L)
      BY PairHasValues
    <3> QED
      BY <3>1, <3>2, FloatRealsAre DEF G!Values
  <2>6. ASSUME {I, J} \cap {G!F!emptyset} = {}, NEW D \in G!Companions, NEW p \in G!Positions(D)
        PROVE  G!Values(G!P!Times(G!P!Pair(p[1], p[2]), G!P!Pair(p[3], p[4]))) =
                 <<G!Value(G!F!Times(p[1], p[3])), G!Value(G!F!Times(p[2], p[4]))>>
    <3>1. I \in NonEmpty /\ J \in NonEmpty
      BY <2>2, <2>6, FloatBoundsAre DEF Intervals
    <3>2. D \in NonEmpty
      BY <2>6, CompanionsAreNonEmpty
    <3>3. p = <<I, J, J, D>> \/ p = <<J, I, D, J>>
      BY <2>3, <2>6 DEF G!Positions
    <3>4. p[1] \in NonEmpty /\ p[2] \in NonEmpty /\ p[3] \in NonEmpty /\ p[4] \in NonEmpty
      BY <3>1, <3>2, <3>3
    <3> QED
      <4> DEFINE a == p[1]
                 b == p[2]
                 c == p[3]
                 e == p[4]
      <4>0. a \in NonEmpty /\ b \in NonEmpty /\ c \in NonEmpty /\ e \in NonEmpty
        BY <3>4
      <4> HIDE DEF a, b, c, e
      <4>1. G!Values(G!P!Times(G!P!Pair(a, b), G!P!Pair(c, e))) =
              <<Value(G!F!Times(a, c)), Value(G!F!Times(b, e))>>
        BY <4>0, ProductsOfPairsAre
      <4> QED
        BY <4>1, FloatRealsAre DEF a, b, c, e
  <2> QED
    BY <2>3, <2>4, <2>5, <2>6 DEF G!PairsAreTwoIntervals
<1> QED
  BY <1>1, <1>2, <1>3, PTL DEF MCSpec

-----------------------------------------------------------------------------
(* The loop of binary exponentiation of the registers of a pair: its states,  *)
(* the one after another, and what its rest returns                         *)
Registers == [G!P!Lanes -> Numbers]
RegisterStage(e) == [n : 0 .. e, y : Registers, z : Registers]
RegisterAfter(s, lanes) ==
  [n |-> s.n \div 2, y |-> G!P!Multiplied(s.n, s.y, s.z, lanes),
   z |-> IF s.n = 1 THEN s.z ELSE G!P!Products(s.z, G!P!Negated(s.z, lanes))]
RegisterCarried(g, e, lanes) ==
  [s \in RegisterStage(e) |->
     IF s.n = 0 THEN G!P!Negated(s.y, lanes) ELSE g[RegisterAfter(s, lanes)]]

(* The state of the loop of one lane, which is negated or not                *)
Direction(k, lanes) == IF k \in lanes THEN "down" ELSE "up"
LaneOf(s, k) == [n |-> s.n, y |-> s.y[k], z |-> s.z[k]]

(* The lanes of the registers that the operations give: those of two.        *)
LEMMA LanesOfTwo ==
  ASSUME NEW A, NEW B, NEW k \in G!P!Lanes
  PROVE  /\ G!P!Products(A, B)[k] = MulUp(A[k], B[k])
         /\ G!P!Maxima(A, B)[k] = MaxPd(A[k], B[k])
  BY PairFloatsAreDoubles DEF G!P!Products, G!P!Maxima

(* Those negated.                                                            *)
LEMMA LanesNegated ==
  ASSUME NEW A, NEW lanes, NEW k \in G!P!Lanes
  PROVE  G!P!Negated(A, lanes)[k] = IF k \in lanes THEN Opposite(A[k]) ELSE A[k]
  BY PairFloatsAreDoubles DEF G!P!Negated

PlusZero == Zero(FALSE)

(* Those cleared.                                                            *)
LEMMA LanesCleared ==
  ASSUME NEW A, NEW lanes, NEW k \in G!P!Lanes
  PROVE  /\ k \in lanes => G!P!Cleared(A, lanes)[k] = PlusZero
         /\ k \notin lanes => G!P!Cleared(A, lanes)[k] = A[k]
  BY PairFloatsAreDoubles DEF G!P!Cleared, PlusZero

(* The lanes of the state after another are the states after its lanes.      *)
LEMMA LanesFollow ==
  ASSUME NEW e \in Nat, NEW s \in RegisterStage(e), s.n # 0, NEW lanes, NEW k \in G!P!Lanes
  PROVE  /\ LaneOf(RegisterAfter(s, lanes), k) =
              After(LaneOf(s, k), Direction(k, lanes), Direction(k, lanes))
         /\ LaneOf(s, k) \in Stage(e)
<1> DEFINE t == RegisterAfter(s, lanes)
           u == LaneOf(s, k)
           d == Direction(k, lanes)
           v == After(u, d, d)
<1>1. s.n \in 0 .. e /\ s.y \in Registers /\ s.z \in Registers
  BY DEF RegisterStage
<1>2. u \in Stage(e) /\ u.n = s.n /\ u.y = s.y[k] /\ u.z = s.z[k]
  BY <1>1 DEF LaneOf, Stage, Registers
<1>3. /\ t.n = s.n \div 2
      /\ t.y = G!P!Multiplied(s.n, s.y, s.z, lanes)
      /\ t.z = IF s.n = 1 THEN s.z ELSE G!P!Products(s.z, G!P!Negated(s.z, lanes))
  BY DEF RegisterAfter
<1>4. /\ v.n = u.n \div 2
      /\ v.y = G!F!Multiplied(u.n, u.y, u.z, d)
      /\ v.z = IF u.n = 1 THEN u.z ELSE G!F!Square(u.z, d)
      /\ v = [n |-> v.n, y |-> v.y, z |-> v.z]
  BY DEF After
<1>5. t.y[k] = IF s.n % 2 = 1
               THEN IF k \in lanes THEN Opposite(MulUp(s.y[k], s.z[k])) ELSE MulUp(s.y[k], s.z[k])
               ELSE s.y[k]
  <2>1. t.y = IF s.n % 2 = 1 THEN G!P!Negated(G!P!Products(s.y, s.z), lanes) ELSE s.y
    BY <1>3 DEF G!P!Multiplied, G!P!odd
  <2>2. G!P!Products(s.y, s.z)[k] = MulUp(s.y[k], s.z[k])
    BY LanesOfTwo
  <2>3. G!P!Negated(G!P!Products(s.y, s.z), lanes)[k] =
          IF k \in lanes THEN Opposite(G!P!Products(s.y, s.z)[k]) ELSE G!P!Products(s.y, s.z)[k]
    BY LanesNegated
  <2> HIDE DEF t
  <2> QED
    BY <2>1, <2>2, <2>3
<1>6. t.z[k] = IF s.n = 1 THEN s.z[k]
               ELSE IF k \in lanes THEN MulUp(s.z[k], Opposite(s.z[k])) ELSE MulUp(s.z[k], s.z[k])
  <2>1. G!P!Negated(s.z, lanes)[k] = IF k \in lanes THEN Opposite(s.z[k]) ELSE s.z[k]
    BY LanesNegated
  <2>2. G!P!Products(s.z, G!P!Negated(s.z, lanes))[k] = MulUp(s.z[k], G!P!Negated(s.z, lanes)[k])
    BY LanesOfTwo
  <2> HIDE DEF t
  <2> QED
    BY <1>3, <2>1, <2>2
<1>7. LaneOf(t, k) = [n |-> t.n, y |-> t.y[k], z |-> t.z[k]]
  BY DEF LaneOf
<1> HIDE DEF t, u, v
<1>8. CASE k \in lanes
  <2>1. d = "down"
    BY <1>8 DEF Direction
  <2>2. /\ v.y = IF s.n % 2 = 1 THEN Opposite(MulUp(s.y[k], s.z[k])) ELSE s.y[k]
        /\ v.z = IF s.n = 1 THEN s.z[k] ELSE MulUp(s.z[k], Opposite(s.z[k]))
    BY <1>2, <1>4, <2>1, SquaresAre
  <2>3. v.n = t.n /\ v.y = t.y[k] /\ v.z = t.z[k]
    BY <1>2, <1>3, <1>4, <1>5, <1>6, <1>8, <2>2
  <2>4. LaneOf(t, k) = v
    BY <1>4, <1>7, <2>3
  <2> QED
    BY <1>2, <2>4 DEF t, u, v
<1>9. CASE k \notin lanes
  <2>1. d = "up"
    BY <1>9 DEF Direction
  <2>2. /\ v.y = IF s.n % 2 = 1 THEN MulUp(s.y[k], s.z[k]) ELSE s.y[k]
        /\ v.z = IF s.n = 1 THEN s.z[k] ELSE MulUp(s.z[k], s.z[k])
    BY <1>2, <1>4, <2>1, SquaresAre
  <2>3. v.n = t.n /\ v.y = t.y[k] /\ v.z = t.z[k]
    BY <1>2, <1>3, <1>4, <1>5, <1>6, <1>9, <2>2
  <2>4. LaneOf(t, k) = v
    BY <1>4, <1>7, <2>3
  <2> QED
    BY <1>2, <2>4 DEF t, u, v
<1> QED
  BY <1>8, <1>9

(* A state of the registers is followed by one of a lesser exponent.         *)
LEMMA RegisterStageIsFollowed ==
  ASSUME NEW e \in Nat, NEW s \in RegisterStage(e), s.n # 0, NEW lanes
  PROVE  /\ RegisterAfter(s, lanes) \in RegisterStage(e)
         /\ RegisterAfter(s, lanes).n \in Nat /\ RegisterAfter(s, lanes).n < s.n
<1> DEFINE t == RegisterAfter(s, lanes)
<1>1. s.n \in 0 .. e /\ s.y \in Registers /\ s.z \in Registers
  BY DEF RegisterStage
<1>2. ASSUME NEW k \in G!P!Lanes
      PROVE  /\ t.n \in 0 .. e /\ t.n < s.n
             /\ t.y[k] \in Numbers /\ t.z[k] \in Numbers
  <2> DEFINE d == Direction(k, lanes)
             u == LaneOf(s, k)
  <2>1. LaneOf(t, k) = After(u, d, d) /\ u \in Stage(e)
    BY <1>2, LanesFollow
  <2>2. u.n = s.n /\ LaneOf(t, k).n = t.n /\ LaneOf(t, k).y = t.y[k] /\ LaneOf(t, k).z = t.z[k]
    BY DEF LaneOf
  <2>3. d \in Upward
    BY DEF Direction, Upward
  <2> HIDE DEF d, t, u
  <2>4. After(u, d, d) \in Stage(e) /\ After(u, d, d).n < s.n
    <3>1. s.n <= e + 1
      BY <1>1
    <3> QED
      BY <2>1, <2>2, <2>3, <3>1, StageIsFollowed
  <2> QED
    BY <2>1, <2>2, <2>4 DEF Stage
<1>3. 0 \in G!P!Lanes
  BY DEF G!P!Lanes
<1>4. t = [n |-> t.n, y |-> t.y, z |-> t.z] /\ t.n = s.n \div 2
  BY DEF RegisterAfter
<1>5. t.y = [k \in G!P!Lanes |-> t.y[k]] /\ t.z = [k \in G!P!Lanes |-> t.z[k]]
  <2>1. /\ s.y = [k \in G!P!Lanes |-> s.y[k]]
        /\ s.z = [k \in G!P!Lanes |-> s.z[k]]
    BY <1>1 DEF Registers
  <2>2. /\ t.y = G!P!Multiplied(s.n, s.y, s.z, lanes)
        /\ t.z = IF s.n = 1 THEN s.z ELSE G!P!Products(s.z, G!P!Negated(s.z, lanes))
    BY DEF RegisterAfter
  <2>3. ASSUME NEW A, NEW B
        PROVE  /\ G!P!Products(A, B) = [k \in G!P!Lanes |-> G!P!Products(A, B)[k]]
               /\ G!P!Negated(A, lanes) = [k \in G!P!Lanes |-> G!P!Negated(A, lanes)[k]]
    BY DEF G!P!Products, G!P!Negated
  <2> HIDE DEF t
  <2>4. t.y = G!P!Negated(G!P!Products(s.y, s.z), lanes) \/ t.y = s.y
    BY <2>2 DEF G!P!Multiplied
  <2>5. t.y = [k \in G!P!Lanes |-> t.y[k]]
    BY <2>1, <2>3, <2>4
  <2>6. t.z = [k \in G!P!Lanes |-> t.z[k]]
    BY <2>1, <2>2, <2>3
  <2> QED
    BY <2>5, <2>6
<1> HIDE DEF t
<1>6. t.y \in Registers /\ t.z \in Registers
  BY <1>2, <1>5 DEF Registers
<1>7. t \in RegisterStage(e) /\ t.n \in Nat /\ t.n < s.n
  <2>1. t.n \in 0 .. e /\ t.n < s.n
    BY <1>2, <1>3
  <2> QED
    BY <1>4, <1>6, <2>1 DEF RegisterStage
<1> QED
  BY <1>7 DEF t

(* What is made of the loops of the lanes is a loop of the registers.         *)
LEMMA RegisterLoopIsFunction ==
  ASSUME NEW e \in Nat, NEW lanes
  PROVE  \E f : f = RegisterCarried(f, e, lanes)
<1>1. PICK g : g = Carried(g, e, "down", "down")
  BY LoopIsFunction, Zenon DEF Upward
<1>2. PICK h : h = Carried(h, e, "up", "up")
  BY LoopIsFunction, Zenon DEF Upward
<1> DEFINE lane(s, k) == IF k \in lanes THEN Opposite(g[LaneOf(s, k)]) ELSE h[LaneOf(s, k)]
           f == [s \in RegisterStage(e) |-> [k \in G!P!Lanes |-> lane(s, k)]]
           next(s) == IF s.n = 0 THEN G!P!Negated(s.y, lanes) ELSE f[RegisterAfter(s, lanes)]
<1>3. ASSUME NEW s \in RegisterStage(e)
      PROVE  [k \in G!P!Lanes |-> lane(s, k)] = next(s)
  <2>1. CASE s.n = 0
    <3>1. ASSUME NEW k \in G!P!Lanes
          PROVE  lane(s, k) = IF k \in lanes THEN Opposite(s.y[k]) ELSE s.y[k]
      <4>1. /\ LaneOf(s, k) \in Stage(e) /\ LaneOf(s, k).n = 0 /\ LaneOf(s, k).y = s.y[k]
        BY <2>1 DEF LaneOf, Stage, RegisterStage, Registers
      <4>2. g[LaneOf(s, k)] = s.y[k]
        BY <1>1, <4>1 DEF Carried
      <4>3. h[LaneOf(s, k)] = s.y[k]
        BY <1>2, <4>1 DEF Carried
      <4> QED
        BY <4>2, <4>3
    <3>2. G!P!Negated(s.y, lanes) =
            [k \in G!P!Lanes |-> IF k \in lanes THEN Opposite(s.y[k]) ELSE s.y[k]]
      BY PairFloatsAreDoubles DEF G!P!Negated
    <3> HIDE DEF lane
    <3> QED
      BY <2>1, <3>1, <3>2
  <2>2. CASE s.n # 0
    <3> DEFINE t == RegisterAfter(s, lanes)
    <3>1. t \in RegisterStage(e)
      BY <2>2, RegisterStageIsFollowed
    <3>2. ASSUME NEW k \in G!P!Lanes
          PROVE  lane(s, k) = lane(t, k)
      <4> DEFINE d == Direction(k, lanes)
                 u == LaneOf(s, k)
      <4>1. LaneOf(t, k) = After(u, d, d) /\ u \in Stage(e) /\ u.n # 0
        <5>1. u.n = s.n
          BY DEF LaneOf
        <5> QED
          BY <2>2, <5>1, LanesFollow
      <4> HIDE DEF t, u, d
      <4>2. g[u] = g[After(u, "down", "down")]
        BY <1>1, <4>1 DEF Carried
      <4>3. h[u] = h[After(u, "up", "up")]
        BY <1>2, <4>1 DEF Carried
      <4>4. lane(s, k) = IF k \in lanes THEN Opposite(g[u]) ELSE h[u]
        BY DEF u
      <4>5. lane(t, k) = IF k \in lanes THEN Opposite(g[After(u, d, d)]) ELSE h[After(u, d, d)]
        BY <4>1
      <4> HIDE DEF lane
      <4> QED
        BY <4>2, <4>3, <4>4, <4>5 DEF Direction, d
    <3> HIDE DEF lane, t
    <3>3. next(s) = f[t]
      BY <2>2 DEF t
    <3>4. f[t] = [k \in G!P!Lanes |-> lane(t, k)]
      BY <3>1
    <3> HIDE DEF f, next
    <3> QED
      BY <3>2, <3>3, <3>4
  <2> QED
    BY <2>1, <2>2
<1> HIDE DEF lane
<1>4. f = [s \in RegisterStage(e) |-> next(s)]
  <2>1. f = [s \in RegisterStage(e) |-> [k \in G!P!Lanes |-> lane(s, k)]]
    OBVIOUS
  <2> HIDE DEF f, next
  <2> QED
    BY <1>3, <2>1
<1>5. f = RegisterCarried(f, e, lanes)
  <2>1. RegisterCarried(f, e, lanes) = [s \in RegisterStage(e) |-> next(s)]
    BY Zenon DEF RegisterCarried
  <2> HIDE DEF f, next
  <2> QED
    BY <1>4, <2>1
<1> QED
  BY <1>5

(* A loop of the registers returns what those of its lanes do.               *)
LEMMA RegisterLoopIsOfLanes ==
  ASSUME NEW e \in Nat, NEW lanes, NEW f, f = RegisterCarried(f, e, lanes),
         NEW g, g = Carried(g, e, "down", "down"), NEW h, h = Carried(h, e, "up", "up")
  PROVE  \A s \in RegisterStage(e), k \in G!P!Lanes :
           f[s][k] = IF k \in lanes THEN Opposite(g[LaneOf(s, k)]) ELSE h[LaneOf(s, k)]
<1> DEFINE lane(s, k) == IF k \in lanes THEN Opposite(g[LaneOf(s, k)]) ELSE h[LaneOf(s, k)]
           Bad == {m \in 0 .. e : \E s \in RegisterStage(e), k \in G!P!Lanes :
                                    s.n = m /\ f[s][k] # lane(s, k)}
<1>0. \A s \in RegisterStage(e) : s.n \in 0 .. e
  BY DEF RegisterStage
<1> SUFFICES ASSUME Bad # {} PROVE FALSE
  BY <1>0
<1>1. PICK m \in Bad : \A n \in Bad : m <= n
  <2>1. Bad \subseteq Nat
    OBVIOUS
  <2> HIDE DEF Bad
  <2> QED
    BY <2>1, LeastNatural
<1>2. PICK s \in RegisterStage(e), k \in G!P!Lanes : s.n = m /\ f[s][k] # lane(s, k)
  BY <1>1
<1> DEFINE u == LaneOf(s, k)
           d == Direction(k, lanes)
<1>3. f[s] = IF s.n = 0 THEN G!P!Negated(s.y, lanes) ELSE f[RegisterAfter(s, lanes)]
  BY DEF RegisterCarried
<1>4. u \in Stage(e) /\ u.n = s.n /\ u.y = s.y[k]
  BY DEF LaneOf, Stage, RegisterStage, Registers
<1>5. /\ g[u] = IF u.n = 0 THEN u.y ELSE g[After(u, "down", "down")]
      /\ h[u] = IF u.n = 0 THEN u.y ELSE h[After(u, "up", "up")]
  <2> HIDE DEF u
  <2>1. g[u] = IF u.n = 0 THEN u.y ELSE g[After(u, "down", "down")]
    BY <1>4 DEF Carried
  <2>2. h[u] = IF u.n = 0 THEN u.y ELSE h[After(u, "up", "up")]
    BY <1>4 DEF Carried
  <2> QED
    BY <2>1, <2>2
<1>6. lane(s, k) = IF k \in lanes THEN Opposite(g[u]) ELSE h[u]
  OBVIOUS
<1>7. CASE s.n = 0
  <2>0. G!P!Negated(s.y, lanes)[k] = IF k \in lanes THEN Opposite(s.y[k]) ELSE s.y[k]
    BY LanesNegated
  <2>1. f[s][k] = IF k \in lanes THEN Opposite(s.y[k]) ELSE s.y[k]
    BY <1>3, <1>7, <2>0
  <2> HIDE DEF lane, u
  <2> QED
    BY <1>2, <1>4, <1>5, <1>6, <1>7, <2>1
<1>8. CASE s.n # 0
  <2> DEFINE t == RegisterAfter(s, lanes)
  <2>1. t \in RegisterStage(e) /\ t.n \in Nat /\ t.n < s.n
    BY <1>8, RegisterStageIsFollowed
  <2>2. LaneOf(t, k) = After(u, d, d)
    BY <1>8, LanesFollow
  <2>3. lane(t, k) = IF k \in lanes THEN Opposite(g[After(u, d, d)]) ELSE h[After(u, d, d)]
    BY <2>2
  <2>4. f[s] = f[t]
    BY <1>3, <1>8
  <2> HIDE DEF lane, u, d, t, Bad
  <2>5. lane(s, k) = lane(t, k)
    BY <1>4, <1>5, <1>6, <1>8, <2>3 DEF Direction, d
  <2>6. f[t][k] # lane(t, k)
    BY <1>2, <2>4, <2>5
  <2>7. t.n \in Bad
    BY <1>0, <2>1, <2>6 DEF Bad
  <2> QED
    BY <1>0, <1>1, <1>2, <2>1, <2>7
<1> QED
  BY <1>7, <1>8

(* The power of a pair, lane by lane: PowerDn() of those negated, and PowerUp() *)
(* of the others.                                                            *)
LEMMA PowerIsOfLanes ==
  ASSUME NEW A \in Registers, NEW e \in Nat, NEW lanes, NEW k \in G!P!Lanes
  PROVE  G!P!Power(A, e, lanes)[k] =
           IF k \in lanes THEN Opposite(G!F!PowerDn(A[k], e)) ELSE G!F!PowerUp(A[k], e)
<1> DEFINE f == CHOOSE power : power = RegisterCarried(power, e, lanes)
           start(z) == [n |-> e, y |-> OfNum(One), z |-> z]
           first == [n |-> e, y |-> [i \in G!P!Lanes |-> OfNum(One)], z |-> A]
<1>1. f = RegisterCarried(f, e, lanes)
  BY RegisterLoopIsFunction, Zenon
<1>2. PICK g : /\ g = Carried(g, e, "down", "down")
               /\ \A z : G!F!BinaryPower(z, e, "down", "down") = g[start(z)]
  BY PowerIsLoop, Zenon DEF Upward
<1>3. PICK h : /\ h = Carried(h, e, "up", "up")
               /\ \A z : G!F!BinaryPower(z, e, "up", "up") = h[start(z)]
  BY PowerIsLoop, Zenon DEF Upward
<1>4. \A z : G!F!PowerDn(z, e) = g[start(z)] /\ G!F!PowerUp(z, e) = h[start(z)]
  BY <1>2, <1>3, Zenon DEF G!F!PowerDn, G!F!PowerUp
<1>5. G!P!Power(A, e, lanes) = f[first]
  <2>1. Registers = [G!P!Lanes -> G!P!Doubles \union {G!P!NaN}]
    BY PairFloatsAreDoubles DEF Registers, Numbers
  <2>2. f = CHOOSE power : power =
          [s \in [n : 0 .. e, y : [G!P!Lanes -> G!P!Doubles \union {G!P!NaN}],
                  z : [G!P!Lanes -> G!P!Doubles \union {G!P!NaN}]] |->
             IF s.n = 0 THEN G!P!Negated(s.y, lanes)
             ELSE power[[n |-> s.n \div 2, y |-> G!P!Multiplied(s.n, s.y, s.z, lanes),
                         z |-> IF s.n = 1 THEN s.z ELSE G!P!Products(s.z, G!P!Negated(s.z, lanes))]]]
    BY <2>1, Zenon DEF RegisterCarried, RegisterStage, RegisterAfter
  <2> HIDE DEF f
  <2>3. \A v : G!P!OfNum(v) = OfNum(v)
    BY PairFloatsAreDoubles
  <2> QED
    BY <2>2, <2>3, Zenon DEF G!P!Power
<1>6. first \in RegisterStage(e) /\ LaneOf(first, k) = start(A[k])
  <2>1. OfNum(One) \in Numbers
    BY UnitIs, EndsAre DEF Numbers
  <2>2. [i \in G!P!Lanes |-> OfNum(One)] \in Registers
    BY <2>1 DEF Registers
  <2> QED
    BY <2>2 DEF RegisterStage, LaneOf
<1> HIDE DEF f, first
<1>7. f[first][k] = IF k \in lanes THEN Opposite(g[LaneOf(first, k)]) ELSE h[LaneOf(first, k)]
  BY <1>1, <1>2, <1>3, <1>6, RegisterLoopIsOfLanes
<1> QED
  BY <1>4, <1>5, <1>6, <1>7

-----------------------------------------------------------------------------
(* A state of the loop of a zero: the product is 0 once a factor is           *)
Vanishing(s) ==
  /\ s.y \in Doubles /\ ~IsInf(s.y) /\ s.z \in Doubles /\ Num(s.z) = 0
  /\ s.n = 0 => Num(s.y) = 0

(* The loop remains in such states, since its last step multiplies.          *)
LEMMA VanishingIsKept ==
  ASSUME NEW e \in Nat, NEW s \in Stage(e), s.n # 0, Vanishing(s), NEW d \in Upward
  PROVE  Vanishing(After(s, d, d))
<1> DEFINE a == MulUp(s.y, s.z)
           b == MulUp(s.z, s.z)
           c == MulUp(s.z, Opposite(s.z))
           t == After(s, d, d)
<1>1. /\ s.y \in Doubles /\ ~IsInf(s.y) /\ s.z \in Doubles /\ Num(s.z) = 0
      /\ Opposite(s.z) \in Doubles /\ Num(Opposite(s.z)) = 0 /\ ~IsInf(s.z)
  BY OppositeIsDouble, InfinityIs, LargestMagnitude DEF Vanishing
<1>2. /\ a \in Doubles /\ ~IsInf(a) /\ Num(a) = 0
      /\ b \in Doubles /\ Num(b) = 0
      /\ c \in Doubles /\ Num(c) = 0
  BY <1>1, ProductWithZero
<1>3. Opposite(a) \in Doubles /\ ~IsInf(Opposite(a)) /\ Num(Opposite(a)) = 0
  BY <1>2, OppositeIsDouble DEF IsInf
<1>4. /\ t.n = s.n \div 2
      /\ t.y = G!F!Multiplied(s.n, s.y, s.z, d)
      /\ t.z = IF s.n = 1 THEN s.z ELSE G!F!Square(s.z, d)
  BY DEF After
<1>5. s.n \in Nat
  BY DEF Stage
<1>6. d = "up" \/ d = "down"
  BY DEF Upward
<1> HIDE DEF t
<1>7. /\ t.y = a \/ t.y = Opposite(a) \/ (t.y = s.y /\ s.n % 2 # 1)
      /\ t.z = s.z \/ t.z = b \/ t.z = c
  BY <1>4, <1>6, SquaresAre
<1>8. t.n = 0 /\ s.n % 2 # 1 => FALSE
  BY <1>4, <1>5
<1> HIDE DEF a, b, c
<1>9. Vanishing(t)
  BY <1>1, <1>2, <1>3, <1>7, <1>8 DEF Vanishing
<1> QED
  BY <1>9 DEF t

(* It returns 0 from them.                                                   *)
LEMMA VanishingReturns ==
  ASSUME NEW e \in Nat, NEW d \in Upward, NEW f, f = Carried(f, e, d, d)
  PROVE  \A s \in Stage(e) : Vanishing(s) => f[s] \in Doubles /\ Num(f[s]) = 0
<1> DEFINE Bad == {k \in 0 .. e : \E s \in Stage(e) : /\ s.n = k /\ Vanishing(s)
                                                     /\ ~(f[s] \in Doubles /\ Num(f[s]) = 0)}
<1>0. \A s \in Stage(e) : s.n \in 0 .. e
  BY DEF Stage
<1> SUFFICES ASSUME Bad # {} PROVE FALSE
  BY <1>0
<1>1. PICK m \in Bad : \A k \in Bad : m <= k
  <2>1. Bad \subseteq Nat
    OBVIOUS
  <2> HIDE DEF Bad
  <2> QED
    BY <2>1, LeastNatural
<1>2. PICK s \in Stage(e) : s.n = m /\ Vanishing(s) /\ ~(f[s] \in Doubles /\ Num(f[s]) = 0)
  BY <1>1
<1>3. f[s] = IF s.n = 0 THEN s.y ELSE f[After(s, d, d)]
  BY DEF Carried
<1>4. CASE s.n = 0
  BY <1>2, <1>3, <1>4 DEF Vanishing
<1>5. CASE s.n # 0
  <2> DEFINE t == After(s, d, d)
  <2>1. s.n <= e + 1 /\ s.n \in Nat
    BY DEF Stage
  <2>2. t \in Stage(e) /\ t.n < s.n /\ t.n \in Nat
    BY <1>5, <2>1, StageIsFollowed
  <2>3. Vanishing(t)
    BY <1>2, <1>5, VanishingIsKept
  <2>4. ~(f[t] \in Doubles /\ Num(f[t]) = 0)
    BY <1>2, <1>3, <1>5
  <2> HIDE DEF t
  <2>5. t.n \in Bad
    BY <1>0, <2>2, <2>3, <2>4
  <2> QED
    BY <1>1, <1>2, <2>1, <2>2, <2>5
<1> QED
  BY <1>4, <1>5

(* The powers of a zero, of either sign, are zeros.                          *)
LEMMA PowersOfZero ==
  ASSUME NEW e \in Nat, e # 0, NEW x \in Doubles, Num(x) = 0
  PROVE  /\ G!F!PowerUp(x, e) \in Doubles /\ Num(G!F!PowerUp(x, e)) = 0
         /\ G!F!PowerDn(x, e) \in Doubles /\ Num(G!F!PowerDn(x, e)) = 0
<1> DEFINE start == [n |-> e, y |-> OfNum(One), z |-> x]
<1>1. PICK f : /\ f = Carried(f, e, "down", "down")
               /\ \A z : G!F!BinaryPower(z, e, "down", "down") =
                           f[[n |-> e, y |-> OfNum(One), z |-> z]]
  BY PowerIsLoop, Zenon DEF Upward
<1>2. PICK g : /\ g = Carried(g, e, "up", "up")
               /\ \A z : G!F!BinaryPower(z, e, "up", "up") =
                           g[[n |-> e, y |-> OfNum(One), z |-> z]]
  BY PowerIsLoop, Zenon DEF Upward
<1>3. G!F!PowerDn(x, e) = f[start] /\ G!F!PowerUp(x, e) = g[start]
  BY <1>1, <1>2, Zenon DEF G!F!PowerDn, G!F!PowerUp
<1>4. /\ OfNum(One) \in Doubles /\ Num(OfNum(One)) = One /\ ~IsInf(OfNum(One))
  BY UnitIs, EndsAre, LargestMagnitude, MagnitudesAssumption, InfinityIs
<1>5. start \in Stage(e)
  BY <1>4 DEF Stage, Numbers
<1>6. Vanishing(start)
  BY <1>4 DEF Vanishing
<1> HIDE DEF start
<1>7. f[start] \in Doubles /\ Num(f[start]) = 0
  BY <1>1, <1>5, <1>6, VanishingReturns, Zenon DEF Upward
<1>8. g[start] \in Doubles /\ Num(g[start]) = 0
  BY <1>2, <1>5, <1>6, VanishingReturns, Zenon DEF Upward
<1> QED
  BY <1>3, <1>7, <1>8

(* The bounds of the power e of an interval of floats, by the signs of its    *)
(* own.                                                                      *)
LEMMA FloatPowerBounds ==
  ASSUME NEW I \in NonEmpty, NEW e \in Nat, e # 0
  PROVE  LET K == G!F!uipow(I, e)
             up(x) == G!F!PowerUp(x, e)
             down(x) == Opposite(G!F!PowerDn(x, e))
         IN /\ K \in NonEmpty
            /\ Num(I.lb) >= 0 /\ Num(I.rb) >= 0 =>
                 /\ e % 2 = 1 => K.lb = up(I.lb) /\ K.rb = up(I.rb)
                 /\ e % 2 # 1 => Num(K.lb) = 0 /\ K.rb = MaxPd(up(I.rb), up(I.lb))
            /\ Num(I.lb) < 0 => K.lb = down(I.lb) /\ K.rb = up(I.rb)
            /\ Num(I.rb) < 0 =>
                 /\ e % 2 = 1 => K.lb = up(I.lb) /\ K.rb = down(I.rb)
                 /\ e % 2 # 1 => K.lb = down(I.rb) /\ K.rb = up(I.lb)
<1> DEFINE K == G!F!uipow(I, e)
           up(x) == G!F!PowerUp(x, e)
           down(x) == Opposite(G!F!PowerDn(x, e))
<1>1. /\ I.lb \in Doubles /\ I.rb \in Doubles /\ Num(I.lb) \in Int /\ Num(I.rb) \in Int
      /\ Num(I.lb) + Num(I.rb) >= 0 /\ I \in Intervals
  BY NonEmptyIs DEF Intervals
<1>2. \A x \in Doubles : G!F!negative(x) <=> Num(x) < 0
  <2> SUFFICES ASSUME NEW x \in Doubles PROVE G!F!negative(x) <=> Num(x) < 0
    OBVIOUS
  <2>1. x # NaN /\ Zero(FALSE) # NaN /\ Num(Zero(FALSE)) = 0
    BY FiniteOrInfinite, EndsAre
  <2>2. G!F!negative(x) <=> Lt(x, Zero(FALSE))
    BY FloatsAreDoubles DEF G!F!negative
  <2> QED
    BY <2>1, <2>2 DEF Lt
<1>3. G!F!odd(e) <=> e % 2 = 1
  BY DEF G!F!odd
<1>4. K \in NonEmpty
  <2>1. ~G!F!is_empty(I) /\ ~(e < 0)
    BY NonEmptyIs, FloatBoundsAre
  <2>2. G!F!pow(I, e) = G!F!InvertedIf(e < 0, G!F!uipow(I, IF e < 0 THEN -e ELSE e))
    BY <2>1, Zenon DEF G!F!pow
  <2>3. G!F!pow(I, e) = K
    BY <2>1, <2>2, Zenon DEF G!F!InvertedIf
  <2> QED
    BY <1>1, <2>3, FloatPowerIsInterval
<1>5. \A l, r : /\ G!F!intervalf(l, r) = Bounds(Opposite(l), r) /\ G!F!Bounds(l, r) = Bounds(l, r)
                /\ Bounds(l, r).lb = l /\ Bounds(l, r).rb = r
  BY FloatBoundsAre DEF Bounds
<1>6. CASE Num(I.lb) >= 0 /\ Num(I.rb) >= 0
  <2> DEFINE r == Bounds(up(I.lb), up(I.rb))
             m == MaxPd(up(I.rb), up(I.lb))
  <2>1. G!F!uipow_upup(I, e) = r
    BY <1>5 DEF G!F!uipow_upup
  <2>2. r.lb = up(I.lb) /\ r.rb = up(I.rb)
    BY <1>5
  <2>3. G!F!Zero(FALSE) = PlusZero /\ Num(Opposite(PlusZero)) = 0
    <3>1. PlusZero \in Doubles /\ Num(PlusZero) = 0
      BY EndsAre DEF PlusZero
    <3>2. Num(Opposite(PlusZero)) = 0
      BY <3>1, OppositeIsDouble
    <3> QED
      BY <3>2, FloatsAreDoubles DEF PlusZero
  <2> HIDE DEF r, up, K, m
  <2>4. K = G!F!AroundZero(r, e)
    <3>1. ~G!F!negative(I.lb) /\ ~G!F!negative(I.rb)
      BY <1>1, <1>2, <1>6
    <3> QED
      BY <2>1, <3>1 DEF G!F!uipow, K
  <2>5. CASE e % 2 = 1
    <3>1. K = r
      BY <1>3, <2>4, <2>5 DEF G!F!AroundZero
    <3> QED
      BY <1>1, <1>4, <1>6, <2>2, <2>5, <3>1 DEF up, K
  <2>6. CASE e % 2 # 1
    <3>1. K = Bounds(Opposite(PlusZero), IF Lt(r.lb, r.rb) THEN r.rb ELSE r.lb)
      <4>1. G!F!AroundZero(r, e) =
              G!F!intervalf(PlusZero, IF G!F!Lt(r.lb, r.rb) THEN r.rb ELSE r.lb)
        BY <1>3, <2>3, <2>6 DEF G!F!AroundZero
      <4>2. G!F!Lt(r.lb, r.rb) <=> Lt(r.lb, r.rb)
        BY FloatsAreDoubles
      <4> QED
        BY <1>5, <2>4, <4>1, <4>2
    <3>2. m = IF Lt(r.lb, r.rb) THEN r.rb ELSE r.lb
      BY <2>2 DEF MaxPd, m
    <3>3. Num(K.lb) = 0 /\ K.rb = m
      BY <1>5, <2>3, <3>1, <3>2
    <3> QED
      BY <1>1, <1>4, <1>6, <2>6, <3>3 DEF m, up, K
  <2> QED
    BY <2>5, <2>6
<1>7. \A A : G!F!uipow_dnup(A, e) = Bounds(down(A.lb), up(A.rb))
  BY <1>5 DEF G!F!uipow_dnup
<1>8. CASE Num(I.lb) < 0
  <2>1. G!F!negative(I.lb) /\ ~G!F!negative(I.rb) /\ ~(Num(I.rb) < 0)
    BY <1>1, <1>2, <1>8
  <2>2. K = Bounds(down(I.lb), up(I.rb))
    <3> HIDE DEF up, down
    <3> QED
      BY <1>7, <2>1 DEF G!F!uipow
  <2>3. K.lb = down(I.lb) /\ K.rb = up(I.rb)
    BY <1>5, <2>2
  <2> HIDE DEF K, up, down
  <2>4. /\ ~(Num(I.lb) >= 0 /\ Num(I.rb) >= 0)
    BY <1>1, <1>8
  <2> QED
    BY <1>4, <2>1, <2>3, <2>4 DEF K, up, down
<1>9. CASE Num(I.rb) < 0
  <2> DEFINE r == G!F!uipow_dnup(G!F!Opposed(I), e)
  <2>1. ~G!F!negative(I.lb) /\ G!F!negative(I.rb) /\ ~(Num(I.lb) < 0)
    BY <1>1, <1>2, <1>9
  <2>2. K = G!F!BelowZero(r, e)
    BY <2>1 DEF G!F!uipow
  <2>3. r.lb = down(I.rb) /\ r.rb = up(I.lb)
    <3>1. G!F!Opposed(I) = Bounds(I.rb, I.lb)
      BY <1>1, FloatOppositeIs DEF Minus
    <3> HIDE DEF up, down
    <3> QED
      BY <1>5, <1>7, <3>1
  <2> HIDE DEF r
  <2>4. e % 2 = 1 => K.lb = r.rb /\ K.rb = r.lb
    <3>1. r.rb = up(I.lb) /\ up(I.lb) \in Doubles
      <4>1. Num(I.lb) >= 0
        BY <1>1, <1>9
      <4> QED
        BY <1>1, <2>3, <4>1, PowersOfBounds
    <3>2. Opposite(Opposite(r.rb)) = r.rb
      BY <3>1, OppositeTwice
    <3>3. G!F!Opposed(r) = Bounds(Opposite(Opposite(r.rb)), r.lb)
      BY <1>5, FloatsAreDoubles DEF G!F!Opposed
    <3>4. e % 2 = 1 => K = Bounds(r.rb, r.lb)
      BY <1>3, <2>2, <3>2, <3>3 DEF G!F!BelowZero
    <3> QED
      BY <1>5, <3>4
  <2>5. e % 2 # 1 => K = r
    BY <1>3, <2>2 DEF G!F!BelowZero
  <2> HIDE DEF K, up, down
  <2>6. ~(Num(I.lb) >= 0 /\ Num(I.rb) >= 0)
    BY <1>1, <1>9
  <2> QED
    BY <1>4, <2>1, <2>3, <2>4, <2>5, <2>6 DEF K, up, down
<1> QED
  BY <1>1, <1>6, <1>8, <1>9

(* Two lanes that have the power e of an interval I of the side s             *)
PowerLanes(l, r, I, s, e) ==
  /\ s = "M" /\ e % 2 = 1 => l = G!F!PowerUp(I.lb, e) /\ r = G!F!PowerUp(I.rb, e)
  /\ s = "M" /\ e % 2 # 1 => l = PlusZero /\ r = MaxPd(G!F!PowerUp(I.rb, e), G!F!PowerUp(I.lb, e))
  /\ s = "P" => l = Opposite(G!F!PowerDn(I.lb, e)) /\ r = G!F!PowerUp(I.rb, e)
  /\ s = "N" /\ e % 2 = 1 => l = G!F!PowerUp(I.lb, e) /\ r = Opposite(G!F!PowerDn(I.rb, e))
  /\ s = "N" /\ e % 2 # 1 => l = Opposite(G!F!PowerDn(I.rb, e)) /\ r = G!F!PowerUp(I.lb, e)
  /\ s = "Z" => l \in Doubles /\ r \in Doubles /\ Num(l) = 0 /\ Num(r) = 0

(* Lanes of the numbers of the bounds of an interval have its value.         *)
LEMMA SameNumbers ==
  ASSUME NEW K \in NonEmpty, NEW l \in Doubles, NEW r \in Doubles,
         Num(l) = Num(K.lb), Num(r) = Num(K.rb)
  PROVE  Value(Bounds(l, r)) = Value(K)
<1>1. /\ Num(K.lb) \in Int /\ Num(K.rb) \in Int /\ Num(K.lb) + Num(K.rb) >= 0 /\ ~is_empty(K)
  BY NonEmptyIs
<1>2. /\ Opposite(l) \in Doubles /\ Num(Opposite(l)) = -Num(l) /\ Opposite(l) # NaN /\ r # NaN
  BY OppositeIsDouble, FiniteOrInfinite
<1>3. Bounds(l, r).lb = l /\ Bounds(l, r).rb = r
  BY DEF Bounds
<1> DEFINE L == Bounds(l, r)
<1>4. ~is_empty(L)
  <2>1. left(L) = Opposite(l) /\ right(L) = r
    BY <1>3 DEF left, right
  <2>2. Leq(left(L), right(L))
    BY <1>1, <1>2, <2>1 DEF Leq
  <2> QED
    BY <2>2 DEF is_empty
<1> HIDE DEF L
<1>5. Value(L) = <<Num(L.lb), Num(L.rb)>>
  BY <1>4 DEF Value
<1>6. Value(K) = <<Num(K.lb), Num(K.rb)>>
  BY <1>1 DEF Value
<1>7. L.lb = l /\ L.rb = r
  BY <1>3 DEF L
<1>8. Value(L) = Value(K)
  BY <1>5, <1>6, <1>7
<1> QED
  BY <1>8 DEF L

(* Such lanes have the value of the power of the interval alone, the zeros of *)
(* whose bounds have no side.                                                *)
LEMMA PowerLanesAre ==
  ASSUME NEW I \in NonEmpty, NEW e \in Nat, e # 0, NEW l, NEW r,
         PowerLanes(l, r, I, SideBySigns(I), e)
  PROVE  Value(Bounds(l, r)) = Value(G!F!uipow(I, e))
<1> DEFINE K == G!F!uipow(I, e)
           s == SideBySigns(I)
           pl == G!F!PowerUp(I.lb, e)
           pr == G!F!PowerUp(I.rb, e)
           dl == Opposite(G!F!PowerDn(I.lb, e))
           dr == Opposite(G!F!PowerDn(I.rb, e))
<1>1. /\ I.lb \in Doubles /\ I.rb \in Doubles /\ Num(I.lb) \in Int /\ Num(I.rb) \in Int
      /\ Num(I.lb) + Num(I.rb) >= 0
  BY NonEmptyIs
<1>2. /\ K \in NonEmpty /\ K.lb \in Doubles /\ K.rb \in Doubles
      /\ Num(K.lb) \in Int /\ Num(K.rb) \in Int
  BY FloatPowerBounds, NonEmptyIs
<1>3. /\ Num(I.lb) >= 0 /\ Num(I.rb) >= 0 =>
           /\ e % 2 = 1 => K.lb = pl /\ K.rb = pr
           /\ e % 2 # 1 => Num(K.lb) = 0 /\ K.rb = MaxPd(pr, pl)
      /\ Num(I.lb) < 0 => K.lb = dl /\ K.rb = pr
      /\ Num(I.rb) < 0 =>
           /\ e % 2 = 1 => K.lb = pl /\ K.rb = dr
           /\ e % 2 # 1 => K.lb = dr /\ K.rb = pl
  BY FloatPowerBounds
<1>4. /\ Num(I.lb) >= 0 => pl \in Doubles /\ Num(pl) >= 0 /\ Num(pl) \in Int
      /\ Num(I.rb) >= 0 => pr \in Doubles /\ Num(pr) >= 0 /\ Num(pr) \in Int
  BY <1>1, PowersOfBounds, NumOfMagnitude
<1>5. /\ Num(I.lb) = 0 => /\ pl \in Doubles /\ Num(pl) = 0
                          /\ dl \in Doubles /\ Num(dl) = 0
      /\ Num(I.rb) = 0 => /\ pr \in Doubles /\ Num(pr) = 0
                          /\ dr \in Doubles /\ Num(dr) = 0
  <2>1. ASSUME NEW x \in Doubles, Num(x) = 0
        PROVE  /\ G!F!PowerUp(x, e) \in Doubles /\ Num(G!F!PowerUp(x, e)) = 0
               /\ Opposite(G!F!PowerDn(x, e)) \in Doubles
               /\ Num(Opposite(G!F!PowerDn(x, e))) = 0
    BY <2>1, PowersOfZero, OppositeIsDouble
  <2> QED
    BY <1>1, <2>1
<1>6. PlusZero \in Doubles /\ Num(PlusZero) = 0
  BY EndsAre DEF PlusZero
<1>7. /\ s = "M" /\ e % 2 = 1 => l = pl /\ r = pr
      /\ s = "M" /\ e % 2 # 1 => l = PlusZero /\ r = MaxPd(pr, pl)
      /\ s = "P" => l = dl /\ r = pr
      /\ s = "N" /\ e % 2 = 1 => l = pl /\ r = dr
      /\ s = "N" /\ e % 2 # 1 => l = dr /\ r = pl
      /\ s = "Z" => l \in Doubles /\ r \in Doubles /\ Num(l) = 0 /\ Num(r) = 0
  BY DEF PowerLanes
<1>8. /\ s \in {"M", "P", "N", "Z"}
      /\ s = "M" => Num(I.lb) >= 0 /\ Num(I.rb) >= 0
      /\ s = "P" => Num(I.lb) <= 0 /\ Num(I.rb) >= 0
      /\ s = "N" => Num(I.lb) >= 0 /\ Num(I.rb) <= 0
      /\ s = "Z" => Num(I.lb) = 0 /\ Num(I.rb) = 0
  BY SidesAreFour, SidesAre, SidesOfZero DEF OnSide
<1>9. \A x, y : /\ x \in Doubles /\ y \in Doubles =>
                     /\ MaxPd(x, y) \in Doubles
                     /\ Num(y) >= Num(x) => Num(MaxPd(x, y)) = Num(y)
                     /\ Num(x) >= Num(y) => Num(MaxPd(x, y)) = Num(x)
  <2> SUFFICES ASSUME NEW x \in Doubles, NEW y \in Doubles
               PROVE  /\ MaxPd(x, y) \in Doubles
                      /\ Num(y) >= Num(x) => Num(MaxPd(x, y)) = Num(y)
                      /\ Num(x) >= Num(y) => Num(MaxPd(x, y)) = Num(x)
    OBVIOUS
  <2>1. x # NaN /\ y # NaN /\ Num(x) \in Int /\ Num(y) \in Int
    BY FiniteOrInfinite, NumOfMagnitude
  <2> QED
    BY <2>1 DEF MaxPd, Lt
<1> HIDE DEF K, s, pl, pr, dl, dr
<1>10. l \in Doubles /\ r \in Doubles /\ Num(l) = Num(K.lb) /\ Num(r) = Num(K.rb)
  <2>1. CASE s = "M"
    BY <1>2, <1>3, <1>6, <1>7, <1>8, <2>1
  <2>2. CASE s = "P"
    <3>1. CASE Num(I.lb) < 0
      BY <1>2, <1>3, <1>7, <2>2, <3>1
    <3>2. CASE Num(I.lb) = 0
      <4>1. l = dl /\ r = pr
        BY <1>7, <2>2
      <4>2. l \in Doubles /\ Num(l) = 0 /\ pl \in Doubles /\ Num(pl) = 0
            /\ r \in Doubles /\ Num(r) >= 0 /\ Num(r) \in Int
        BY <1>4, <1>5, <1>8, <2>2, <3>2, <4>1
      <4>3. Num(K.lb) = 0 /\ Num(K.rb) = Num(r)
        <5>1. CASE e % 2 = 1
          BY <1>3, <1>8, <2>2, <3>2, <4>1, <4>2, <5>1
        <5>2. CASE e % 2 # 1
          <6>1. Num(K.lb) = 0 /\ K.rb = MaxPd(pr, pl)
            BY <1>3, <1>8, <2>2, <3>2, <5>2
          <6> QED
            BY <1>9, <4>1, <4>2, <6>1
        <5> QED
          BY <5>1, <5>2
      <4> QED
        BY <4>2, <4>3
    <3> QED
      BY <1>1, <1>8, <2>2, <3>1, <3>2
  <2>3. CASE s = "N"
    <3>1. CASE Num(I.rb) < 0
      BY <1>2, <1>3, <1>7, <2>3, <3>1
    <3>2. CASE Num(I.rb) = 0
      <4>1. /\ dr \in Doubles /\ Num(dr) = 0 /\ pr \in Doubles /\ Num(pr) = 0
            /\ pl \in Doubles /\ Num(pl) >= 0 /\ Num(pl) \in Int
        BY <1>4, <1>5, <1>8, <2>3, <3>2
      <4>2. CASE e % 2 = 1
        <5>1. l = pl /\ r = dr /\ K.lb = pl /\ K.rb = pr
          BY <1>3, <1>7, <1>8, <2>3, <3>2, <4>2
        <5> QED
          BY <4>1, <5>1
      <4>3. CASE e % 2 # 1
        <5>1. l = dr /\ r = pl /\ Num(K.lb) = 0 /\ K.rb = MaxPd(pr, pl)
          BY <1>3, <1>7, <1>8, <2>3, <3>2, <4>3
        <5> QED
          BY <1>9, <4>1, <5>1
      <4> QED
        BY <4>2, <4>3
    <3> QED
      BY <1>1, <1>8, <2>3, <3>1, <3>2
  <2>4. CASE s = "Z"
    <3>1. /\ pl \in Doubles /\ Num(pl) = 0 /\ pr \in Doubles /\ Num(pr) = 0
          /\ l \in Doubles /\ Num(l) = 0 /\ r \in Doubles /\ Num(r) = 0
      BY <1>5, <1>7, <1>8, <2>4
    <3>2. CASE e % 2 = 1
      BY <1>3, <1>8, <2>4, <3>1, <3>2
    <3>3. CASE e % 2 # 1
      <4>1. Num(K.lb) = 0 /\ K.rb = MaxPd(pr, pl)
        BY <1>3, <1>8, <2>4, <3>3
      <4> QED
        BY <1>9, <3>1, <4>1
    <3> QED
      BY <3>2, <3>3
  <2> QED
    BY <1>8, <2>1, <2>2, <2>3, <2>4
<1>11. Value(Bounds(l, r)) = Value(K)
  BY <1>2, <1>10, SameNumbers
<1> QED
  BY <1>11 DEF K

(* The lanes of the registers that shuffles give.                            *)
LEMMA LanesShuffled ==
  ASSUME NEW A
  PROVE  /\ LET B == G!P!Shuffle(A, G!P!Crossed) IN
              B[0] = A[1] /\ B[1] = A[0] /\ B[2] = A[3] /\ B[3] = A[2]
         /\ LET B == G!P!Shuffle(A, G!P!Swapped) IN
              B[0] = A[2] /\ B[1] = A[3] /\ B[2] = A[0] /\ B[3] = A[1]
         /\ LET B == G!P!Shuffle(A, <<0, 1, 3, 2>>) IN
              B[0] = A[0] /\ B[1] = A[1] /\ B[2] = A[3] /\ B[3] = A[2]
         /\ LET B == G!P!Shuffle(A, <<1, 0, 2, 3>>) IN
              B[0] = A[1] /\ B[1] = A[0] /\ B[2] = A[2] /\ B[3] = A[3]
<1>1. \A from : LET B == G!P!Shuffle(A, from) IN
        B[0] = A[from[1]] /\ B[1] = A[from[2]] /\ B[2] = A[from[3]] /\ B[3] = A[from[4]]
  BY DEF G!P!Shuffle, G!P!Lanes
<1>2. G!P!Crossed = <<1, 0, 3, 2>> /\ G!P!Swapped = <<2, 3, 0, 1>>
  BY DEF G!P!Crossed, G!P!Swapped
<1> QED
  BY <1>1, <1>2

(* A shuffle of numbers is of numbers.                                       *)
LEMMA ShuffleIsRegister ==
  ASSUME NEW A \in Registers
  PROVE  /\ G!P!Shuffle(A, G!P!Crossed) \in Registers
         /\ G!P!Shuffle(A, G!P!Swapped) \in Registers
         /\ G!P!Shuffle(A, <<1, 0, 2, 3>>) \in Registers
<1>1. G!P!Lanes = 0 .. 3 /\ \A k \in 0 .. 3 : A[k] \in Numbers
  BY DEF G!P!Lanes, Registers
<1>2. ASSUME NEW from, \A k \in 0 .. 3 : from[k + 1] \in 0 .. 3
      PROVE  G!P!Shuffle(A, from) \in Registers
  BY <1>1, <1>2 DEF G!P!Shuffle, Registers
<1>3. \A k \in 0 .. 3 : k = 0 \/ k = 1 \/ k = 2 \/ k = 3
  OBVIOUS
<1>4. /\ \A k \in 0 .. 3 : <<1, 0, 3, 2>>[k + 1] \in 0 .. 3
      /\ \A k \in 0 .. 3 : <<2, 3, 0, 1>>[k + 1] \in 0 .. 3
      /\ \A k \in 0 .. 3 : <<1, 0, 2, 3>>[k + 1] \in 0 .. 3
  BY <1>3
<1> QED
  BY <1>2, <1>4 DEF G!P!Crossed, G!P!Swapped

(* The lanes of even powers.                                                 *)
LEMMA LanesOfEven ==
  ASSUME NEW A
  PROVE  /\ LET B == G!P!EvenAround(A, G!P!Crossed, {0, 2}) IN
              /\ B[0] = PlusZero /\ B[1] = MaxPd(A[1], A[0])
              /\ B[2] = PlusZero /\ B[3] = MaxPd(A[3], A[2])
         /\ LET B == G!P!EvenAround(A, <<0, 1, 3, 2>>, {2}) IN
              /\ B[0] = A[0] /\ B[1] = A[1]
              /\ B[2] = PlusZero /\ B[3] = MaxPd(A[3], A[2])
         /\ LET B == G!P!EvenBelow(A) IN
              /\ B[0] = A[0] /\ B[1] = A[1]
              /\ B[2] = PlusZero /\ B[3] = MaxPd(A[3], A[2])
<1>1. /\ 0 \in G!P!Lanes /\ 1 \in G!P!Lanes /\ 2 \in G!P!Lanes /\ 3 \in G!P!Lanes
  BY DEF G!P!Lanes
<1>2. \A x : MaxPd(x, x) = x
  BY DEF MaxPd
<1>3. LET B == G!P!EvenAround(A, G!P!Crossed, {0, 2}) IN
        /\ B[0] = PlusZero /\ B[1] = MaxPd(A[1], A[0])
        /\ B[2] = PlusZero /\ B[3] = MaxPd(A[3], A[2])
  <2> DEFINE C == G!P!Shuffle(A, G!P!Crossed)
             D == G!P!Maxima(A, C)
             B == G!P!Cleared(D, {0, 2})
  <2>1. C[0] = A[1] /\ C[1] = A[0] /\ C[2] = A[3] /\ C[3] = A[2]
    BY LanesShuffled
  <2> HIDE DEF C
  <2>2. D[1] = MaxPd(A[1], C[1]) /\ D[3] = MaxPd(A[3], C[3])
    BY <1>1, LanesOfTwo
  <2> HIDE DEF D
  <2>3. B[0] = PlusZero /\ B[1] = D[1] /\ B[2] = PlusZero /\ B[3] = D[3]
    BY <1>1, LanesCleared
  <2> HIDE DEF B
  <2> QED
    BY <2>1, <2>2, <2>3 DEF G!P!EvenAround, B, C, D
<1>4. LET B == G!P!EvenAround(A, <<0, 1, 3, 2>>, {2}) IN
        /\ B[0] = A[0] /\ B[1] = A[1]
        /\ B[2] = PlusZero /\ B[3] = MaxPd(A[3], A[2])
  <2> DEFINE C == G!P!Shuffle(A, <<0, 1, 3, 2>>)
             D == G!P!Maxima(A, C)
             B == G!P!Cleared(D, {2})
  <2>1. C[0] = A[0] /\ C[1] = A[1] /\ C[2] = A[3] /\ C[3] = A[2]
    BY LanesShuffled
  <2> HIDE DEF C
  <2>2. /\ D[0] = MaxPd(A[0], C[0]) /\ D[1] = MaxPd(A[1], C[1])
        /\ D[3] = MaxPd(A[3], C[3])
    BY <1>1, LanesOfTwo
  <2> HIDE DEF D
  <2>3. B[0] = D[0] /\ B[1] = D[1] /\ B[2] = PlusZero /\ B[3] = D[3]
    BY <1>1, LanesCleared
  <2> HIDE DEF B
  <2> QED
    BY <1>2, <2>1, <2>2, <2>3 DEF G!P!EvenAround, B, C, D
<1>5. LET B == G!P!EvenBelow(A) IN
        /\ B[0] = A[0] /\ B[1] = A[1]
        /\ B[2] = PlusZero /\ B[3] = MaxPd(A[3], A[2])
  <2> DEFINE C == G!P!Shuffle(A, <<0, 1, 3, 2>>)
             N == G!P!Negated(A, {2})
             D == G!P!Maxima(N, C)
             B == G!P!Cleared(D, {2})
  <2>1. C[0] = A[0] /\ C[1] = A[1] /\ C[2] = A[3] /\ C[3] = A[2]
    BY LanesShuffled
  <2>2. N[0] = A[0] /\ N[1] = A[1] /\ N[3] = A[3]
    BY <1>1, LanesNegated
  <2> HIDE DEF C, N
  <2>3. /\ D[0] = MaxPd(N[0], C[0]) /\ D[1] = MaxPd(N[1], C[1])
        /\ D[3] = MaxPd(N[3], C[3])
    BY <1>1, LanesOfTwo
  <2> HIDE DEF D
  <2>4. B[0] = D[0] /\ B[1] = D[1] /\ B[2] = PlusZero /\ B[3] = D[3]
    BY <1>1, LanesCleared
  <2> HIDE DEF B
  <2> QED
    BY <1>2, <2>1, <2>2, <2>3, <2>4 DEF G!P!EvenBelow, B, C, D, N
<1> QED
  BY <1>3, <1>4, <1>5

(* The lanes of the three powers.                                            *)
LEMMA LanesOfPowers ==
  ASSUME NEW A \in Registers, NEW e \in Nat
  PROVE  LET up(k) == G!F!PowerUp(A[k], e)
             down(k) == Opposite(G!F!PowerDn(A[k], e))
         IN /\ LET B == G!P!uipow_dnupdnup(A, e) IN
                 B[0] = down(0) /\ B[1] = up(1) /\ B[2] = down(2) /\ B[3] = up(3)
            /\ LET B == G!P!uipow_upupupup(A, e) IN
                 B[0] = up(0) /\ B[1] = up(1) /\ B[2] = up(2) /\ B[3] = up(3)
            /\ LET B == G!P!uipow_upupdnup(A, e) IN
                 B[0] = down(0) /\ B[1] = up(1) /\ B[2] = up(2) /\ B[3] = up(3)
<1>1. /\ 0 \in G!P!Lanes /\ 1 \in G!P!Lanes /\ 2 \in G!P!Lanes /\ 3 \in G!P!Lanes
  BY DEF G!P!Lanes
<1> DEFINE up(k) == G!F!PowerUp(A[k], e)
           down(k) == Opposite(G!F!PowerDn(A[k], e))
<1>2. \A lanes : \A k \in G!P!Lanes :
        G!P!Power(A, e, lanes)[k] = IF k \in lanes THEN down(k) ELSE up(k)
  BY PowerIsOfLanes
<1> HIDE DEF up, down
<1>3. LET B == G!P!uipow_dnupdnup(A, e) IN
        B[0] = down(0) /\ B[1] = up(1) /\ B[2] = down(2) /\ B[3] = up(3)
  BY <1>1, <1>2 DEF G!P!uipow_dnupdnup
<1>4. LET B == G!P!uipow_upupupup(A, e) IN
        B[0] = up(0) /\ B[1] = up(1) /\ B[2] = up(2) /\ B[3] = up(3)
  BY <1>1, <1>2 DEF G!P!uipow_upupupup
<1>5. LET B == G!P!uipow_upupdnup(A, e) IN
        B[0] = down(0) /\ B[1] = up(1) /\ B[2] = up(2) /\ B[3] = up(3)
  BY <1>1, <1>2 DEF G!P!uipow_upupdnup
<1> QED
  BY <1>3, <1>4, <1>5 DEF up, down

(* The two sign bits of an interval, that of the right bound first, and its   *)
(* side                                                                      *)
Bit(x) == IF SignBit(x) THEN 1 ELSE 0

(* The sign bits of a pair are those of its intervals, which tell their sides. *)
LEMMA SignsAre ==
  ASSUME NEW I, NEW J
  PROVE  /\ G!P!Signs(G!P!Pair(I, J)) = <<Bit(J.rb), Bit(J.lb), Bit(I.rb), Bit(I.lb)>>
         /\ \A K \in {I, J} :
              /\ SideBySigns(K) = "M" => Bit(K.rb) = 0 /\ Bit(K.lb) = 0
              /\ SideBySigns(K) = "P" => Bit(K.rb) = 0 /\ Bit(K.lb) = 1
              /\ SideBySigns(K) = "N" => Bit(K.rb) = 1 /\ Bit(K.lb) = 0
              /\ SideBySigns(K) = "Z" => Bit(K.rb) = 1 /\ Bit(K.lb) = 1
<1> DEFINE A == G!P!Pair(I, J)
<1>1. A[0] = I.lb /\ A[1] = I.rb /\ A[2] = J.lb /\ A[3] = J.rb
  BY PairHasLanes
<1> HIDE DEF A
<1>2. G!P!Signs(A) = [k \in 1 .. 4 |-> Bit(A[4 - k])]
  BY PairFloatsAreDoubles DEF G!P!Signs, Bit
<1>3. G!P!Signs(A) = <<Bit(J.rb), Bit(J.lb), Bit(I.rb), Bit(I.lb)>>
  <2>1. 4 - 1 = 3 /\ 4 - 2 = 2 /\ 4 - 3 = 1 /\ 4 - 4 = 0
    OBVIOUS
  <2>2. \A k \in 1 .. 4 : Bit(A[4 - k]) = <<Bit(J.rb), Bit(J.lb), Bit(I.rb), Bit(I.lb)>>[k]
    <3>1. \A k \in 1 .. 4 : k = 1 \/ k = 2 \/ k = 3 \/ k = 4
      OBVIOUS
    <3> QED
      BY <1>1, <2>1, <3>1
  <2> QED
    BY <1>2, <2>2
<1>4. ASSUME NEW K \in {I, J}
      PROVE  /\ SideBySigns(K) = "M" => Bit(K.rb) = 0 /\ Bit(K.lb) = 0
             /\ SideBySigns(K) = "P" => Bit(K.rb) = 0 /\ Bit(K.lb) = 1
             /\ SideBySigns(K) = "N" => Bit(K.rb) = 1 /\ Bit(K.lb) = 0
             /\ SideBySigns(K) = "Z" => Bit(K.rb) = 1 /\ Bit(K.lb) = 1
  BY DEF SideBySigns, Bit
<1> QED
  BY <1>3, <1>4 DEF A

(* A pair of intervals has numbers in its lanes.                             *)
LEMMA PairIsRegister ==
  ASSUME NEW I \in NonEmpty, NEW J \in NonEmpty
  PROVE  G!P!Pair(I, J) \in Registers
<1>1. I.lb \in Numbers /\ I.rb \in Numbers /\ J.lb \in Numbers /\ J.rb \in Numbers
  BY NonEmptyIs DEF Numbers
<1>2. G!P!Pair(I, J) = [k \in 0 .. 3 |-> <<I.lb, I.rb, J.lb, J.rb>>[k + 1]]
  BY PairHasLanes
<1>3. \A k \in 0 .. 3 : <<I.lb, I.rb, J.lb, J.rb>>[k + 1] \in Numbers
  <2>1. \A k \in 0 .. 3 : k = 0 \/ k = 1 \/ k = 2 \/ k = 3
    OBVIOUS
  <2> QED
    BY <1>1, <2>1
<1>4. G!P!Lanes = 0 .. 3
  BY DEF G!P!Lanes
<1> QED
  BY <1>2, <1>3, <1>4 DEF Registers

(* The sides of the second and the first of a pair which is not of the        *)
(* intervals swapped                                                         *)
UnswappedSides ==
  {<<"M", "M">>, <<"M", "P">>, <<"M", "N">>, <<"M", "Z">>, <<"P", "P">>, <<"P", "N">>,
   <<"P", "Z">>, <<"N", "N">>, <<"N", "Z">>, <<"Z", "Z">>}

(* The ten cases have the powers of the two intervals.                       *)
LEMMA UnswappedLanes ==
  ASSUME NEW I \in NonEmpty, NEW J \in NonEmpty, NEW e \in Nat, e # 0,
         NEW s, NEW t, s = SideBySigns(J), t = SideBySigns(I), <<s, t>> \in UnswappedSides
  PROVE  LET R == G!P!uipowUnswapped(G!P!Pair(I, J), e)
         IN PowerLanes(R[0], R[1], I, t, e) /\ PowerLanes(R[2], R[3], J, s, e)
<1> DEFINE A == G!P!Pair(I, J)
           R == G!P!uipowUnswapped(A, e)
           up(x) == G!F!PowerUp(x, e)
           down(x) == Opposite(G!F!PowerDn(x, e))
<1>1. A[0] = I.lb /\ A[1] = I.rb /\ A[2] = J.lb /\ A[3] = J.rb /\ A \in Registers
  BY PairHasLanes, PairIsRegister
<1>2. /\ G!P!Signs(A) = <<Bit(J.rb), Bit(J.lb), Bit(I.rb), Bit(I.lb)>>
      /\ s = "M" => Bit(J.rb) = 0 /\ Bit(J.lb) = 0
      /\ s = "P" => Bit(J.rb) = 0 /\ Bit(J.lb) = 1
      /\ s = "N" => Bit(J.rb) = 1 /\ Bit(J.lb) = 0
      /\ s = "Z" => Bit(J.rb) = 1 /\ Bit(J.lb) = 1
      /\ t = "M" => Bit(I.rb) = 0 /\ Bit(I.lb) = 0
      /\ t = "P" => Bit(I.rb) = 0 /\ Bit(I.lb) = 1
      /\ t = "N" => Bit(I.rb) = 1 /\ Bit(I.lb) = 0
      /\ t = "Z" => Bit(I.rb) = 1 /\ Bit(I.lb) = 1
  BY SignsAre
<1>3. /\ 0 \in G!P!Lanes /\ 1 \in G!P!Lanes /\ 2 \in G!P!Lanes /\ 3 \in G!P!Lanes
  BY DEF G!P!Lanes
<1>4. G!P!odd(e) <=> e % 2 = 1
  BY DEF G!P!odd
<1>5. \A B \in Registers :
        /\ LET C == G!P!uipow_dnupdnup(B, e) IN
             C[0] = down(B[0]) /\ C[1] = up(B[1]) /\ C[2] = down(B[2]) /\ C[3] = up(B[3])
        /\ LET C == G!P!uipow_upupupup(B, e) IN
             C[0] = up(B[0]) /\ C[1] = up(B[1]) /\ C[2] = up(B[2]) /\ C[3] = up(B[3])
        /\ LET C == G!P!uipow_upupdnup(B, e) IN
             C[0] = down(B[0]) /\ C[1] = up(B[1]) /\ C[2] = up(B[2]) /\ C[3] = up(B[3])
  BY LanesOfPowers
<1>6. PlusZero \in Doubles /\ Num(PlusZero) = 0
  BY EndsAre DEF PlusZero
<1> DEFINE B == G!P!Shuffle(A, <<1, 0, 2, 3>>)
           C == G!P!Shuffle(A, G!P!Crossed)
<1>7. /\ B \in Registers /\ B[0] = I.rb /\ B[1] = I.lb /\ B[2] = J.lb /\ B[3] = J.rb
      /\ C \in Registers /\ C[0] = I.rb /\ C[1] = I.lb /\ C[2] = J.rb /\ C[3] = J.lb
  BY <1>1, LanesShuffled, ShuffleIsRegister
<1>8. /\ \A l, r, K : PowerLanes(l, r, K, "M", e) <=>
           /\ e % 2 = 1 => l = up(K.lb) /\ r = up(K.rb)
           /\ e % 2 # 1 => l = PlusZero /\ r = MaxPd(up(K.rb), up(K.lb))
      /\ \A l, r, K : PowerLanes(l, r, K, "P", e) <=> l = down(K.lb) /\ r = up(K.rb)
      /\ \A l, r, K : PowerLanes(l, r, K, "N", e) <=>
           /\ e % 2 = 1 => l = up(K.lb) /\ r = down(K.rb)
           /\ e % 2 # 1 => l = down(K.rb) /\ r = up(K.lb)
      /\ \A l, r, K : PowerLanes(l, r, K, "Z", e) <=>
           l \in Doubles /\ r \in Doubles /\ Num(l) = 0 /\ Num(r) = 0
  BY DEF PowerLanes
<1>9. CASE s = "M" /\ t = "M"
  <2>1. R = G!P!uipow_0x0(A, e)
    <3>1. G!P!Signs(A) = <<0, 0, 0, 0>>
      BY <1>2, <1>9
    <3> HIDE DEF A
    <3> QED
      BY <3>1 DEF G!P!uipowUnswapped
  <2> DEFINE Q == G!P!uipow_upupupup(A, e)
  <2>2. Q[0] = up(I.lb) /\ Q[1] = up(I.rb) /\ Q[2] = up(J.lb) /\ Q[3] = up(J.rb)
    BY <1>1, <1>5
  <2>3. R = IF e % 2 = 1 THEN Q ELSE G!P!EvenAround(Q, G!P!Crossed, {0, 2})
    BY <1>4, <2>1 DEF G!P!uipow_0x0, G!P!AroundIfEven
  <2> HIDE DEF A, B, C, R, Q, up, down
  <2>4. PowerLanes(R[0], R[1], I, "M", e) /\ PowerLanes(R[2], R[3], J, "M", e)
    BY <1>8, <2>2, <2>3, LanesOfEven
  <2> QED
    BY <1>9, <2>4 DEF A, R
<1>10. CASE s = "M" /\ t = "P"
  <2>1. R = G!P!uipow_0x1(A, e)
    <3>1. G!P!Signs(A) = <<0, 0, 0, 1>>
      BY <1>2, <1>10
    <3> HIDE DEF A
    <3> QED
      BY <3>1 DEF G!P!uipowUnswapped
  <2> DEFINE Q == G!P!uipow_upupdnup(A, e)
  <2>2. Q[0] = down(I.lb) /\ Q[1] = up(I.rb) /\ Q[2] = up(J.lb) /\ Q[3] = up(J.rb)
    BY <1>1, <1>5
  <2>3. R = IF e % 2 = 1 THEN Q ELSE G!P!EvenAround(Q, <<0, 1, 3, 2>>, {2})
    BY <1>4, <2>1 DEF G!P!uipow_0x1, G!P!AroundIfEven
  <2> HIDE DEF A, B, C, R, Q, up, down
  <2>4. PowerLanes(R[0], R[1], I, "P", e) /\ PowerLanes(R[2], R[3], J, "M", e)
    BY <1>8, <2>2, <2>3, LanesOfEven
  <2> QED
    BY <1>10, <2>4 DEF A, R
<1>11. CASE s = "M" /\ t = "N"
  <2>1. R = G!P!uipow_0x2(A, e)
    <3>1. G!P!Signs(A) = <<0, 0, 1, 0>>
      BY <1>2, <1>11
    <3> HIDE DEF A
    <3> QED
      BY <3>1 DEF G!P!uipowUnswapped
  <2> DEFINE Q == G!P!uipow_upupdnup(B, e)
  <2>2. Q[0] = down(I.rb) /\ Q[1] = up(I.lb) /\ Q[2] = up(J.lb) /\ Q[3] = up(J.rb)
    BY <1>5, <1>7
  <2>3. R = IF e % 2 = 1 THEN G!P!Shuffle(Q, <<1, 0, 2, 3>>)
            ELSE G!P!EvenAround(Q, <<0, 1, 3, 2>>, {2})
    BY <1>4, <2>1 DEF G!P!uipow_0x2, G!P!AroundIfEven, G!P!ShuffledIfOdd
  <2> HIDE DEF A, B, C, R, Q, up, down
  <2>4. PowerLanes(R[0], R[1], I, "N", e) /\ PowerLanes(R[2], R[3], J, "M", e)
    BY <1>8, <2>2, <2>3, LanesOfEven, LanesShuffled
  <2> QED
    BY <1>11, <2>4 DEF A, R
<1>12. CASE s = "M" /\ t = "Z"
  <2>1. R = G!P!uipow_0x3(A, e)
    <3>1. G!P!Signs(A) = <<0, 0, 1, 1>>
      BY <1>2, <1>12
    <3> HIDE DEF A
    <3> QED
      BY <3>1 DEF G!P!uipowUnswapped
  <2> DEFINE Q == G!P!uipow_upupupup(A, e)
             D == G!P!Cleared(Q, {0, 1})
  <2>2. Q[0] = up(I.lb) /\ Q[1] = up(I.rb) /\ Q[2] = up(J.lb) /\ Q[3] = up(J.rb)
    BY <1>1, <1>5
  <2>3. R = IF e % 2 = 1 THEN D ELSE G!P!EvenBelow(D)
    BY <1>4, <2>1 DEF G!P!uipow_0x3, G!P!BelowIfEven
  <2>4. D[0] = PlusZero /\ D[1] = PlusZero /\ D[2] = Q[2] /\ D[3] = Q[3]
    <3> HIDE DEF Q
    <3> QED
      BY <1>3, LanesCleared
  <2> HIDE DEF A, B, C, R, Q, D, up, down
  <2>5. PowerLanes(R[0], R[1], I, "Z", e) /\ PowerLanes(R[2], R[3], J, "M", e)
    BY <1>6, <1>8, <2>2, <2>3, <2>4, LanesOfEven
  <2> QED
    BY <1>12, <2>5 DEF A, R
<1>13. CASE s = "P" /\ t = "P"
  <2>1. R = G!P!uipow_dnupdnup(A, e)
    <3>1. G!P!Signs(A) = <<0, 1, 0, 1>>
      BY <1>2, <1>13
    <3> HIDE DEF A
    <3> QED
      BY <3>1 DEF G!P!uipowUnswapped
  <2>2. R[0] = down(I.lb) /\ R[1] = up(I.rb) /\ R[2] = down(J.lb) /\ R[3] = up(J.rb)
    BY <1>1, <1>5, <2>1
  <2> HIDE DEF A, B, C, R, up, down
  <2>3. PowerLanes(R[0], R[1], I, "P", e) /\ PowerLanes(R[2], R[3], J, "P", e)
    BY <1>8, <2>2
  <2> QED
    BY <1>13, <2>3 DEF A, R
<1>14. CASE s = "P" /\ t = "N"
  <2>1. R = G!P!uipow_0x6(A, e)
    <3>1. G!P!Signs(A) = <<0, 1, 1, 0>>
      BY <1>2, <1>14
    <3> HIDE DEF A
    <3> QED
      BY <3>1 DEF G!P!uipowUnswapped
  <2> DEFINE Q == G!P!uipow_dnupdnup(B, e)
  <2>2. Q[0] = down(I.rb) /\ Q[1] = up(I.lb) /\ Q[2] = down(J.lb) /\ Q[3] = up(J.rb)
    BY <1>5, <1>7
  <2>3. R = IF e % 2 = 1 THEN G!P!Shuffle(Q, <<1, 0, 2, 3>>) ELSE Q
    BY <1>4, <2>1 DEF G!P!uipow_0x6, G!P!ShuffledIfOdd
  <2> HIDE DEF A, B, C, R, Q, up, down
  <2>4. PowerLanes(R[0], R[1], I, "N", e) /\ PowerLanes(R[2], R[3], J, "P", e)
    BY <1>8, <2>2, <2>3, LanesShuffled
  <2> QED
    BY <1>14, <2>4 DEF A, R
<1>15. CASE s = "P" /\ t = "Z"
  <2>1. R = G!P!uipow_0x7(A, e)
    <3>1. G!P!Signs(A) = <<0, 1, 1, 1>>
      BY <1>2, <1>15
    <3> HIDE DEF A
    <3> QED
      BY <3>1 DEF G!P!uipowUnswapped
  <2> DEFINE Q == G!P!uipow_dnupdnup(A, e)
  <2>2. Q[2] = down(J.lb) /\ Q[3] = up(J.rb)
    BY <1>1, <1>5
  <2>3. R = G!P!Cleared(Q, {0, 1})
    BY <2>1 DEF G!P!uipow_0x7
  <2> HIDE DEF A, B, C, R, Q, up, down
  <2>4. R[0] = PlusZero /\ R[1] = PlusZero /\ R[2] = Q[2] /\ R[3] = Q[3]
    BY <1>3, <2>3, LanesCleared
  <2>5. PowerLanes(R[0], R[1], I, "Z", e) /\ PowerLanes(R[2], R[3], J, "P", e)
    BY <1>6, <1>8, <2>2, <2>4
  <2> QED
    BY <1>15, <2>5 DEF A, R
<1>16. CASE s = "N" /\ t = "N"
  <2>1. R = G!P!uipow_0xa(A, e)
    <3>1. G!P!Signs(A) = <<1, 0, 1, 0>>
      BY <1>2, <1>16
    <3> HIDE DEF A
    <3> QED
      BY <3>1 DEF G!P!uipowUnswapped
  <2> DEFINE Q == G!P!uipow_dnupdnup(C, e)
  <2>2. Q[0] = down(I.rb) /\ Q[1] = up(I.lb) /\ Q[2] = down(J.rb) /\ Q[3] = up(J.lb)
    BY <1>5, <1>7
  <2>3. R = IF e % 2 = 1 THEN G!P!Shuffle(Q, G!P!Crossed) ELSE Q
    BY <1>4, <2>1 DEF G!P!uipow_0xa, G!P!ShuffledIfOdd
  <2> HIDE DEF A, B, C, R, Q, up, down
  <2>4. PowerLanes(R[0], R[1], I, "N", e) /\ PowerLanes(R[2], R[3], J, "N", e)
    BY <1>8, <2>2, <2>3, LanesShuffled
  <2> QED
    BY <1>16, <2>4 DEF A, R
<1>17. CASE s = "N" /\ t = "Z"
  <2>1. R = G!P!uipow_0xb(A, e)
    <3>1. G!P!Signs(A) = <<1, 0, 1, 1>>
      BY <1>2, <1>17
    <3> HIDE DEF A
    <3> QED
      BY <3>1 DEF G!P!uipowUnswapped
  <2> DEFINE Q == G!P!uipow_dnupdnup(C, e)
             D == G!P!Cleared(Q, {0, 1})
  <2>2. Q[2] = down(J.rb) /\ Q[3] = up(J.lb)
    BY <1>5, <1>7
  <2>3. R = IF e % 2 = 1 THEN G!P!Shuffle(D, G!P!Crossed) ELSE D
    BY <1>4, <2>1 DEF G!P!uipow_0xb, G!P!ShuffledIfOdd
  <2>4. D[0] = PlusZero /\ D[1] = PlusZero /\ D[2] = Q[2] /\ D[3] = Q[3]
    <3> HIDE DEF Q
    <3> QED
      BY <1>3, LanesCleared
  <2> HIDE DEF A, B, C, R, Q, D, up, down
  <2>5. PowerLanes(R[0], R[1], I, "Z", e) /\ PowerLanes(R[2], R[3], J, "N", e)
    BY <1>6, <1>8, <2>2, <2>3, <2>4, LanesShuffled
  <2> QED
    BY <1>17, <2>5 DEF A, R
<1>18. CASE s = "Z" /\ t = "Z"
  <2> DEFINE Q == G!P!Lane(G!P!Zero(TRUE), G!P!Zero(FALSE))
  <2>1. R = G!P!Pair(Q, Q)
    <3>1. G!P!Signs(A) = <<1, 1, 1, 1>>
      BY <1>2, <1>18
    <3> HIDE DEF A, Q
    <3>2. \A x : G!P!Signs(x) = <<1, 1, 1, 1>> =>
            G!P!uipowUnswapped(x, e) = G!P!Pair(G!P!Lane(G!P!Zero(TRUE), G!P!Zero(FALSE)),
                                               G!P!Lane(G!P!Zero(TRUE), G!P!Zero(FALSE)))
      BY DEF G!P!uipowUnswapped
    <3> QED
      BY <3>1, <3>2, Zenon DEF Q
  <2>2. Q.lb \in Doubles /\ Num(Q.lb) = 0 /\ Q.rb \in Doubles /\ Num(Q.rb) = 0
    <3>1. Q.lb = Zero(TRUE) /\ Q.rb = Zero(FALSE)
      BY PairFloatsAreDoubles DEF G!P!Lane
    <3> QED
      BY <3>1, EndsAre
  <2> HIDE DEF A, B, C, R, Q, up, down
  <2>3. R[0] = Q.lb /\ R[1] = Q.rb /\ R[2] = Q.lb /\ R[3] = Q.rb
    BY <2>1, PairHasLanes
  <2>4. PowerLanes(R[0], R[1], I, "Z", e) /\ PowerLanes(R[2], R[3], J, "Z", e)
    BY <1>8, <2>2, <2>3
  <2> QED
    BY <1>18, <2>4 DEF A, R
<1> HIDE DEF A, B, C, R, up, down
<1>19. PowerLanes(R[0], R[1], I, t, e) /\ PowerLanes(R[2], R[3], J, s, e)
  BY <1>9, <1>10, <1>11, <1>12, <1>13, <1>14, <1>15, <1>16, <1>17, <1>18 DEF UnswappedSides, A, R
<1> QED
  BY <1>19 DEF A, R

(* Only the lanes of a register tell what its intervals are.                 *)
LEMMA LanesHaveValues ==
  ASSUME NEW R
  PROVE  /\ Value(G!P!first(R)) = Value(Bounds(R[0], R[1]))
         /\ Value(G!P!second(R)) = Value(Bounds(R[2], R[3]))
<1>1. ASSUME NEW K, NEW L, K.lb = L.lb, K.rb = L.rb
      PROVE  Value(K) = Value(L)
  <2>1. is_empty(K) <=> is_empty(L)
    BY <1>1 DEF is_empty, left, right
  <2> QED
    BY <1>1, <2>1 DEF Value
<1>2. /\ G!P!first(R).lb = R[0] /\ G!P!first(R).rb = R[1]
      /\ G!P!second(R).lb = R[2] /\ G!P!second(R).rb = R[3]
  BY DEF G!P!first, G!P!second
<1>3. \A l, r : Bounds(l, r).lb = l /\ Bounds(l, r).rb = r
  BY DEF Bounds
<1> QED
  BY <1>1, <1>2, <1>3

(* The cases of the intervals swapped are the six of the sides that the ten   *)
(* do not have, and the sides swapped are among the ten.                     *)
LEMMA SwappedSides ==
  ASSUME NEW I, NEW J
  PROVE  LET s == SideBySigns(J)
             t == SideBySigns(I)
         IN /\ G!P!Signs(G!P!Pair(I, J)) \in G!P!SwappedCases <=> <<s, t>> \notin UnswappedSides
            /\ <<s, t>> \in UnswappedSides \/ <<t, s>> \in UnswappedSides
<1> DEFINE s == SideBySigns(J)
           t == SideBySigns(I)
<1>1. s \in {"M", "P", "N", "Z"} /\ t \in {"M", "P", "N", "Z"}
  BY SidesAreFour
<1>2. G!P!Signs(G!P!Pair(I, J)) = <<Bit(J.rb), Bit(J.lb), Bit(I.rb), Bit(I.lb)>>
  BY SignsAre
<1>3. /\ s = "M" => Bit(J.rb) = 0 /\ Bit(J.lb) = 0
      /\ s = "P" => Bit(J.rb) = 0 /\ Bit(J.lb) = 1
      /\ s = "N" => Bit(J.rb) = 1 /\ Bit(J.lb) = 0
      /\ s = "Z" => Bit(J.rb) = 1 /\ Bit(J.lb) = 1
      /\ t = "M" => Bit(I.rb) = 0 /\ Bit(I.lb) = 0
      /\ t = "P" => Bit(I.rb) = 0 /\ Bit(I.lb) = 1
      /\ t = "N" => Bit(I.rb) = 1 /\ Bit(I.lb) = 0
      /\ t = "Z" => Bit(I.rb) = 1 /\ Bit(I.lb) = 1
  BY SignsAre
<1> HIDE DEF s, t
<1>4. \A a, b, c, d : <<a, b, c, d>> \in G!P!SwappedCases <=>
        \/ a = 0 /\ b = 1 /\ c = 0 /\ d = 0
        \/ a = 1 /\ b = 0 /\ c = 0 /\ d = 0
        \/ a = 1 /\ b = 0 /\ c = 0 /\ d = 1
        \/ a = 1 /\ b = 1 /\ c = 0 /\ d = 0
        \/ a = 1 /\ b = 1 /\ c = 0 /\ d = 1
        \/ a = 1 /\ b = 1 /\ c = 1 /\ d = 0
  BY DEF G!P!SwappedCases
<1>5. \A x, y : <<x, y>> \in UnswappedSides <=>
        \/ x = "M" /\ y \in {"M", "P", "N", "Z"}
        \/ x = "P" /\ y \in {"P", "N", "Z"}
        \/ x = "N" /\ y \in {"N", "Z"}
        \/ x = "Z" /\ y = "Z"
  BY DEF UnswappedSides
<1>6. <<s, t>> \in UnswappedSides \/ <<t, s>> \in UnswappedSides
  BY <1>1, <1>5
<1>7. <<Bit(J.rb), Bit(J.lb), Bit(I.rb), Bit(I.lb)>> \in G!P!SwappedCases
        <=> <<s, t>> \notin UnswappedSides
  BY <1>1, <1>3, <1>4, <1>5
<1> QED
  BY <1>2, <1>6, <1>7 DEF s, t

(* The lanes of a power of a pair are those of the powers of its intervals,   *)
(* swapped twice when the case is of the intervals swapped.                  *)
LEMMA PairPowerLanes ==
  ASSUME NEW I \in NonEmpty, NEW J \in NonEmpty, NEW e \in Nat, e # 0
  PROVE  LET R == G!P!uipow(G!P!Pair(I, J), e)
         IN /\ PowerLanes(R[0], R[1], I, SideBySigns(I), e)
            /\ PowerLanes(R[2], R[3], J, SideBySigns(J), e)
<1> DEFINE A == G!P!Pair(I, J)
           B == G!P!Pair(J, I)
           R == G!P!uipow(A, e)
           s == SideBySigns(J)
           t == SideBySigns(I)
<1>1. /\ G!P!Signs(A) \in G!P!SwappedCases <=> <<s, t>> \notin UnswappedSides
      /\ <<s, t>> \in UnswappedSides \/ <<t, s>> \in UnswappedSides
  BY SwappedSides
<1>2. CASE <<s, t>> \in UnswappedSides
  <2> DEFINE Q == G!P!uipowUnswapped(A, e)
  <2>1. PowerLanes(Q[0], Q[1], I, t, e) /\ PowerLanes(Q[2], Q[3], J, s, e)
    BY <1>2, UnswappedLanes
  <2>2. R = Q
    <3> HIDE DEF A, s, t
    <3> QED
      BY <1>1, <1>2 DEF G!P!uipow, G!P!SwappedIf
  <2> HIDE DEF Q, R
  <2>3. PowerLanes(R[0], R[1], I, t, e) /\ PowerLanes(R[2], R[3], J, s, e)
    BY <2>1, <2>2
  <2> QED
    BY <2>3 DEF R
<1>3. CASE <<s, t>> \notin UnswappedSides
  <2> DEFINE Q == G!P!uipowUnswapped(B, e)
  <2>1. PowerLanes(Q[0], Q[1], J, s, e) /\ PowerLanes(Q[2], Q[3], I, t, e)
    BY <1>1, <1>3, UnswappedLanes
  <2>2. G!P!Shuffle(A, G!P!Swapped) = B
    <3>1. A[0] = I.lb /\ A[1] = I.rb /\ A[2] = J.lb /\ A[3] = J.rb
      BY PairHasLanes
    <3>2. B = [k \in 0 .. 3 |-> <<J.lb, J.rb, I.lb, I.rb>>[k + 1]]
      BY PairHasLanes
    <3> HIDE DEF A, B
    <3>3. G!P!Shuffle(A, G!P!Swapped) = [k \in 0 .. 3 |-> A[<<2, 3, 0, 1>>[k + 1]]]
      BY DEF G!P!Shuffle, G!P!Swapped, G!P!Lanes
    <3>4. \A k \in 0 .. 3 : A[<<2, 3, 0, 1>>[k + 1]] = <<J.lb, J.rb, I.lb, I.rb>>[k + 1]
      <4>1. \A k \in 0 .. 3 : k = 0 \/ k = 1 \/ k = 2 \/ k = 3
        OBVIOUS
      <4> QED
        BY <3>1, <4>1
    <3> QED
      BY <3>2, <3>3, <3>4
  <2>3. R = G!P!Shuffle(Q, G!P!Swapped)
    <3> HIDE DEF A, B, s, t
    <3> QED
      BY <1>1, <1>3, <2>2 DEF G!P!uipow, G!P!SwappedIf
  <2> HIDE DEF Q, R
  <2>4. R[0] = Q[2] /\ R[1] = Q[3] /\ R[2] = Q[0] /\ R[3] = Q[1]
    BY <2>3, LanesShuffled
  <2>5. PowerLanes(R[0], R[1], I, t, e) /\ PowerLanes(R[2], R[3], J, s, e)
    BY <2>1, <2>4
  <2> QED
    BY <2>5 DEF R
<1> QED
  BY <1>2, <1>3

(* The powers of a pair have the values of the powers of its intervals.      *)
LEMMA PairPowersAre ==
  ASSUME NEW I \in NonEmpty, NEW J \in NonEmpty, NEW n \in Nat
  PROVE  LET R == G!P!pow(G!P!Pair(I, J), n)
         IN /\ Value(G!P!first(R)) = Value(G!F!pow(I, n))
            /\ Value(G!P!second(R)) = Value(G!F!pow(J, n))
<1> DEFINE A == G!P!Pair(I, J)
           R == G!P!pow(A, n)
<1>1. /\ Value(G!P!first(R)) = Value(Bounds(R[0], R[1]))
      /\ Value(G!P!second(R)) = Value(Bounds(R[2], R[3]))
  BY LanesHaveValues
<1>2. ~G!F!is_empty(I) /\ ~G!F!is_empty(J)
  BY NonEmptyIs, FloatBoundsAre
<1>3. CASE n # 0
  <2>1. R = G!P!uipow(A, n)
    <3> HIDE DEF A
    <3>1. n > 0
      BY <1>3
    <3> QED
      BY <3>1 DEF G!P!pow
  <2>2. PowerLanes(R[0], R[1], I, SideBySigns(I), n) /\ PowerLanes(R[2], R[3], J, SideBySigns(J), n)
    BY <1>3, <2>1, PairPowerLanes
  <2>3. ASSUME NEW K \in {I, J} PROVE G!F!pow(K, n) = G!F!uipow(K, n)
    <3>1. ~(n < 0) /\ ~G!F!is_empty(K)
      BY <1>2
    <3>2. G!F!pow(K, n) = G!F!InvertedIf(n < 0, G!F!uipow(K, IF n < 0 THEN -n ELSE n))
      BY <1>3, <3>1, Zenon DEF G!F!pow
    <3> QED
      BY <3>1, <3>2, Zenon DEF G!F!InvertedIf
  <2> HIDE DEF R
  <2>4. /\ Value(Bounds(R[0], R[1])) = Value(G!F!uipow(I, n))
        /\ Value(Bounds(R[2], R[3])) = Value(G!F!uipow(J, n))
    BY <1>3, <2>2, PowerLanesAre
  <2> QED
    BY <1>1, <2>3, <2>4 DEF R
<1>4. CASE n = 0
  <2> DEFINE u == OfNum(One)
             v == Opposite(u)
  <2>1. R = G!P!interval2f(u, u, u, u)
    <3>1. ~(n > 0)
      BY <1>4
    <3> HIDE DEF A
    <3> QED
      BY <3>1, PairFloatsAreDoubles DEF G!P!pow
  <2>2. R = [k \in 0 .. 3 |-> <<v, u, v, u>>[k + 1]]
    BY <2>1, PairFloatsAreDoubles DEF G!P!interval2f, G!P!Lanes
  <2>3. G!F!one = Bounds(v, u)
    BY FloatsAreDoubles, FloatBoundsAre DEF G!F!one
  <2>4. G!F!pow(I, n) = G!F!one /\ G!F!pow(J, n) = G!F!one
    BY <1>2, <1>4, Zenon DEF G!F!pow
  <2> HIDE DEF u, v, R
  <2>5. R[0] = v /\ R[1] = u /\ R[2] = v /\ R[3] = u
    BY <2>2
  <2>6. /\ Value(G!P!first(R)) = Value(G!F!pow(I, n))
        /\ Value(G!P!second(R)) = Value(G!F!pow(J, n))
    BY <1>1, <2>3, <2>4, <2>5
  <2> QED
    BY <2>6 DEF R
<1> QED
  BY <1>3, <1>4

(* For every format: the powers of a pair of intervals of floats, the four    *)
(* lanes multiplied at once and crossed, swapped and cleared by the sixteen   *)
(* cases of the signs of their bounds, are for each of the two intervals, if  *)
(* none is empty, what the power of it alone is.                             *)
THEOREM PowersOfPairsAreTwoPowersAlways ==
  MCSpec => []PowersOfPairsAreTwoPowers
<1>1. MCInit => KeepsFloats
  BY KeepsFloatsIsInductive
<1>2. KeepsFloats /\ [MCNext]_<<vars, floats>> => KeepsFloats'
  BY KeepsFloatsIsInductive
<1>3. KeepsFloats => PowersOfPairsAreTwoPowers
  <2>1. SUFFICES ASSUME KeepsFloats, floats
                 PROVE  G!PowersOfPairsAreTwoPowers
    BY DEF PowersOfPairsAreTwoPowers
  <2> DEFINE I == obj["x"]
             J == obj["y"]
  <2>2. I \in Intervals /\ J \in Intervals
    BY <2>1 DEF KeepsFloats, Names
  <2>3. G!X = I /\ G!Y = J
    BY DEF G!X, G!Y
  <2> HIDE DEF I, J
  <2>4. ASSUME NEW n \in Exponents, ~G!is_empty(I), ~G!is_empty(J)
        PROVE  G!Values(G!P!pow(G!P!Pair(I, J), n)) =
                 <<G!Value(G!F!pow(I, n)), G!Value(G!F!pow(J, n))>>
    <3>1. n \in Nat
      BY MCAssumption
    <3>2. I \in NonEmpty /\ J \in NonEmpty
      <4>1. ~is_empty(I) /\ ~is_empty(J)
        BY <2>4, FloatRealsAre
      <4> QED
        BY <2>2, <4>1, EmptySetIs
    <3> DEFINE R == G!P!pow(G!P!Pair(I, J), n)
    <3>3. Value(G!P!first(R)) = Value(G!F!pow(I, n)) /\ Value(G!P!second(R)) = Value(G!F!pow(J, n))
      BY <3>1, <3>2, PairPowersAre
    <3> QED
      BY <3>3, FloatRealsAre DEF G!Values
  <2> QED
    BY <2>3, <2>4 DEF G!PowersOfPairsAreTwoPowers
<1> QED
  BY <1>1, <1>2, <1>3, PTL DEF MCSpec

-----------------------------------------------------------------------------
(* A state of the loop of a bound above 0                                    *)
Positive(s) == s.y \in Doubles /\ s.z \in Doubles /\ Num(s.y) > 0 /\ Num(s.z) > 0

(* The loop has y times the power n of z at most r                           *)
IsBelow(s, r) ==
  /\ ~IsInf(s.y) /\ (s.n # 0 => ~IsInf(s.z))
  /\ PowerIsAtMost(Num(s.y), Num(s.z), s.n, One, r)

(* A step of the loop that rounds upward does not lessen y times the power n   *)
(* of z.                                                                     *)
LEMMA StepGoesUp ==
  ASSUME NEW e \in Nat, NEW s \in Stage(e), s.n # 0, Positive(s), NEW r \in Nat
  PROVE  /\ Positive(After(s, "up", "up"))
         /\ IsBelow(After(s, "up", "up"), r) => IsBelow(s, r)
<1> DEFINE m == s.n \div 2
           u == IF s.n % 2 = 1 THEN MulUp(s.y, s.z) ELSE s.y
           w == IF s.n = 1 THEN s.z ELSE MulUp(s.z, s.z)
           t == [n |-> m, y |-> u, z |-> w]
<1>1. After(s, "up", "up") = t
  BY SquaresAre, Zenon DEF After
<1>2. /\ s.n \in Nat /\ m \in Nat /\ (s.n = 1 <=> m = 0)
      /\ s.n % 2 = 1 => s.n = 2 * m + 1
      /\ s.n % 2 # 1 => s.n = 2 * m
  BY DEF Stage
<1>3. /\ s.y \in Doubles /\ s.z \in Doubles /\ Num(s.y) > 0 /\ Num(s.z) > 0
      /\ Num(s.y) \in Nat /\ Num(s.z) \in Nat
  BY NumOfMagnitude DEF Positive
<1>4. u \in Doubles /\ w \in Doubles /\ Num(u) > 0 /\ Num(w) > 0 /\ Num(u) \in Nat /\ Num(w) \in Nat
  <2>1. /\ MulUp(s.y, s.z) \in Doubles /\ Num(MulUp(s.y, s.z)) > 0
        /\ MulUp(s.z, s.z) \in Doubles /\ Num(MulUp(s.z, s.z)) > 0
    BY <1>3, ProductOfPositive
  <2>2. u \in Doubles /\ w \in Doubles /\ Num(u) > 0 /\ Num(w) > 0
    BY <1>3, <2>1
  <2> HIDE DEF u, w
  <2> QED
    BY <2>2, NumOfMagnitude
<1>5. t.n = m /\ t.y = u /\ t.z = w
  OBVIOUS
<1>6. s.n % 2 = 1 /\ ~IsInf(u) => /\ ~IsInf(s.y) /\ ~IsInf(s.z)
                                  /\ Num(s.y) * Num(s.z) <= One * Num(u)
  <2> SUFFICES ASSUME s.n % 2 = 1, ~IsInf(u)
               PROVE  ~IsInf(s.y) /\ ~IsInf(s.z) /\ Num(s.y) * Num(s.z) <= One * Num(u)
    OBVIOUS
  <2>1. u = MulUp(s.y, s.z)
    OBVIOUS
  <2>2. u # Infinity
    BY <1>4, InfinityIs
  <2> HIDE DEF u
  <2> QED
    BY <1>3, <2>1, <2>2, ProductIsFinite
<1>7. s.n % 2 # 1 => u = s.y
  OBVIOUS
<1>8. m # 0 /\ ~IsInf(w) => ~IsInf(s.z) /\ Num(s.z) * Num(s.z) <= One * Num(w)
  <2> SUFFICES ASSUME m # 0, ~IsInf(w)
               PROVE  ~IsInf(s.z) /\ Num(s.z) * Num(s.z) <= One * Num(w)
    OBVIOUS
  <2>1. w = MulUp(s.z, s.z)
    BY <1>2
  <2>2. w # Infinity
    BY <1>4, InfinityIs
  <2> HIDE DEF w, m
  <2> QED
    BY <1>3, <2>1, <2>2, ProductIsFinite
<1>9. One \in Nat
  BY LargestMagnitude
<1> HIDE DEF u, w, t, m
<1>10. ASSUME IsBelow(t, r) PROVE IsBelow(s, r)
  <2>1. /\ ~IsInf(u) /\ (m # 0 => ~IsInf(w))
        /\ PowerIsAtMost(Num(u), Num(w), m, One, r)
    BY <1>5, <1>10 DEF IsBelow
  <2>2. m = 0 \/ ProductIsAtMost(Num(s.z), Num(s.z), One, Num(w))
    BY <1>8, <2>1 DEF ProductIsAtMost
  <2>3. CASE s.n % 2 = 1
    <3>1. ~IsInf(s.y) /\ ~IsInf(s.z) /\ ProductIsAtMost(Num(s.y), Num(s.z), One, Num(u))
      BY <1>6, <2>1, <2>3 DEF ProductIsAtMost
    <3>2. m \in Nat /\ s.n = 2 * m + 1
      BY <1>2, <2>3
    <3>3. PowerIsAtMost(Num(s.y), Num(s.z), s.n, One, r)
      BY <1>3, <1>4, <1>9, <2>1, <2>2, <3>1, <3>2, OddStepIsAtMost
    <3> QED
      BY <1>2, <3>1, <3>3 DEF IsBelow
  <2>4. CASE s.n % 2 # 1
    <3>1. u = s.y /\ m # 0
      BY <1>2, <1>7, <2>4
    <3>2. ~IsInf(s.y) /\ ~IsInf(s.z)
      BY <1>8, <2>1, <3>1
    <3>3. m \in Nat /\ s.n = 2 * m
      BY <1>2, <2>4
    <3>4. PowerIsAtMost(Num(s.y), Num(w), m, One, r)
      BY <2>1, <3>1
    <3>5. PowerIsAtMost(Num(s.y), Num(s.z), s.n, One, r)
      BY <1>3, <1>4, <1>9, <2>2, <3>3, <3>4, EvenStepIsAtMost
    <3> QED
      BY <1>2, <3>2, <3>5 DEF IsBelow
  <2> QED
    BY <2>3, <2>4
<1> QED
  BY <1>1, <1>4, <1>5, <1>10 DEF Positive

(* What the loop that rounds upward returns is at least it.                  *)
LEMMA LoopGoesUp ==
  ASSUME NEW e \in Nat, NEW f, f = Carried(f, e, "up", "up")
  PROVE  \A s \in Stage(e) : Positive(s) => f[s] = Infinity \/ IsBelow(s, Num(f[s]))
<1> DEFINE Good(s) == f[s] = Infinity \/ IsBelow(s, Num(f[s]))
           Bad == {k \in 0 .. e : \E s \in Stage(e) : s.n = k /\ Positive(s) /\ ~Good(s)}
<1>0. \A s \in Stage(e) : s.n \in 0 .. e
  BY DEF Stage
<1> SUFFICES ASSUME Bad # {} PROVE FALSE
  BY <1>0
<1>1. PICK m \in Bad : \A k \in Bad : m <= k
  <2>1. Bad \subseteq Nat
    OBVIOUS
  <2> HIDE DEF Bad
  <2> QED
    BY <2>1, LeastNatural
<1>2. PICK s \in Stage(e) : s.n = m /\ Positive(s) /\ ~Good(s)
  BY <1>1
<1>3. f[s] = IF s.n = 0 THEN s.y ELSE f[After(s, "up", "up")]
  BY DEF Carried
<1>4. CASE s.n = 0
  <2>1. f[s] = s.y
    BY <1>3, <1>4
  <2>2. s.y \in Doubles /\ Num(s.y) \in Int /\ Num(s.y) > 0 /\ Num(s.z) \in Int
    BY <1>2, NumOfMagnitude DEF Positive
  <2>3. s.y = Infinity \/ ~IsInf(s.y)
    BY <2>2, InfinityIs, LargestMagnitude
  <2>4. Raised(Num(s.z), 0) = 1 /\ Raised(One, 0) = 1
    <3>1. One \in Int
      BY LargestMagnitude
    <3> QED
      BY <2>2, <3>1, RaisedIs
  <2>5. Num(s.y) * Raised(Num(s.z), s.n) <= Num(s.y) * Raised(One, s.n)
    BY <1>4, <2>2, <2>4
  <2>6. Good(s)
    BY <1>4, <2>1, <2>3, <2>5 DEF IsBelow, PowerIsAtMost
  <2> QED
    BY <1>2, <2>6
<1>5. CASE s.n # 0
  <2> DEFINE t == After(s, "up", "up")
  <2>1. s.n <= e + 1 /\ s.n \in Nat
    BY DEF Stage
  <2>2. t \in Stage(e) /\ t.n < s.n /\ t.n \in Nat
    BY <1>5, <2>1, StageIsFollowed DEF Upward
  <2>3. Positive(t)
    BY <1>2, <1>5, StepGoesUp
  <2>4. f[s] = f[t]
    BY <1>3, <1>5
  <2>5. f[t] \in Doubles /\ Num(f[t]) \in Nat
    <3>1. Rising(t)
      BY <2>3 DEF Positive, Rising
    <3> HIDE DEF t
    <3>2. f[t] \in Doubles /\ Num(f[t]) >= 0
      BY <2>2, <3>1, RisingReturns
    <3> QED
      BY <3>2, NumOfMagnitude
  <2>6. ~Good(t)
    <3>1. IsBelow(t, Num(f[t])) => IsBelow(s, Num(f[t]))
      BY <1>2, <1>5, <2>5, StepGoesUp
    <3> HIDE DEF t
    <3> QED
      BY <1>2, <2>4, <3>1
  <2> HIDE DEF t, Good
  <2>7. t.n \in Bad
    BY <1>0, <2>2, <2>3, <2>6
  <2> QED
    BY <1>1, <1>2, <2>1, <2>2, <2>7
<1> QED
  BY <1>4, <1>5

(* A state of the loop of a left bound, whose opposite z is below 0           *)
Falling(s) ==
  /\ s.y \in Doubles /\ s.z \in Doubles /\ ~IsInf(s.y) /\ ~IsInf(s.z)
  /\ Num(s.y) >= 0 /\ Num(s.z) <= 0

(* The loop has y times the power n of -z at least r                         *)
IsAbove(s, r) == PowerIsAtLeast(Num(s.y), -Num(s.z), s.n, One, r)

(* A step of the loop that rounds downward does not raise y times the power n  *)
(* of -z.                                                                    *)
LEMMA StepGoesDown ==
  ASSUME NEW e \in Nat, NEW s \in Stage(e), s.n # 0, Falling(s), NEW r \in Nat
  PROVE  /\ Falling(After(s, "down", "down"))
         /\ IsAbove(After(s, "down", "down"), r) => IsAbove(s, r)
<1> DEFINE m == s.n \div 2
           u == IF s.n % 2 = 1 THEN Opposite(MulUp(s.y, s.z)) ELSE s.y
           w == IF s.n = 1 THEN s.z ELSE MulUp(s.z, Opposite(s.z))
           t == [n |-> m, y |-> u, z |-> w]
           a == Num(s.y)
           b == -Num(s.z)
<1>1. After(s, "down", "down") = t
  BY SquaresAre, Zenon DEF After
<1>2. /\ s.n \in Nat /\ m \in Nat /\ (s.n = 1 <=> m = 0)
      /\ s.n % 2 = 1 => s.n = 2 * m + 1
      /\ s.n % 2 # 1 => s.n = 2 * m
  BY DEF Stage
<1>3. /\ s.y \in Doubles /\ s.z \in Doubles /\ ~IsInf(s.y) /\ ~IsInf(s.z)
      /\ a \in Nat /\ b \in Nat /\ Num(s.z) \in Int /\ Num(s.z) = -b
  <2>1. s.y \in Doubles /\ s.z \in Doubles /\ Num(s.y) >= 0 /\ Num(s.z) <= 0 /\ ~IsInf(s.y) /\ ~IsInf(s.z)
    BY DEF Falling
  <2>2. Num(s.y) \in Int /\ Num(s.z) \in Int
    BY <2>1, NumOfMagnitude
  <2> QED
    BY <2>1, <2>2
<1>4. /\ Opposite(s.z) \in Doubles /\ ~IsInf(Opposite(s.z)) /\ Num(Opposite(s.z)) = b
  BY <1>3, OppositeIsDouble DEF IsInf
<1>5. t.n = m /\ t.y = u /\ t.z = w /\ One \in Nat
  BY LargestMagnitude
<1>6. s.n % 2 = 1 => u = Opposite(MulUp(s.y, s.z))
  OBVIOUS
<1>7. s.n % 2 # 1 => u = s.y
  OBVIOUS
<1>8. m # 0 => w = MulUp(s.z, Opposite(s.z))
  BY <1>2
<1>9. m = 0 => w = s.z
  BY <1>2
<1> HIDE DEF u, w, t, m, a, b
<1>10. /\ a * Num(s.z) = -(a * b) /\ a * Num(s.z) <= 0
       /\ Num(s.z) * b = -(b * b) /\ Num(s.z) * b <= 0
       /\ a * b \in Nat /\ b * b \in Nat
  <2>1. a * (-b) = -(a * b) /\ (-b) * b = -(b * b) /\ a * b \in Nat /\ b * b \in Nat
    BY <1>3, SignsMultiply
  <2> QED
    BY <1>3, <2>1
<1>11. /\ u \in Doubles /\ ~IsInf(u) /\ Num(u) \in Nat
       /\ s.n % 2 = 1 => One * Num(u) <= a * b
  <2>1. CASE s.n % 2 = 1
    <3> DEFINE q == MulUp(s.y, s.z)
    <3>1. /\ q \in Doubles /\ ~IsInf(q) /\ Num(q) <= 0
          /\ a * Num(s.z) <= One * Num(q)
      BY <1>3, <1>10, ProductNotAbove DEF a
    <3> HIDE DEF q
    <3>2. Opposite(q) \in Doubles /\ ~IsInf(Opposite(q)) /\ Num(Opposite(q)) = -Num(q) /\ Num(q) \in Int
      BY <3>1, OppositeIsDouble, NumOfMagnitude DEF IsInf
    <3>3. One * (-Num(q)) = -(One * Num(q)) /\ One * Num(q) \in Int
      BY <1>5, <3>2, SignsMultiply
    <3>4. u = Opposite(q)
      BY <1>6, <2>1 DEF q
    <3>5. One * Num(u) <= a * b
      BY <1>10, <3>1, <3>2, <3>3, <3>4
    <3> QED
      BY <3>1, <3>2, <3>4, <3>5
  <2>2. CASE s.n % 2 # 1
    BY <1>3, <1>7, <2>2 DEF a
  <2> QED
    BY <2>1, <2>2
<1>12. /\ w \in Doubles /\ ~IsInf(w) /\ -Num(w) \in Nat /\ Num(w) \in Int /\ Num(w) <= 0
       /\ m # 0 => One * (-Num(w)) <= b * b
  <2>1. CASE m # 0
    <3>1. /\ w \in Doubles /\ ~IsInf(w) /\ Num(w) <= 0
          /\ Num(s.z) * b <= One * Num(w)
      BY <1>3, <1>4, <1>8, <1>10, <2>1, ProductNotAbove
    <3>2. Num(w) \in Int /\ -Num(w) \in Nat
      BY <3>1, NumOfMagnitude
    <3>3. One * (-Num(w)) = -(One * Num(w)) /\ One * Num(w) \in Int
      BY <1>5, <3>2, SignsMultiply
    <3> QED
      BY <1>10, <3>1, <3>2, <3>3
  <2>2. CASE m = 0
    BY <1>3, <1>9, <2>2
  <2> QED
    BY <2>1, <2>2
<1>13. ASSUME IsAbove(t, r) PROVE IsAbove(s, r)
  <2>1. PowerIsAtLeast(Num(u), -Num(w), m, One, r)
    BY <1>5, <1>13 DEF IsAbove
  <2>2. m = 0 \/ ProductIsAtLeast(b, b, One, -Num(w))
    BY <1>12 DEF ProductIsAtLeast
  <2>3. CASE s.n % 2 = 1
    <3>1. ProductIsAtLeast(a, b, One, Num(u))
      BY <1>11, <2>3 DEF ProductIsAtLeast
    <3>2. m \in Nat /\ s.n = 2 * m + 1
      BY <1>2, <2>3
    <3>3. PowerIsAtLeast(a, b, s.n, One, r)
      BY <1>3, <1>5, <1>11, <1>12, <2>1, <2>2, <3>1, <3>2, OddStepIsAtLeast
    <3> QED
      BY <3>3 DEF IsAbove, a, b
  <2>4. CASE s.n % 2 # 1
    <3>1. Num(u) = a
      BY <1>7, <2>4 DEF a
    <3>2. m \in Nat /\ s.n = 2 * m
      BY <1>2, <2>4
    <3>3. PowerIsAtLeast(a, -Num(w), m, One, r)
      BY <2>1, <3>1
    <3>4. PowerIsAtLeast(a, b, s.n, One, r)
      BY <1>3, <1>5, <1>12, <2>2, <3>2, <3>3, EvenStepIsAtLeast
    <3> QED
      BY <3>4 DEF IsAbove, a, b
  <2> QED
    BY <2>3, <2>4
<1>14. Falling(t)
  BY <1>5, <1>11, <1>12 DEF Falling
<1> QED
  BY <1>1, <1>13, <1>14

(* What the loop that rounds downward returns is at most it.                 *)
LEMMA LoopGoesDown ==
  ASSUME NEW e \in Nat, NEW f, f = Carried(f, e, "down", "down")
  PROVE  \A s \in Stage(e) : Falling(s) => /\ f[s] \in Doubles /\ ~IsInf(f[s]) /\ Num(f[s]) \in Nat
                                           /\ IsAbove(s, Num(f[s]))
<1> DEFINE Good(s) == /\ f[s] \in Doubles /\ ~IsInf(f[s]) /\ Num(f[s]) \in Nat
                      /\ IsAbove(s, Num(f[s]))
           Bad == {k \in 0 .. e : \E s \in Stage(e) : s.n = k /\ Falling(s) /\ ~Good(s)}
<1>0. \A s \in Stage(e) : s.n \in 0 .. e
  BY DEF Stage
<1> SUFFICES ASSUME Bad # {} PROVE FALSE
  BY <1>0
<1>1. PICK m \in Bad : \A k \in Bad : m <= k
  <2>1. Bad \subseteq Nat
    OBVIOUS
  <2> HIDE DEF Bad
  <2> QED
    BY <2>1, LeastNatural
<1>2. PICK s \in Stage(e) : s.n = m /\ Falling(s) /\ ~Good(s)
  BY <1>1
<1>3. f[s] = IF s.n = 0 THEN s.y ELSE f[After(s, "down", "down")]
  BY DEF Carried
<1>4. CASE s.n = 0
  <2>1. f[s] = s.y
    BY <1>3, <1>4
  <2>2. /\ s.y \in Doubles /\ ~IsInf(s.y) /\ Num(s.y) >= 0 /\ Num(s.y) \in Int /\ -Num(s.z) \in Int
    BY <1>2, NumOfMagnitude DEF Falling
  <2>3. Raised(-Num(s.z), 0) = 1 /\ Raised(One, 0) = 1
    <3>1. One \in Int
      BY LargestMagnitude
    <3>2. \A k \in Int : Raised(k, 0) = 1
      BY RaisedIs
    <3> QED
      BY <2>2, <3>1, <3>2
  <2>4. IsAbove(s, Num(s.y))
    BY <1>4, <2>2, <2>3 DEF IsAbove, PowerIsAtLeast
  <2>5. Good(s)
    BY <2>1, <2>2, <2>4
  <2> QED
    BY <1>2, <2>5
<1>5. CASE s.n # 0
  <2> DEFINE t == After(s, "down", "down")
  <2>1. s.n <= e + 1 /\ s.n \in Nat
    BY DEF Stage
  <2>2. t \in Stage(e) /\ t.n < s.n /\ t.n \in Nat
    BY <1>5, <2>1, StageIsFollowed DEF Upward
  <2>3. Falling(t)
    <3>1. 0 \in Nat
      OBVIOUS
    <3> QED
      BY <1>2, <1>5, <3>1, StepGoesDown
  <2>4. f[s] = f[t]
    BY <1>3, <1>5
  <2>5. ~Good(t)
    <3>1. Num(f[t]) \in Nat /\ IsAbove(t, Num(f[t])) => IsAbove(s, Num(f[t]))
      BY <1>2, <1>5, StepGoesDown
    <3> HIDE DEF t
    <3> QED
      BY <1>2, <2>4, <3>1
  <2> HIDE DEF t, Good
  <2>6. t.n \in Bad
    BY <1>0, <2>2, <2>3, <2>5
  <2> QED
    BY <1>1, <1>2, <2>1, <2>2, <2>6
<1> QED
  BY <1>4, <1>5

-----------------------------------------------------------------------------
(* The denominator of the power e of a sample                                *)
Scale(e) == Raised(Fine, e) * Raised(One, e - 1)

(* It is not 0; the power of a 0 is.                                         *)
LEMMA ScaleIs ==
  ASSUME NEW e \in Nat, e # 0
  PROVE  /\ e - 1 \in Nat /\ Scale(e) \in Nat /\ Scale(e) >= 1
         /\ Raised(Fine, e) \in Nat /\ Raised(One, e - 1) \in Nat
         /\ Raised(One, e) = One * Raised(One, e - 1)
         /\ Raised(0, e) = 0
         /\ \A k \in Nat : Raised(k, e) \in Nat /\ (k >= 1 => Raised(k, e) >= 1)
<1>1. e - 1 \in Nat /\ (e - 1) + 1 = e
  OBVIOUS
<1>2. One \in Nat /\ One >= 1 /\ Fine \in Nat /\ Fine >= 1 /\ One \in Int /\ 0 \in Int
  BY LargestMagnitude, ConstantsAre
<1>3. \A k \in Nat : \A n \in Nat : Raised(k, n) \in Nat /\ (k >= 1 => Raised(k, n) >= 1)
  <2> TAKE k \in Nat
  <2>1. k <= k
    OBVIOUS
  <2> QED
    BY <2>1, RaisedGrows
<1>4. /\ Raised(Fine, e) \in Nat /\ Raised(Fine, e) >= 1
      /\ Raised(One, e - 1) \in Nat /\ Raised(One, e - 1) >= 1
  BY <1>1, <1>2, <1>3
<1>5. Scale(e) \in Nat /\ Scale(e) >= 1
  BY <1>4, SignsMultiply DEF Scale
<1>6. \A k \in Int : Raised(k, e) = k * Raised(k, e - 1) /\ Raised(k, e - 1) \in Int
  <2> TAKE k \in Int
  <2>1. Raised(k, (e - 1) + 1) = k * Raised(k, e - 1) /\ Raised(k, e - 1) \in Int
    BY <1>1, RaisedIs
  <2> QED
    BY <1>1, <2>1
<1>7. Raised(One, e) = One * Raised(One, e - 1)
  BY <1>2, <1>6
<1>8. Raised(0, e) = 0
  <2>1. Raised(0, e) = 0 * Raised(0, e - 1) /\ Raised(0, e - 1) \in Int
    BY <1>2, <1>6
  <2> QED
    BY <2>1
<1> QED
  BY <1>1, <1>3, <1>4, <1>5, <1>7, <1>8

(* PowerUp() of a bound is at least the power of what is below the bound.    *)
LEMMA PowerUpIsUpper ==
  ASSUME NEW e \in Nat, e # 0, NEW b \in Doubles, Num(b) >= 0,
         NEW y \in Nat, b = Infinity \/ y <= Num(b) * Fine
  PROVE  AtLeast(G!F!PowerUp(b, e), Raised(y, e), Scale(e))
<1> DEFINE start == [n |-> e, y |-> OfNum(One), z |-> b]
           r == G!F!PowerUp(b, e)
           v == Num(b)
           c == Raised(One, e - 1)
           g == Raised(Fine, e)
           x == Raised(v, e)
<1>1. PICK f : /\ f = Carried(f, e, "up", "up")
               /\ \A z : G!F!BinaryPower(z, e, "up", "up") = f[[n |-> e, y |-> OfNum(One), z |-> z]]
  BY PowerIsLoop, Zenon DEF Upward
<1>2. r = f[start]
  BY <1>1, Zenon DEF G!F!PowerUp
<1>3. /\ OfNum(One) \in Doubles /\ Num(OfNum(One)) = One /\ One \in Nat /\ One >= 1
      /\ Fine \in Nat /\ Fine >= 1
  BY UnitIs, EndsAre, LargestMagnitude, ConstantsAre
<1>4. start \in Stage(e) /\ start.n = e /\ start.y = OfNum(One) /\ start.z = b
  BY <1>3 DEF Stage, Numbers
<1>5. v \in Nat
  BY NumOfMagnitude
<1>6. r \in Doubles /\ Num(r) \in Nat
  <2>1. r \in Doubles /\ Num(r) >= 0
    BY PowersOfBounds
  <2> HIDE DEF r
  <2> QED
    BY <2>1, NumOfMagnitude
<1>7. /\ c \in Nat /\ g \in Nat /\ x \in Nat /\ Scale(e) = g * c /\ Scale(e) \in Nat
      /\ Raised(One, e) = One * c /\ Raised(0, e) = 0
      /\ Raised(y, e) \in Nat
  BY <1>5, ScaleIs DEF Scale
<1> HIDE DEF start, r
<1>8. CASE v = 0
  <2>1. y = 0
    <3>1. b # Infinity
      BY <1>8, InfinityIs, LargestMagnitude
    <3>2. y <= 0
      BY <1>3, <1>8, <3>1
    <3> QED
      BY <3>2
  <2>2. 0 <= Scale(e) * Num(r)
    BY <1>6, <1>7, SignsMultiply
  <2> QED
    BY <1>7, <2>1, <2>2 DEF AtLeast, r
<1>9. CASE v # 0
  <2>1. Positive(start)
    BY <1>3, <1>4, <1>5, <1>9 DEF Positive
  <2>2. r = Infinity \/ IsBelow(start, Num(r))
    BY <1>1, <1>2, <1>4, <2>1, LoopGoesUp
  <2>3. ASSUME r # Infinity PROVE Raised(y, e) <= Scale(e) * Num(r)
    <3>1. ~IsInf(b) /\ One * x <= Num(r) * (One * c)
      BY <1>3, <1>4, <1>7, <2>2, <2>3 DEF IsBelow, PowerIsAtMost
    <3>2. x <= Num(r) * c
      <4>1. One * x = x * One /\ Num(r) * (One * c) = (Num(r) * c) * One /\ Num(r) * c \in Int
        BY <1>3, <1>6, <1>7
      <4> HIDE DEF x, c
      <4> QED
        BY <1>3, <1>7, <3>1, <4>1, ProductsCompare
    <3>3. y <= v * Fine /\ v * Fine \in Nat
      BY <1>3, <1>5, <3>1, InfinityIs, SignsMultiply
    <3>4. Raised(y, e) <= Raised(v * Fine, e)
      BY <3>3, RaisedGrows
    <3>5. Raised(v * Fine, e) = x * g
      BY <1>3, <1>5, RaisedOfProduct
    <3> HIDE DEF x, c, g, v
    <3>6. x * g <= (Num(r) * c) * g
      <4>1. Num(r) * c \in Nat /\ g <= g
        BY <1>6, <1>7, SignsMultiply
      <4> QED
        BY <1>7, <3>2, <4>1, ProductsGrow
    <3>7. (Num(r) * c) * g = (g * c) * Num(r) /\ (g * c) * Num(r) \in Nat /\ x * g \in Nat
      BY <1>6, <1>7, SignsMultiply
    <3> QED
      BY <1>7, <3>4, <3>5, <3>6, <3>7
  <2> QED
    BY <2>3 DEF AtLeast, r
<1> QED
  BY <1>8, <1>9

(* The opposite of PowerDn() is at least that of the power of what is above.  *)
LEMMA PowerDnIsUpper ==
  ASSUME NEW e \in Nat, e # 0, NEW b \in Doubles, ~IsInf(b), Num(b) <= 0,
         NEW y \in Nat, -(Num(b) * Fine) <= y
  PROVE  /\ AtLeast(Opposite(G!F!PowerDn(b, e)), -Raised(y, e), Scale(e))
         /\ Num(Opposite(G!F!PowerDn(b, e))) <= 0
<1> DEFINE start == [n |-> e, y |-> OfNum(One), z |-> b]
           r == G!F!PowerDn(b, e)
           v == -Num(b)
           c == Raised(One, e - 1)
           g == Raised(Fine, e)
           x == Raised(v, e)
<1>1. PICK f : /\ f = Carried(f, e, "down", "down")
               /\ \A z : G!F!BinaryPower(z, e, "down", "down") =
                           f[[n |-> e, y |-> OfNum(One), z |-> z]]
  BY PowerIsLoop, Zenon DEF Upward
<1>2. r = f[start]
  BY <1>1, Zenon DEF G!F!PowerDn
<1>3. /\ OfNum(One) \in Doubles /\ Num(OfNum(One)) = One /\ ~IsInf(OfNum(One))
      /\ One \in Nat /\ One >= 1 /\ Fine \in Nat /\ Fine >= 1
  BY UnitIs, EndsAre, LargestMagnitude, MagnitudesAssumption, InfinityIs, ConstantsAre
<1>4. start \in Stage(e) /\ start.n = e /\ start.y = OfNum(One) /\ start.z = b
  BY <1>3 DEF Stage, Numbers
<1>5. v \in Nat /\ Num(b) \in Int /\ v * Fine = -(Num(b) * Fine)
  BY <1>3, NumOfMagnitude
<1>6. /\ c \in Nat /\ g \in Nat /\ x \in Nat /\ Scale(e) = g * c /\ Scale(e) \in Nat
      /\ Raised(One, e) = One * c
      /\ Raised(y, e) \in Nat
  BY <1>5, ScaleIs DEF Scale
<1> HIDE DEF start, r
<1>7. Falling(start)
  BY <1>3, <1>4 DEF Falling
<1>8. r \in Doubles /\ ~IsInf(r) /\ Num(r) \in Nat /\ IsAbove(start, Num(r))
  BY <1>1, <1>2, <1>4, <1>7, LoopGoesDown
<1>9. Num(r) * (One * c) <= One * x
  BY <1>3, <1>4, <1>6, <1>8 DEF IsAbove, PowerIsAtLeast
<1>10. x * g <= Raised(y, e)
  <2>1. v * Fine \in Nat /\ v * Fine <= y
    BY <1>3, <1>5, SignsMultiply
  <2>2. Raised(v * Fine, e) <= Raised(y, e)
    BY <2>1, RaisedGrows
  <2>3. Raised(v * Fine, e) = x * g
    BY <1>3, <1>5, RaisedOfProduct
  <2> QED
    BY <2>2, <2>3
<1> HIDE DEF x, c, g, v
<1>11. Num(r) * c <= x
  <2>1. One * x = x * One /\ Num(r) * (One * c) = (Num(r) * c) * One /\ Num(r) * c \in Int
    BY <1>3, <1>6, <1>8
  <2> QED
    BY <1>3, <1>6, <1>9, <2>1, ProductsCompare
<1>12. (Num(r) * c) * g <= x * g
  <2>1. Num(r) * c \in Nat /\ g <= g
    BY <1>6, <1>8, SignsMultiply
  <2> QED
    BY <1>6, <1>11, <2>1, ProductsGrow
<1>13. (Num(r) * c) * g = (g * c) * Num(r) /\ (g * c) * Num(r) \in Nat /\ x * g \in Nat
  BY <1>6, <1>8, SignsMultiply
<1>14. Num(Opposite(r)) = -Num(r)
  BY <1>8, OppositeIsDouble
<1>15. Scale(e) * Num(Opposite(r)) = -((g * c) * Num(r))
  BY <1>6, <1>8, <1>14, SignsMultiply
<1>16. -Raised(y, e) <= Scale(e) * Num(Opposite(r))
  BY <1>6, <1>10, <1>12, <1>13, <1>15
<1> QED
  BY <1>8, <1>14, <1>16 DEF AtLeast, r

(* The power of an interval of floats has that of each of its reals, and no   *)
(* number below 0 when it is even.                                           *)
LEMMA FloatPowerHas ==
  ASSUME NEW I \in NonEmpty, NEW e \in Nat, e # 0, NEW x \in Int, In(x, I)
  PROVE  LET K == G!F!uipow(I, e) IN
         /\ K \in NonEmpty
         /\ AtLeast(K.lb, -Raised(x, e), Scale(e)) /\ AtLeast(K.rb, Raised(x, e), Scale(e))
<1> DEFINE K == G!F!uipow(I, e)
           up(b) == G!F!PowerUp(b, e)
           down(b) == Opposite(G!F!PowerDn(b, e))
           p == Raised(x, e)
           q == Raised(-x, e)
           d == Scale(e)
<1>1. /\ I.lb \in Ends /\ I.rb \in Ends /\ I.lb \in Doubles /\ I.rb \in Doubles
      /\ Num(I.lb) \in Int /\ Num(I.rb) \in Int /\ Num(I.lb) + Num(I.rb) >= 0
      /\ Num(I.lb) <= 0 => ~IsInf(I.lb)
      /\ Num(I.rb) <= 0 => ~IsInf(I.rb)
  BY NonEmptyIs
<1>2. /\ I.lb = Infinity \/ -(Num(I.lb) * Fine) <= x
      /\ I.rb = Infinity \/ x <= Num(I.rb) * Fine
  BY InIs
<1>3. /\ K \in NonEmpty
      /\ Num(I.lb) >= 0 /\ Num(I.rb) >= 0 =>
           /\ e % 2 = 1 => K.lb = up(I.lb) /\ K.rb = up(I.rb)
           /\ e % 2 # 1 => Num(K.lb) = 0 /\ K.rb = MaxPd(up(I.rb), up(I.lb))
      /\ Num(I.lb) < 0 => K.lb = down(I.lb) /\ K.rb = up(I.rb)
      /\ Num(I.rb) < 0 =>
           /\ e % 2 = 1 => K.lb = up(I.lb) /\ K.rb = down(I.rb)
           /\ e % 2 # 1 => K.lb = down(I.rb) /\ K.rb = up(I.lb)
  BY FloatPowerBounds
<1>4. q = IF e % 2 = 1 THEN -p ELSE p
  BY RaisedOfOpposite
<1>5. p \in Int /\ d \in Nat /\ d >= 1 /\ q \in Int
  <2>1. \A k \in Int : Raised(k, e) \in Int
    BY RaisedIs
  <2>2. -x \in Int
    OBVIOUS
  <2> QED
    BY <2>1, <2>2, ScaleIs, Zenon
<1>6. (x >= 0 => p >= 0) /\ (x <= 0 => q >= 0)
  <2>1. \A k \in Nat : Raised(k, e) \in Nat
    BY ScaleIs
  <2>2. (x >= 0 => x \in Nat) /\ (x <= 0 => -x \in Nat) /\ \A k \in Nat : k >= 0
    OBVIOUS
  <2> QED
    BY <2>1, <2>2
<1>7. ASSUME NEW b \in Doubles, Num(b) >= 0, NEW y \in Nat, b = Infinity \/ y <= Num(b) * Fine
      PROVE  AtLeast(up(b), Raised(y, e), d)
  BY <1>7, PowerUpIsUpper
<1>8. ASSUME NEW b \in Doubles, ~IsInf(b), Num(b) <= 0, NEW y \in Nat, -(Num(b) * Fine) <= y
      PROVE  AtLeast(down(b), -Raised(y, e), d)
  BY <1>8, PowerDnIsUpper
<1>9. ASSUME NEW r \in Doubles, Num(r) >= 0, NEW k \in Int, k <= 0 PROVE AtLeast(r, k, d)
  <2>1. Num(r) \in Int
    BY NumOfMagnitude
  <2>2. d * Num(r) >= 0 /\ d * Num(r) \in Int
    BY <1>5, <1>9, <2>1, SignsMultiply
  <2> QED
    BY <1>9, <2>2 DEF AtLeast
<1>10. \A b \in Doubles : Num(b) >= 0 => up(b) \in Ends /\ up(b) \in Doubles /\ Num(up(b)) >= 0
  <2>1. \A z \in Doubles : Num(z) >= 0 => z # MinusInfinity
    BY InfinityIs, LargestMagnitude
  <2> QED
    BY <2>1, PowersOfBounds, EndsAre
<1>11. Fine \in Nat /\ Fine >= 1
  BY ConstantsAre
<1> HIDE DEF K, up, down, p, q, d
<1>13. /\ I.lb = Infinity => IsInf(I.lb)
       /\ I.rb = Infinity => IsInf(I.rb)
  BY <1>1, EndsAre
<1>14. CASE Num(I.lb) >= 0 /\ Num(I.rb) >= 0
  <2>1. x >= 0 => AtLeast(up(I.rb), p, d)
    BY <1>1, <1>2, <1>7, <1>14 DEF p
  <2>2. x <= 0 => AtLeast(up(I.lb), q, d)
    <3> SUFFICES ASSUME x <= 0 PROVE AtLeast(up(I.lb), q, d)
      OBVIOUS
    <3>1. -x \in Nat
      OBVIOUS
    <3>2. I.lb = Infinity \/ -x <= Num(I.lb) * Fine
      <4>1. Num(I.lb) * Fine \in Int
        BY <1>1, <1>11
      <4> QED
        BY <1>2, <4>1
    <3> QED
      BY <1>1, <1>7, <1>14, <3>1, <3>2 DEF q
  <2>3. /\ up(I.lb) \in Ends /\ up(I.lb) \in Doubles /\ Num(up(I.lb)) >= 0
        /\ up(I.rb) \in Ends /\ up(I.rb) \in Doubles /\ Num(up(I.rb)) >= 0
    BY <1>1, <1>10, <1>14
  <2>4. CASE e % 2 = 1
    <3>1. q = -p /\ K.lb = up(I.lb) /\ K.rb = up(I.rb)
      BY <1>3, <1>4, <1>14, <2>4
    <3>2. CASE x >= 0
      <4>1. -p \in Int /\ -p <= 0
        BY <1>5, <1>6, <3>2
      <4> QED
        BY <1>3, <1>9, <2>1, <2>3, <3>1, <3>2, <4>1 DEF K, p, d
    <3>3. CASE x <= 0
      <4>1. p <= 0
        BY <1>5, <1>6, <3>1, <3>3
      <4>2. AtLeast(up(I.rb), p, d) /\ AtLeast(up(I.lb), -p, d)
        BY <1>5, <1>9, <2>2, <2>3, <3>1, <3>3, <4>1
      <4> QED
        BY <1>3, <3>1, <4>2 DEF K, p, d
    <3> QED
      BY <3>2, <3>3
  <2>5. CASE e % 2 # 1
    <3>1. q = p /\ Num(K.lb) = 0 /\ K.rb = MaxPd(up(I.rb), up(I.lb))
      BY <1>3, <1>4, <1>14, <2>5
    <3>2. p >= 0
      BY <1>5, <1>6, <3>1
    <3>3. \A r, t \in Ends : AtLeast(r, p, d) \/ AtLeast(t, p, d) => AtLeast(MaxPd(r, t), p, d)
      <4> SUFFICES ASSUME NEW r \in Ends, NEW t \in Ends, AtLeast(r, p, d) \/ AtLeast(t, p, d)
                   PROVE  AtLeast(MaxPd(r, t), p, d)
        OBVIOUS
      <4>1. MaxPd(r, t) \in Ends /\ Num(r) <= Num(MaxPd(r, t)) /\ Num(t) <= Num(MaxPd(r, t))
        <5>1. r # NaN /\ t # NaN /\ Num(r) \in Int /\ Num(t) \in Int
          BY EndsAre
        <5> QED
          BY <5>1 DEF MaxPd, Lt
      <4> QED
        BY <1>5, <4>1, FartherIsAtLeast
    <3>4. AtLeast(up(I.rb), p, d) \/ AtLeast(up(I.lb), p, d)
      BY <2>1, <2>2, <3>1
    <3>5. AtLeast(K.rb, p, d)
      BY <2>3, <3>1, <3>3, <3>4
    <3>6. AtLeast(K.lb, -p, d)
      <4>1. K.lb \in Doubles
        BY <1>3, NonEmptyIs
      <4> QED
        BY <1>5, <1>9, <3>1, <3>2, <4>1
    <3> QED
      BY <1>3, <3>5, <3>6 DEF K, p, d
  <2> QED
    BY <2>4, <2>5
<1>15. CASE Num(I.lb) < 0
  <2>1. ~IsInf(I.lb) /\ Num(I.lb) <= 0 /\ Num(I.rb) >= 0
    BY <1>1, <1>15
  <2>2. -(Num(I.lb) * Fine) <= x
    BY <1>2, <1>13, <2>1
  <2>3. x \in Nat
    <3>1. Num(I.lb) * Fine <= 0 /\ Num(I.lb) * Fine \in Int
      BY <1>1, <1>11, <2>1, SignsMultiply
    <3> QED
      BY <2>2, <3>1
  <2>4. AtLeast(down(I.lb), -p, d)
    BY <1>1, <1>8, <2>1, <2>2, <2>3 DEF p
  <2>5. AtLeast(up(I.rb), p, d)
    BY <1>1, <1>2, <1>7, <2>1, <2>3 DEF p
  <2> QED
    BY <1>3, <1>15, <2>4, <2>5 DEF K, p, d
<1>16. CASE Num(I.rb) < 0
  <2>1. ~IsInf(I.rb) /\ Num(I.rb) <= 0 /\ Num(I.lb) >= 0
    BY <1>1, <1>16
  <2>2. x <= Num(I.rb) * Fine /\ Num(I.rb) * Fine <= 0 /\ Num(I.rb) * Fine \in Int
        /\ Num(I.lb) * Fine \in Int
    BY <1>1, <1>2, <1>11, <1>13, <2>1, SignsMultiply
  <2>3. -x \in Nat /\ -(Num(I.rb) * Fine) <= -x /\ (I.lb = Infinity \/ -x <= Num(I.lb) * Fine)
    BY <1>2, <2>2
  <2>4. AtLeast(down(I.rb), -q, d)
    BY <1>1, <1>8, <2>1, <2>3 DEF q
  <2>5. AtLeast(up(I.lb), q, d)
    BY <1>1, <1>7, <2>1, <2>3 DEF q
  <2>6. CASE e % 2 = 1
    <3>1. q = -p /\ -q = p
      BY <1>4, <1>5, <2>6
    <3> QED
      BY <1>3, <1>16, <2>4, <2>5, <2>6, <3>1 DEF K, p, d
  <2>7. CASE e % 2 # 1
    <3>1. q = p
      BY <1>4, <2>7
    <3> QED
      BY <1>3, <1>16, <2>4, <2>5, <2>7, <3>1 DEF K, p, d
  <2> QED
    BY <2>6, <2>7
<1> QED
  BY <1>1, <1>14, <1>15, <1>16

(* An even power has no number below 0.                                      *)
LEMMA EvenPowerHasSign ==
  ASSUME NEW I \in NonEmpty, NEW e \in Nat, e # 0, e % 2 = 0
  PROVE  Num(G!F!uipow(I, e).lb) <= 0
<1> DEFINE K == G!F!uipow(I, e)
           down(b) == Opposite(G!F!PowerDn(b, e))
<1>1. /\ I.lb \in Doubles /\ I.rb \in Doubles
      /\ Num(I.lb) \in Int /\ Num(I.rb) \in Int /\ Num(I.lb) + Num(I.rb) >= 0
      /\ Num(I.lb) <= 0 => ~IsInf(I.lb)
      /\ Num(I.rb) <= 0 => ~IsInf(I.rb)
  BY NonEmptyIs
<1>2. /\ Num(I.lb) >= 0 /\ Num(I.rb) >= 0 => Num(K.lb) = 0
      /\ Num(I.lb) < 0 => K.lb = down(I.lb)
      /\ Num(I.rb) < 0 => K.lb = down(I.rb)
  BY FloatPowerBounds
<1>3. \A b \in Doubles : ~IsInf(b) /\ Num(b) <= 0 => Num(down(b)) <= 0
  <2> SUFFICES ASSUME NEW b \in Doubles, ~IsInf(b), Num(b) <= 0 PROVE Num(down(b)) <= 0
    OBVIOUS
  <2>1. -(Num(b) * Fine) \in Nat
    <3>1. Num(b) \in Int /\ Fine \in Nat
      BY NumOfMagnitude, ConstantsAre
    <3>2. Num(b) * Fine \in Int /\ Num(b) * Fine <= 0
      BY <3>1, SignsMultiply
    <3> QED
      BY <3>2
  <2>2. -(Num(b) * Fine) <= -(Num(b) * Fine)
    BY <2>1
  <2> QED
    BY <2>1, <2>2, PowerDnIsUpper
<1> HIDE DEF K, down
<1>4. CASE Num(I.lb) >= 0 /\ Num(I.rb) >= 0
  BY <1>2, <1>4 DEF K
<1>5. CASE Num(I.lb) < 0
  <2>1. Num(down(I.lb)) <= 0
    BY <1>1, <1>3, <1>5
  <2> QED
    BY <1>2, <1>5, <2>1 DEF K
<1>6. CASE Num(I.rb) < 0
  <2>1. Num(down(I.rb)) <= 0
    BY <1>1, <1>3, <1>6
  <2> QED
    BY <1>2, <1>6, <2>1 DEF K
<1> QED
  BY <1>1, <1>4, <1>5, <1>6

(* The bound of an inverse that is that of another bound                     *)
Inverted(b) == IF IsZero(b) THEN Infinity ELSE DivUp(OfNum(-One), b)

(* It is at least -d/k when b is at least k/d, and at least d/k when b is not  *)
(* above 0 and at least -k/d, in units.                                      *)
LEMMA InvertedIsUpper ==
  ASSUME NEW b \in Ends, NEW d \in Nat, d >= 1, NEW k \in Nat, k >= 1
  PROVE  /\ Inverted(b) \in Ends
         /\ AtLeast(b, k, d) => AtLeast(Inverted(b), -((One * One) * d), k)
         /\ Num(b) <= 0 /\ AtLeast(b, -k, d) => AtLeast(Inverted(b), (One * One) * d, k)
<1> DEFINE m == OfNum(-One)
           v == DivUp(m, b)
           n == Num(b)
           o == One * One
<1>1. /\ b \in Doubles /\ b # NaN /\ n \in Int
      /\ IsInf(b) <=> b = Infinity
      /\ b = Infinity => n > 0
      /\ IsZero(b) <=> n = 0
      /\ One \in Nat /\ One >= 1 /\ o \in Nat /\ o >= 1
  <2>1. b \in Doubles /\ b # NaN /\ n \in Int /\ (IsInf(b) <=> b = Infinity) /\ (b = Infinity => n > 0)
    BY EndsAre, LargestMagnitude
  <2>2. IsZero(b) <=> n = 0
    BY <2>1, FiniteOrInfinite
  <2>3. One \in Nat /\ One >= 1 /\ o \in Nat /\ o >= 1
    BY LargestMagnitude, SignsMultiply
  <2> QED
    BY <2>1, <2>2, <2>3
<1>2. m \in Doubles /\ Num(m) = -One /\ ~IsInf(m) /\ m # NaN
  <2>1. m \in Ends /\ Num(m) = -One /\ -One <= 0
    BY <1>1, UnitIs
  <2> QED
    BY <1>1, <2>1, EndsAre, LargestMagnitude
<1>3. Infinity \in Ends /\ \A x, y : AtLeast(Infinity, x, y)
  BY EndsAre DEF AtLeast
<1>4. CASE n = 0
  <2>1. Inverted(b) = Infinity
    BY <1>1, <1>4 DEF Inverted
  <2> QED
    BY <1>3, <2>1
<1>5. CASE n # 0
  <2>1. Inverted(b) = v
    BY <1>1, <1>5 DEF Inverted
  <2>2. /\ v \in Ends
        /\ n > 0 => AtLeast(v, One * (-One), n)
        /\ n < 0 => AtLeast(v, One * (-(-One)), -n)
    <3>1. IsInf(b) => Agree(m, Opposite(b))
      <4>1. Num(Opposite(b)) = -n
        BY <1>1, OppositeIsDouble
      <4> QED
        BY <1>1, <1>2, <4>1 DEF Agree
    <3> HIDE DEF m
    <3> QED
      BY <1>1, <1>2, <1>5, <3>1, QuotientIsUpper
  <2>3. b = Infinity => Num(v) = 0
    <3> SUFFICES ASSUME b = Infinity PROVE Num(v) = 0
      OBVIOUS
    <3>1. ~IsZero(b) /\ IsInf(b)
      BY <1>1, <1>5
    <3>2. v = Zero(m.neg # b.neg)
      BY <1>1, <1>2, <3>1 DEF DivUp
    <3> QED
      BY <3>2, EndsAre
  <2> HIDE DEF m, v
  <2>4. v # Infinity => Num(v) \in Int
    BY <2>2, EndsAre
  <2>5. One * (-One) = -o /\ One * (-(-One)) = o
    BY <1>1
  <2>6. v # Infinity /\ n > 0 => -o <= n * Num(v)
    BY <2>2, <2>5 DEF AtLeast
  <2>7. v # Infinity /\ n < 0 => o <= (-n) * Num(v)
    BY <2>2, <2>5 DEF AtLeast
  <2> DEFINE a == Num(v)
  <2>8. o * d \in Nat
    BY <1>1, SignsMultiply
  <2> HIDE DEF o, n, a
  <2>9. ASSUME AtLeast(b, k, d) PROVE AtLeast(v, -(o * d), k)
    <3> SUFFICES ASSUME v # Infinity PROVE -(o * d) <= k * a
      BY DEF AtLeast, a
    <3>1. a \in Int /\ k * a \in Int
      BY <2>4 DEF a
    <3>2. CASE a >= 0
      <4>1. k * a >= 0
        BY <3>1, <3>2, SignsMultiply
      <4> QED
        BY <2>8, <3>1, <4>1
    <3>3. CASE a < 0
      <4>1. b # Infinity
        BY <2>3, <3>3 DEF a
      <4>2. k <= d * n
        BY <2>9, <4>1 DEF AtLeast, n
      <4>3. n > 0
        <5> SUFFICES ASSUME n <= 0 PROVE FALSE
          BY <1>1 DEF n
        <5>1. d * n <= 0 /\ d * n \in Int
          BY <1>1, SignsMultiply DEF n
        <5> QED
          BY <4>2, <5>1
      <4>4. n * (-a) <= o
        <5>1. -o <= n * a
          BY <2>6, <4>3 DEF a
        <5>2. n * (-a) = -(n * a) /\ n * a \in Int
          BY <1>1, <3>1, SignsMultiply DEF n
        <5> QED
          BY <1>1, <5>1, <5>2 DEF o
      <4>5. -a \in Nat /\ n \in Nat /\ o \in Nat /\ d * n \in Nat /\ n * (-a) \in Nat
        <5>1. -a \in Nat /\ n \in Nat /\ o \in Nat
          BY <1>1, <3>1, <3>3, <4>3 DEF n, o
        <5> QED
          BY <5>1, SignsMultiply
      <4>6. k * (-a) <= (d * n) * (-a)
        <5>1. -a <= -a
          BY <4>5
        <5> QED
          BY <4>2, <4>5, <5>1, ProductsGrow
      <4>7. d * (n * (-a)) <= d * o
        <5>1. d <= d
          OBVIOUS
        <5> QED
          BY <4>4, <4>5, <5>1, ProductsGrow
      <4>8. (d * n) * (-a) = d * (n * (-a)) /\ d * o = o * d /\ k * (-a) = -(k * a)
        BY <3>1, <4>5
      <4>9. (d * n) * (-a) \in Nat /\ o * d \in Nat
        BY <4>5, SignsMultiply
      <4> QED
        BY <3>1, <4>6, <4>7, <4>8, <4>9
    <3> QED
      BY <3>1, <3>2, <3>3
  <2>10. ASSUME n <= 0, AtLeast(b, -k, d) PROVE AtLeast(v, o * d, k)
    <3> SUFFICES ASSUME v # Infinity PROVE o * d <= k * a
      BY DEF AtLeast, a
    <3>1. a \in Int /\ k * a \in Int
      BY <2>4 DEF a
    <3>2. n < 0 /\ b # Infinity
      BY <1>1, <1>5, <2>10 DEF n
    <3>3. -k <= d * n
      BY <2>10, <3>2 DEF AtLeast, n
    <3>4. o <= (-n) * a
      BY <2>7, <3>2 DEF a
    <3>5. -n \in Nat /\ o \in Nat /\ o >= 1
      BY <1>1, <3>2 DEF n, o
    <3>6. a >= 0
      <4> SUFFICES ASSUME a <= 0 PROVE FALSE
        BY <3>1
      <4>1. (-n) * a <= 0 /\ (-n) * a \in Int
        BY <3>1, <3>5, SignsMultiply
      <4> QED
        BY <3>4, <3>5, <4>1
    <3>7. d * (-n) <= k /\ d * (-n) \in Nat
      <4>1. d * (-n) = -(d * n) /\ d * n \in Int
        BY <1>1, SignsMultiply DEF n
      <4>2. d * (-n) \in Nat
        BY <3>5, SignsMultiply
      <4> QED
        BY <3>3, <4>1, <4>2
    <3>8. a \in Nat /\ a <= a /\ d <= d
      BY <3>1, <3>6
    <3>9. (-n) * a \in Nat
      BY <3>5, <3>8, SignsMultiply
    <3>10. (d * (-n)) * a <= k * a
      BY <3>7, <3>8, ProductsGrow
    <3>11. d * o <= d * ((-n) * a)
      BY <3>4, <3>5, <3>8, <3>9, ProductsGrow
    <3>12. (d * (-n)) * a = d * ((-n) * a) /\ d * o = o * d
      BY <3>5, <3>8
    <3>13. (d * (-n)) * a \in Nat /\ o * d \in Nat
      BY <2>8, <3>7, <3>8, SignsMultiply
    <3> QED
      BY <3>1, <3>10, <3>11, <3>12, <3>13
  <2> QED
    BY <2>1, <2>2, <2>9, <2>10 DEF o, n
<1> QED
  BY <1>1, <1>4, <1>5

(* The inverse of an interval has that of each rational of the interval.     *)
LEMMA InverseHasRational ==
  ASSUME NEW K \in NonEmpty, Sse \in BOOLEAN, NEW p \in Int, p # 0, NEW d \in Nat, d >= 1,
         AtLeast(K.lb, -p, d), AtLeast(K.rb, p, d)
  PROVE  LET V == inverse(K)
             q == IF p < 0 THEN <<-((One * d) * One), -p>> ELSE <<(One * d) * One, p>>
         IN V \in NonEmpty /\ InRational(q, V)
<1> DEFINE V == inverse(K)
           w == (One * One) * d
           a == Num(K.lb)
           b == Num(K.rb)
<1>1. /\ K.lb \in Ends /\ K.rb \in Ends /\ a \in Int /\ b \in Int /\ a + b >= 0
      /\ K.lb = Infinity => a > 0
      /\ K.rb = Infinity => b > 0
  BY NonEmptyIs, EndsAre, LargestMagnitude
<1>2. One \in Nat /\ One >= 1 /\ w \in Nat /\ (One * d) * One = w
  <2>1. One \in Nat /\ One >= 1
    BY LargestMagnitude
  <2>2. One * One \in Nat
    BY <2>1, SignsMultiply
  <2> QED
    BY <2>1, <2>2, SignsMultiply
<1>3. /\ p > 0 => b > 0
      /\ p < 0 => a > 0
  <2> HIDE DEF w
  <2>1. ASSUME NEW r \in Ends, NEW n \in Int, n > 0, AtLeast(r, n, d), Num(r) <= 0 PROVE FALSE
    <3>1. Num(r) \in Int /\ r # Infinity
      BY <2>1, EndsAre, LargestMagnitude
    <3>2. n <= d * Num(r)
      BY <2>1, <3>1 DEF AtLeast
    <3>3. d * Num(r) <= 0 /\ d * Num(r) \in Int
      BY <2>1, <3>1, SignsMultiply
    <3> QED
      BY <2>1, <3>2, <3>3
  <2>2. p > 0 => b > 0
    BY <1>1, <2>1
  <2>3. p < 0 => -p > 0 /\ -p \in Int
    OBVIOUS
  <2>4. p < 0 => a > 0
    BY <1>1, <2>1, <2>3
  <2> QED
    BY <2>2, <2>4
<1>4. V \in Intervals /\ ~is_empty(K)
  BY NonEmptyIs, InverseIsInterval DEF Intervals
<1>5. /\ is_zero(K) <=> a = 0 /\ b = 0
      /\ strictly_straddles_zero(K) <=> a > 0 /\ b > 0
  BY BoundsCompare DEF strictly_straddles_zero
<1>6. V = IF a > 0 /\ b > 0 THEN universe ELSE Bounds(Inverted(K.rb), Inverted(K.lb))
  <2>1. ~is_zero(K)
    BY <1>1, <1>3, <1>5
  <2> HIDE DEF a, b
  <2> QED
    BY <1>4, <1>5, <2>1 DEF inverse, Inverted
<1> HIDE DEF V, w, a, b
<1>7. /\ V.lb \in Ends /\ V.rb \in Ends
      /\ p > 0 => AtLeast(V.lb, -w, p) /\ AtLeast(V.rb, w, p)
      /\ p < 0 => AtLeast(V.lb, w, -p) /\ AtLeast(V.rb, -w, -p)
  <2>1. CASE a > 0 /\ b > 0
    <3>1. V.lb = Infinity /\ V.rb = Infinity
      BY <1>6, <2>1 DEF universe, Bounds
    <3> QED
      BY <3>1, EndsAre DEF AtLeast
  <2>2. CASE ~(a > 0 /\ b > 0)
    <3>1. V.lb = Inverted(K.rb) /\ V.rb = Inverted(K.lb)
      BY <1>6, <2>2 DEF Bounds
    <3>2. V.lb \in Ends /\ V.rb \in Ends
      <4>1. 1 \in Nat /\ 1 >= 1
        OBVIOUS
      <4> QED
        BY <1>1, <3>1, <4>1, InvertedIsUpper
    <3>3. ASSUME p > 0 PROVE AtLeast(V.lb, -w, p) /\ AtLeast(V.rb, w, p)
      <4>1. p \in Nat /\ p >= 1 /\ a <= 0
        BY <1>1, <1>3, <2>2, <3>3
      <4>2. AtLeast(Inverted(K.rb), -w, p)
        BY <1>1, <4>1, InvertedIsUpper DEF w
      <4>3. AtLeast(Inverted(K.lb), w, p)
        BY <1>1, <4>1, InvertedIsUpper DEF w, a
      <4> QED
        BY <3>1, <4>2, <4>3
    <3>4. ASSUME p < 0 PROVE AtLeast(V.lb, w, -p) /\ AtLeast(V.rb, -w, -p)
      <4>1. -p \in Nat /\ -p >= 1 /\ b <= 0 /\ -(-p) = p
        BY <1>1, <1>3, <2>2, <3>4
      <4>2. AtLeast(Inverted(K.lb), -w, -p)
        BY <1>1, <4>1, InvertedIsUpper DEF w
      <4>3. AtLeast(K.rb, -(-p), d)
        BY <4>1
      <4>4. AtLeast(Inverted(K.rb), w, -p)
        BY <1>1, <4>1, <4>3, InvertedIsUpper DEF w, b
      <4> QED
        BY <3>1, <4>2, <4>4
    <3> QED
      BY <3>2, <3>3, <3>4
  <2> QED
    BY <2>1, <2>2
<1>8. V \in NonEmpty
  <2>1. V # emptyset
    BY <1>7, EndsAre DEF emptyset, Bounds
  <2> QED
    BY <1>4, <2>1 DEF Intervals
<1>9. CASE p > 0
  <2> DEFINE q == <<(One * d) * One, p>>
  <2>1. q[1] = w /\ q[2] = p
    BY <1>2
  <2> HIDE DEF q
  <2>2. InRational(q, V)
    BY <1>2, <1>7, <1>8, <1>9, <2>1, InRationalIs
  <2> QED
    BY <1>8, <1>9, <2>2 DEF q, V
<1>10. CASE p < 0
  <2> DEFINE q == <<-((One * d) * One), -p>>
  <2>1. q[1] = -w /\ q[2] = -p
    BY <1>2
  <2> HIDE DEF q
  <2>2. -(-w) = w /\ -w \in Int /\ -p \in Int
    BY <1>2
  <2>3. InRational(q, V)
    BY <1>2, <1>7, <1>8, <1>10, <2>1, <2>2, InRationalIs
  <2> QED
    BY <1>8, <1>10, <2>3 DEF q, V
<1> QED
  BY <1>9, <1>10

(* The powers with which those of floats are compared are the same.           *)
LEMMA RaisedOfFloats == \A b, n : G!Raised(b, n) = Raised(b, n)
BY DEF G!Raised, Raised

(* pow(I, n) has the powers n of the reals of I, and pow(I, -n) those -n.      *)
LEMMA FloatPowersHave ==
  ASSUME NEW I \in Intervals, Sse \in BOOLEAN, NEW n \in Nat, n # 0, NEW x, x \in Int, In(x, I)
  PROVE  /\ InRational(G!RealPower(x, n), G!F!pow(I, n))
         /\ x # 0 => InRational(G!Reciprocal(G!RealPower(x, n)), G!F!pow(I, -n))
<1> DEFINE K == G!F!uipow(I, n)
           p == Raised(x, n)
           d == Scale(n)
           V == inverse(K)
<1>1. I \in NonEmpty /\ ~is_empty(I)
  <2>1. ~is_empty(I)
    BY DEF In
  <2> QED
    BY <2>1, EmptySetIs
<1>2. /\ K \in NonEmpty /\ AtLeast(K.lb, -p, d) /\ AtLeast(K.rb, p, d)
  BY <1>1, FloatPowerHas
<1>3. p \in Int /\ d \in Nat /\ d >= 1
  BY RaisedIs, ScaleIs
<1>4. G!F!pow(I, n) = K /\ G!F!pow(I, -n) = V
  <2>1. ~G!F!is_empty(I)
    BY <1>1, FloatBoundsAre
  <2>2. \A k \in Int : k # 0 => G!F!pow(I, k) = G!F!InvertedIf(k < 0, G!F!uipow(I, IF k < 0 THEN -k ELSE k))
    BY <2>1, Zenon DEF G!F!pow
  <2>3. n \in Int /\ -n \in Int /\ -n # 0 /\ ~(n < 0) /\ -n < 0 /\ -(-n) = n
    OBVIOUS
  <2>4. G!F!pow(I, n) = K
    <3>1. G!F!pow(I, n) = G!F!InvertedIf(n < 0, G!F!uipow(I, IF n < 0 THEN -n ELSE n))
      BY <2>2, <2>3
    <3> QED
      BY <2>3, <3>1, Zenon DEF G!F!InvertedIf
  <2> HIDE DEF K
  <2>5. G!F!pow(I, -n) = G!F!inverse(K)
    <3>1. G!F!pow(I, -n) = G!F!InvertedIf(-n < 0, G!F!uipow(I, IF -n < 0 THEN -(-n) ELSE -n))
      BY <2>2, <2>3
    <3> QED
      BY <2>3, <3>1, Zenon DEF G!F!InvertedIf, K
  <2>6. K \in Intervals
    BY <1>2 DEF Intervals
  <2> QED
    BY <2>4, <2>5, <2>6, FloatInverseIs
<1> DEFINE q == G!RealPower(x, n)
<1>5. q = <<p, d>>
  BY RaisedOfFloats DEF G!RealPower, Scale
<1>6. q[1] = p /\ q[2] = d
  BY <1>5
<1> HIDE DEF K, p, d, V, q
<1>7. InRational(q, K)
  BY <1>2, <1>3, <1>6, InRationalIs
<1>8. ASSUME x # 0 PROVE InRational(G!Reciprocal(q), V)
  <2>1. p # 0
    <3>1. CASE x > 0
      <4>1. x \in Nat /\ x >= 1
        BY <3>1
      <4> QED
        BY <4>1, ScaleIs DEF p
    <3>2. CASE x < 0
      <4>1. -x \in Nat /\ -x >= 1
        BY <3>2
      <4>2. Raised(-x, n) >= 1
        BY <4>1, ScaleIs
      <4>3. Raised(-x, n) = IF n % 2 = 1 THEN -p ELSE p
        BY RaisedOfOpposite DEF p
      <4> QED
        BY <1>3, <4>2, <4>3
    <3> QED
      BY <1>8, <3>1, <3>2
  <2> DEFINE t == IF p < 0 THEN <<-((One * d) * One), -p>> ELSE <<(One * d) * One, p>>
  <2>2. G!Reciprocal(q) = t
    <3>1. One \in Nat /\ One * d \in Nat /\ (-(One * d)) * One = -((One * d) * One)
      BY <1>3, LargestMagnitude, SignsMultiply
    <3>2. G!Reciprocal(q) = G!Ratio(One * d, p)
      BY <1>6 DEF G!Reciprocal
    <3>3. \A k : G!Ratio(k, p) = IF p < 0 THEN <<-k * One, -p>> ELSE <<k * One, p>>
      BY DEF G!Ratio
    <3> QED
      BY <3>1, <3>2, <3>3
  <2>3. InRational(t, V)
    BY <1>2, <1>3, <2>1, InverseHasRational DEF V
  <2> QED
    BY <2>2, <2>3
<1> QED
  BY <1>4, <1>7, <1>8 DEF q

(* The powers of intervals of floats have those of their reals, the negative  *)
(* ones too, and an even one has no number below 0: for every format,        *)
(* interval and exponent, whatever the squares and the products round to.     *)
THEOREM FloatPowersAreKeptAlways ==
  MCSpec => []FloatPowersAreKept
<1>1. MCInit => KeepsFloats
  BY KeepsFloatsIsInductive
<1>2. KeepsFloats /\ [MCNext]_<<vars, floats>> => KeepsFloats'
  BY KeepsFloatsIsInductive
<1>3. KeepsFloats => FloatPowersAreKept
  <2>1. SUFFICES ASSUME KeepsFloats, floats, NEW n \in Exponents \ {0}
                 PROVE  G!HasPowers(G!F!pow(G!X, n), G!F!pow(G!X, -n), n)
    BY DEF FloatPowersAreKept, G!PowersAreKept
  <2> DEFINE I == obj["x"]
  <2>2. I \in Intervals /\ G!X = I /\ Sse \in BOOLEAN /\ n \in Nat /\ n # 0
    BY <2>1, MCAssumption DEF KeepsFloats, Names, G!X
  <2> HIDE DEF I
  <2> DEFINE Z == G!F!pow(I, n)
  <2>3. ASSUME NEW x \in G!Tried
        PROVE  x \in Int /\ In(x, I)
    <3>1. G!In(x, I) /\ x \in -G!Oo * Fine .. G!Oo * Fine
      BY <2>2 DEF G!Tried
    <3> QED
      BY <3>1, FloatRealsAre
  <2>4. /\ \A x \in G!Tried : InRational(G!RealPower(x, n), Z)
        /\ \A x \in G!Tried \ {0} : InRational(G!Reciprocal(G!RealPower(x, n)), G!F!pow(I, -n))
    BY <2>2, <2>3, FloatPowersHave
  <2>5. is_empty(Z) <=> is_empty(I)
    <3>1. CASE I = emptyset
      <4>1. G!F!is_empty(I) /\ is_empty(I)
        BY <3>1, EmptySetIs, FloatBoundsAre
      <4>2. Z = I
        BY <4>1, Zenon DEF G!F!pow
      <4> QED
        BY <4>1, <4>2
    <3>2. CASE I \in NonEmpty
      <4>1. Z \in NonEmpty
        BY <2>2, <3>2, FloatPowerIsInterval
      <4> QED
        BY <3>2, <4>1, NonEmptyIs
    <3> QED
      BY <2>2, <3>1, <3>2 DEF Intervals
  <2>6. n % 2 = 0 /\ ~is_empty(I) => Leq(Zero(FALSE), left(Z))
    <3> SUFFICES ASSUME n % 2 = 0, ~is_empty(I) PROVE Leq(Zero(FALSE), left(Z))
      OBVIOUS
    <3>1. I \in NonEmpty /\ ~G!F!is_empty(I)
      BY <2>2, EmptySetIs, FloatBoundsAre
    <3>2. Z = G!F!uipow(I, n)
      <4>1. Z = G!F!InvertedIf(n < 0, G!F!uipow(I, IF n < 0 THEN -n ELSE n))
        BY <2>2, <3>1, Zenon DEF G!F!pow
      <4>2. ~(n < 0)
        BY <2>2
      <4> QED
        BY <4>1, <4>2, Zenon DEF G!F!InvertedIf
    <3>3. Z \in NonEmpty
      BY <2>2, <3>1, FloatPowerIsInterval
    <3>4. Num(Z.lb) <= 0
      BY <2>2, <3>1, <3>2, EvenPowerHasSign
    <3> HIDE DEF Z
    <3> QED
      BY <3>3, <3>4, BoundsCompare
  <2> HIDE DEF Z
  <2> QED
    BY <2>2, <2>4, <2>5, <2>6, FloatRealsAre DEF G!HasPowers, Z
<1> QED
  BY <1>1, <1>2, <1>3, PTL DEF MCSpec
=============================================================================
