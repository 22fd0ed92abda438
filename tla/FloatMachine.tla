---------------------------- MODULE FloatMachine ----------------------------
(***************************************************************************)
(* A program that keeps two intervals of floats, and applies to them any   *)
(* sequence of the operations of gaol::intervalf.  Each is also the first  *)
(* or the second of a pair gaol::interval2f, whose other interval is one   *)
(* of the companions.                                                      *)
(*                                                                         *)
(* The properties compare the operations with those on reals               *)
(* (IntervalReference), and the pairs with the intervals they are made of. *)
(***************************************************************************)
EXTENDS IntervalReference

CONSTANT Exponents   \* The exponents of pow(), natural numbers

F == INSTANCE FloatIntervals
P == INSTANCE FloatPairs

VARIABLE obj   \* The intervals x and y

Names == {"x", "y"}

-----------------------------------------------------------------------------
(* The intervals a program has to build: the bounds in order, a real between *)
(* them, or NaNs                                                            *)
Constructed ==
  {F!intervalf(l, r) : l \in Doubles \ {Infinity}, r \in Doubles \ {MinusInfinity}}
    \union {F!emptyset}

(* intervalf(), the default constructor *)
Init == obj = [n \in Names |-> F!universe]

Assign(t, I) == obj' = [obj EXCEPT ![t] = I]

(* Before any operation: every pair of intervals is reached nevertheless *)
Construct(t) == obj[t] = F!universe /\ \E I \in Constructed : (F!is_empty(I) => I = F!emptyset) /\ Assign(t, I)

Add(t, i)      == Assign(t, F!Plus(obj[t], obj[i]))
Subtract(t, i) == t # i /\ Assign(t, F!Minus(obj[t], obj[i], FALSE))
Multiply(t, i) == Assign(t, F!Times(obj[t], obj[i]))
Divide(t, i)   == Assign(t, F!Over(obj[t], obj[i]))
Transform(t)   == Assign(t, F!Opposed(obj[t])) \/ Assign(t, F!inverse(obj[t]))
Power(t)       == \E n \in Exponents : Assign(t, F!pow(obj[t], n))
Split(t)       == Assign(t, F!split_first(obj[t])) \/ Assign(t, F!split_second(obj[t]))

(* The program exchanges its intervals, which has it operate on the other *)
Exchange == obj' = [x |-> obj["y"], y |-> obj["x"]]

Next ==
  \/ Exchange
  \/ Construct("x") \/ Transform("x") \/ Power("x") \/ Split("x")
  \/ \E i \in Names : Add("x", i) \/ Subtract("x", i) \/ Multiply("x", i) \/ Divide("x", i)

Spec == Init /\ [][Next]_obj

-----------------------------------------------------------------------------
X == obj["x"]
Y == obj["y"]

(* Every pair of intervals is reached: what is said of X is looked at once *)
Alone == Y = F!universe

TypeOK == obj \in [Names -> Stored]

(* Each interval is one of IEEE 1788, an infinite bound beyond all floats, or *)
(* the two NaNs that operator+= and the unary minus keep without a test.     *)
WellFormed ==
  \A n \in Names :
    LET I == obj[n] IN
    IF is_empty(I) THEN I = F!emptyset
    ELSE Lt(left(I), Infinity) /\ Lt(MinusInfinity, right(I))

(* The operators +, - and * and inverse() give the hulls, with no test for    *)
(* NaNs in the products: none of the nine cases multiplies 0 by an infinity. *)
OperationsAreHulls ==
  /\ Value(F!Plus(X, Y)) = Hull(Sums(X, Y))
  /\ Value(F!Minus(X, Y, FALSE)) = Hull(Differences(X, Y))
  /\ Value(F!Times(X, Y)) = Hull(RealProducts(X, Y))
  /\ Alone => Value(F!inverse(X)) = Hull(Ratios(Point(OfNum(One)), X))

(* operator/= multiplies by the inverse, two roundings: it gives all the      *)
(* quotients, empty only when there is none, and nothing on a side of 0      *)
(* where there is none.                                                      *)
QuotientsAreKept ==
  LET Q == F!Over(X, Y)  R == Ratios(X, Y) IN
  /\ \A q \in R : InRational(q, Q)
  /\ is_empty(Q) <=> R = {}
  /\ R # {} /\ (\A q \in R : q[1] >= 0) => Leq(Zero(FALSE), left(Q))
  /\ R # {} /\ (\A q \in R : q[1] <= 0) => Leq(right(Q), Zero(FALSE))

(* The power n of a number, written so that proofs may unfold it *)
Raised(b, n) ==
  LET power[k \in 0 .. n] == IF k = 0 THEN 1 ELSE b * power[k - 1] IN power[n]

(* The reals of X tried, and the power n of one *)
Tried == {x \in Samples(X) \union {-Oo * Fine, Oo * Fine} : In(x, X) /\ x \in -Oo * Fine .. Oo * Fine}
RealPower(x, n) == <<Raised(x, n), Raised(Fine, n) * Raised(One, n - 1)>>
Reciprocal(q) == Ratio(One * q[2], q[1])

(* Z has the powers n, and I the powers -n *)
HasPowers(Z, I, n) ==
  /\ \A x \in Tried : InRational(RealPower(x, n), Z)
  /\ \A x \in Tried \ {0} : InRational(Reciprocal(RealPower(x, n)), I)
  /\ is_empty(Z) <=> is_empty(X)
  /\ n % 2 = 0 /\ ~is_empty(X) => Leq(Zero(FALSE), left(Z))

(* pow(I, n) has the power n of every real of I, and no number below 0 for   *)
(* an even n, however the squares of binary exponentiation were rounded and  *)
(* whichever overflowed or underflowed; pow(I, -n) has their inverses.       *)
PowersAreKept == Alone => \A n \in Exponents \ {0} : HasPowers(F!pow(X, n), F!pow(X, -n), n)

(* The middle, rounded once, is the float nearest to that of the bounds, and  *)
(* the two parts that split() gives leave nothing out.                       *)
MidpointIsNearest ==
  Alone =>
  LET m == F!midpoint(X)
      off(b) == LET d == 2 * Num(b) - (Num(left(X)) + Num(right(X))) IN IF d < 0 THEN -d ELSE d
  IN IF is_empty(X) THEN m = NaN
     ELSE /\ Leq(left(X), m) /\ Leq(m, right(X))
          /\ Infinity \notin {X.lb, X.rb} => \A v \in FiniteNums : off(m) <= off(OfNum(v))
          /\ Value(Join(F!split_first(X), F!split_second(X))) = Value(X)

(* The relations, which test for the empty set or rely on its NaNs, are those *)
(* of the sets; a pair has those of its two intervals.                       *)
RelationsAreOfSets ==
  LET S == Samples(X)  T == Samples(Y)
      common == {x \in S \union T : In(x, X) /\ In(x, Y)}
      contains(I, U) == \A x \in U : In(x, I)
      strictly == F!set_strictly_contains(X, Y)
      D == F!universe
      bit(b) == IF b THEN 1 ELSE 0
  IN /\ F!set_contains(X, Y) = contains(X, T)
     /\ F!set_eq(X, Y) = (contains(X, T) /\ contains(Y, S))
     /\ F!possibly_eq(X, Y) = (common # {})
     /\ F!set_disjoint(X, Y) = (common = {})
     /\ strictly => contains(X, T)
     /\ ~strictly => (\E y \in T, e \in {-1, 1} : ~In(y + e, X)) \/ Infinity \in {X.lb, X.rb}
     /\ P!set_contains_all(P!Pair(X, X), P!Pair(Y, D)) = (contains(X, T) /\ Value(X) = Value(D))
     /\ P!set_eq_all(P!Pair(D, X), P!Pair(D, Y)) = (Value(X) = Value(Y))
     /\ P!possibly_eq_all(P!Pair(X, D), P!Pair(Y, X)) = (common # {} /\ ~is_empty(X))
     /\ \A v \in FiniteNums :
          P!set_contains(P!Pair(X, Y), OfNum(v)) =
            2 * bit(In(v * Fine, X)) + bit(In(v * Fine, Y))

-----------------------------------------------------------------------------
(* The other interval of a pair: around 0, on each side of it, at it *)
Companions ==
  LET n(v) == OfNum(v) IN
  {F!intervalf(n(-One), n(Largest)), F!intervalf(n(One), Infinity),
   F!intervalf(n(-Largest), n(-One)), F!intervalf(Zero(FALSE), Zero(TRUE))}

Values(A) == <<Value(P!first(A)), Value(P!second(A))>>

(* The operands of two operations, the one of X and Y being the first or the  *)
(* second                                                                    *)
Positions(D) == {<<X, Y, Y, D>>, <<Y, X, D, Y>>}

(* The four lanes at once give what the operations on each of the two        *)
(* intervals give, in either position and whatever the other interval is:    *)
(* the case of the switch for one does not depend on the other.              *)
PairsAreTwoIntervals ==
  /\ Values(P!Plus(P!Pair(X, Y), P!Pair(Y, X))) = <<Value(F!Plus(X, Y)), Value(F!Plus(Y, X))>>
  /\ Values(P!Minus(P!Pair(X, Y), P!Pair(Y, X))) =
       <<Value(F!Minus(X, Y, FALSE)), Value(F!Minus(Y, X, FALSE))>>
  /\ {X, Y} \cap {F!emptyset} = {} =>
       \A D \in Companions : \A p \in Positions(D) :
         Values(P!Times(P!Pair(p[1], p[2]), P!Pair(p[3], p[4]))) =
           <<Value(F!Times(p[1], p[3])), Value(F!Times(p[2], p[4]))>>

(* The same of the powers, whose sixteen cases cross and swap the lanes      *)
PowersOfPairsAreTwoPowers ==
  \A n \in Exponents : ~is_empty(X) /\ ~is_empty(Y) =>
    Values(P!pow(P!Pair(X, Y), n)) = <<Value(F!pow(X, n)), Value(F!pow(Y, n))>>

-----------------------------------------------------------------------------
(* The arithmetic of intervals of floats keeps every result, and gives the    *)
(* hull but in a quotient.                                                   *)
ArithmeticIsKept == WellFormed /\ OperationsAreHulls /\ QuotientsAreKept

(* What is read of the bounds is right: the middle, and the relations.        *)
BoundsAreRead == MidpointIsNearest /\ RelationsAreOfSets
=============================================================================
