--------------------------- MODULE IntervalMachine ---------------------------
(***************************************************************************)
(* A program that keeps two intervals, and applies to them any sequence of *)
(* the operations of gaol::interval.  The operations find their operands   *)
(* as the earlier ones have left them, signs of the zero bounds and NaN    *)
(* bounds of the empty set included, on which they rely without a test.    *)
(*                                                                         *)
(* The properties say what each operation gives on any two intervals a     *)
(* program can come to, compared with the definition of the operation on   *)
(* reals (IntervalReference).                                              *)
(***************************************************************************)
EXTENDS IntervalFunctions, IntervalReference

CONSTANTS
  Builds,    \* The values of Sse: the builds of the library
  Aliased    \* Whether a program built without SSE2 writes x -= x, x /= x

ASSUME ProgramAssumption == Builds \subseteq BOOLEAN /\ Aliased \in BOOLEAN

VARIABLE obj   \* The intervals x and y

Names == {"x", "y"}

-----------------------------------------------------------------------------
Constructed ==
  {Interval(l, r) : l \in Doubles \union {NaN}, r \in Doubles \union {NaN}}
    \union {emptyset, universe, zero, positive, negative}

(* interval(), the default constructor *)
Init == Sse \in Builds /\ obj = [n \in Names |-> universe]

Assign(t, I) == obj' = [obj EXCEPT ![t] = I] /\ UNCHANGED Sse

SameAllowed == Sse \/ Aliased
May(t, i) == t # i \/ SameAllowed

(* Before any operation: every pair of intervals is reached nevertheless *)
Construct(t) == obj[t] = universe /\ \E I \in Constructed : Assign(t, I)

Add(t, i)      == May(t, i) /\ Assign(t, Plus(obj[t], obj[i], t = i))
Subtract(t, i) == May(t, i) /\ Assign(t, Difference(obj[t], obj[i], t = i))
Multiply(t, i) == May(t, i) /\ Assign(t, Product(obj[t], obj[i]))
Divide(t, i)   == May(t, i) /\ Assign(t, Quotient(obj[t], obj[i], t = i))
Reverse(t, i)  == May(t, i) /\ Assign(t, RelQuotient(obj[t], obj[i], t = i))
Intersect(t, i) == Assign(t, Meet(obj[t], obj[i]))
Unite(t, i)     == Assign(t, Join(obj[t], obj[i]))

(* With a double, a bound of an interval of the program *)
WithDouble(t, i) ==
  \E d \in {left(obj[i]), right(obj[i])} :
    Assign(t, PlusDouble(obj[t], d))
      \/ Assign(t, MinusDouble(obj[t], d))
      \/ Assign(t, TimesDouble(obj[t], d))
      \/ Assign(t, OverDouble(obj[t], d))
      \/ Assign(t, RelOverDouble(obj[t], d))

Transform(t) ==
  Assign(t, Minus(obj[t])) \/ Assign(t, inverse(obj[t])) \/ Assign(t, sqr(obj[t]))
    \/ Assign(t, mid(obj[t])) \/ Assign(t, abs(obj[t]))
    \/ Assign(t, split_left(obj[t])) \/ Assign(t, split_right(obj[t]))

Combine(t, i) ==
  Assign(t, max(obj[t], obj[i])) \/ Assign(t, min(obj[t], obj[i]))
    \/ Assign(t, invabs_rel(obj[i], obj[t]))
    \/ Assign(t, div_rel(obj[i], obj[t], obj[t]))

(* The program exchanges its intervals, which has it operate on the other *)
Exchange == obj' = [x |-> obj["y"], y |-> obj["x"]] /\ UNCHANGED Sse

Next ==
  \/ Exchange
  \/ Construct("x") \/ Transform("x")
  \/ \E i \in Names :
       \/ Add("x", i) \/ Subtract("x", i) \/ Multiply("x", i) \/ Divide("x", i)
       \/ Reverse("x", i) \/ Intersect("x", i) \/ Unite("x", i)
       \/ WithDouble("x", i) \/ Combine("x", i)

vars == <<obj, Sse>>

Spec == Init /\ [][Next]_vars

-----------------------------------------------------------------------------
TypeOK == Sse \in Builds /\ obj \in [Names -> Stored]

X == obj["x"]
Y == obj["y"]

(* Every pair of intervals is reached: what is said of X is looked at once *)
Alone == Y = universe

(* Each interval stored is an interval of IEEE 1788, an infinite bound       *)
(* beyond all reals, or the empty set as every operation knows it: operator+=*)
(* and the unary minus do not test for it, and count on its two NaNs.        *)
WellFormed ==
  \A n \in Names :
    LET I == obj[n] IN
    IF is_empty(I) THEN I = emptyset
    ELSE Lt(left(I), Infinity) /\ Lt(MinusInfinity, right(I))

(* operator+= and operator-= give the hull of the sums and differences, of   *)
(* an operand with itself too.                                               *)
SumsAreHulls ==
  /\ Value(Plus(X, Y, FALSE)) = Hull(Sums(X, Y))
  /\ Value(Difference(X, Y, FALSE)) = Hull(Differences(X, Y))
  /\ SameAllowed /\ Alone =>
                /\ Value(Plus(X, X, TRUE)) = Hull(Sums(X, X))
                /\ Value(Difference(X, X, TRUE)) = Hull(Differences(X, X))

(* operator*= gives the hull of the products, whatever the signs of the      *)
(* zeros among the bounds and for unbounded operands, and sqr() that of the  *)
(* squares.                                                                  *)
ProductsAreHulls ==
  /\ Value(Product(X, Y)) = Hull(RealProducts(X, Y))
  /\ Alone => Value(sqr(X)) = Hull(Squares(X))

(* operator/= and inverse() give the hull of the quotients by the reals of   *)
(* the divisor other than 0.                                                 *)
QuotientsAreHulls ==
  /\ Value(Quotient(X, Y, FALSE)) = Hull(Ratios(X, Y))
  /\ SameAllowed /\ Alone => Value(Quotient(X, X, TRUE)) = Hull(Ratios(X, X))
  /\ Alone => Value(inverse(X)) = Hull(Ratios(Point(OfNum(One)), X))

(* operator%= gives the hull of all the x such that x*y is in I for a y of J *)
ReversesAreHulls ==
  /\ Value(RelQuotient(X, Y, FALSE)) = RelHull(X, Y)
  /\ SameAllowed /\ Alone => Value(RelQuotient(X, X, TRUE)) = RelHull(X, X)

(* What there is of I to keep *)
SolutionsAreIn(kept, I) ==
  /\ \A q \in {<<x, Fine>> : x \in Samples(I)} \union Ratios(X, Y) :
       InRational(q, I) /\ Solves(q, Y, X) => InRational(q, kept)
  /\ set_contains(Meet(I, RelQuotient(X, Y, FALSE)), kept)

(* div_rel(K, J, I) keeps every x of I such that x*y is in K for a y of J,   *)
(* and nothing that neither I nor the quotient has: it may take out what is  *)
(* between its two pieces, and no solution.                                  *)
DivRelKeepsSolutions ==
  \A I \in {universe, positive} : SolutionsAreIn(div_rel(X, Y, I), I)

(* Undoing an operation gives an interval that still has all the operand: a  *)
(* propagator that goes down an expression and back never loses a solution,  *)
(* whatever the intermediate roundings, overflows and underflows.            *)
UndoingKeepsTheOperand ==
  ~is_empty(Y) =>
    /\ set_contains(Difference(Plus(X, Y, FALSE), Y, FALSE), X)
    /\ set_contains(RelQuotient(Product(X, Y), Y, FALSE), X)
    /\ set_contains(invabs_rel(abs(X), X), X)
    /\ set_contains(div_rel(Product(X, Y), Y, X), X)

(* The operators with a double give the set that those with interval(d) give *)
DoublesAreIntervals ==
  Eq(left(Y), right(Y)) \/ Alone \/ is_empty(Y) => \A d \in {left(Y), right(Y)} :
    /\ Value(PlusDouble(X, d)) = Value(Plus(X, Point(d), FALSE))
    /\ Value(MinusDouble(X, d)) = Value(Difference(X, Point(d), FALSE))
    /\ Value(TimesDouble(X, d)) = Value(Product(X, Point(d)))
    /\ Value(OverDouble(X, d)) = Value(Quotient(X, Point(d), FALSE))
    /\ Value(RelOverDouble(X, d)) = Value(RelQuotient(X, Point(d), FALSE))

(* The relations are those of the reals of the intervals, for all of them or *)
(* for some, and of the sets of these reals; certainly_neq() is true of       *)
(* disjoint intervals, and of others.                                        *)
RelationsAre(I, J) ==
  LET S == Samples(I)  T == Samples(J)
      differences == {x - y : x \in S, y \in T}
      common == {x \in S \union T : In(x, I) /\ In(x, J)}
      subset(U, K) == \A x \in U : In(x, K)
      above == {d \in differences : d > 0}
      below == {d \in differences : d < 0}
  IN /\ certainly_ge(I, J) <=> differences = above
     /\ certainly_geq(I, J) <=> below = {}
     /\ certainly_le(I, J) <=> differences = below
     /\ certainly_leq(I, J) <=> above = {}
     /\ possibly_ge(I, J) <=> above # {}
     /\ possibly_geq(I, J) <=> differences # below
     /\ possibly_le(I, J) <=> below # {}
     /\ possibly_leq(I, J) <=> differences # above
     /\ certainly_eq(I, J) <=> S = T /\ above \union below = {}
     /\ possibly_eq(I, J) <=> common # {}
     /\ possibly_neq(I, J) <=> above \union below # {}
     /\ common = {} /\ S # T => certainly_neq(I, J)
     /\ set_disjoint(I, J) <=> common = {}
     /\ set_contains(I, J) <=> subset(T, I)
     /\ set_leq(I, J) <=> subset(S, J)
     /\ set_eq(I, J) <=> subset(S, J) /\ subset(T, I)
     /\ set_strictly_contains(I, J) <=> \A y \in T, u \in {-1, 1} : In(y + u, I)

RelationsHold == RelationsAre(X, Y)

(* m, the middle of I, r, its radius, and c, the hull of its middle *)
Centred(I, m, r, c) ==
  IF is_empty(I) THEN {m, r} = {NaN} /\ is_empty(c)
  ELSE /\ Leq(left(I), m) /\ Leq(m, right(I))
       /\ set_contains(I, c) /\ set_contains(c, Point(m))
       /\ Infinity \notin {I.lb, I.rb} => Value(c) = Hull(Middle(I))
       /\ set_contains(Plus(Point(m), Interval(Opposite(r), r), FALSE), I) \/ IsInf(r)
       /\ Infinity \in {I.lb, I.rb} => IsInf(r)
       /\ Value(Join(split_left(I), split_right(I))) = Value(I)

(* midpoint() is within its interval even where the sum of the bounds        *)
(* overflows or its half underflows, mid() is the hull of the exact middle,  *)
(* the radius reaches both bounds, and the two parts that split() gives      *)
(* leave nothing out.                                                        *)
MidpointsAreWithin == Alone => Centred(X, midpoint(X), rad(X), mid(X))

(* abs(), min() and max() give the hulls, invabs_rel() that of the x of X    *)
(* whose magnitude is in Y, mig() and mag() the bounds of the magnitudes, and *)
(* hausdorff() the farthest a real of a bounded interval is from the other.  *)
FunctionsAreHulls ==
  /\ Value(abs(X)) = Hull(Moduli(X))
  /\ Value(max(X, Y)) = Hull(MaximaOf(X, Y))
  /\ Value(min(X, Y)) = Hull(MinimaOf(X, Y))
  /\ Value(invabs_rel(Y, X)) = Hull(OfModulus(X, Y))
  /\ ~is_empty(X) => <<-Num(mig(X)), Num(mag(X))>> = Value(abs(X))
  /\ ~is_empty(X) /\ ~is_empty(Y) /\ Infinity \notin {X.lb, X.rb, Y.lb, Y.rb} =>
       hausdorff(X, Y) = RoundUp(Farthest(X, Y), 1, FALSE)

(* The arithmetic of intervals, and of an interval and a double, gives hulls. *)
OperationsAreHulls ==
  SumsAreHulls /\ ProductsAreHulls /\ QuotientsAreHulls /\ DoublesAreIntervals

(* The reverse operations give hulls, that keep what they undo.              *)
OperationsAreReversed == ReversesAreHulls /\ UndoingKeepsTheOperand

=============================================================================
