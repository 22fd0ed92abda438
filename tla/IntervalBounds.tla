--------------------------- MODULE IntervalBounds ---------------------------
(***************************************************************************)
(* An interval and its bounds, which are the same in the SSE2 intervals    *)
(* (gaol_interval_sse.h) and in the others (gaol_interval_fpu.h): the      *)
(* stored bounds are the opposite of the left bound, and the right one.    *)
(***************************************************************************)
EXTENDS Doubles

Stored == [lb : Doubles \union {NaN}, rb : Doubles \union {NaN}]

left(I) == Opposite(I.lb)
right(I) == I.rb

Bounds(lb, rb) == [lb |-> lb, rb |-> rb]

emptyset == Bounds(NaN, NaN)
universe == Bounds(Infinity, Infinity)
positive == Bounds(Zero(TRUE), Infinity)
negative == Bounds(Infinity, Zero(FALSE))

(* interval(double l, double r) *)
Interval(l, r) ==
  IF Leq(l, r) /\ Lt(l, Infinity) /\ Lt(MinusInfinity, r)
  THEN Bounds(Opposite(l), r) ELSE emptyset

(* interval(double v) *)
Point(v) == Interval(v, v)

IsFinite(d) == Lt(MinusInfinity, d) /\ Lt(d, Infinity)

is_empty(I) == ~Leq(left(I), right(I))
is_zero(I) == Eq(left(I), Zero(FALSE)) /\ Eq(right(I), Zero(FALSE))
is_symmetric(I) == ~is_empty(I) /\ Eq(I.lb, right(I))
certainly_positive(I) == is_empty(I) \/ Leq(Zero(FALSE), left(I))
certainly_negative(I) == is_empty(I) \/ Leq(right(I), Zero(FALSE))
straddles_zero(I) == Leq(left(I), Zero(FALSE)) /\ Leq(Zero(FALSE), right(I))
strictly_straddles_zero(I) == Lt(left(I), Zero(FALSE)) /\ Lt(Zero(FALSE), right(I))

Minus(I) == Bounds(I.rb, I.lb)

(* Mutant: the bounds of disjoint operands left in the wrong order *)
MeetUnordered(I, J) ==
  IF is_empty(I) THEN I
  ELSE Bounds(IF ~Leq(I.lb, J.lb) THEN J.lb ELSE I.lb,
              IF ~Leq(I.rb, J.rb) THEN J.rb ELSE I.rb)

(* operator&=: disjoint operands give the NaN bounds *)
Meet(I, J) ==
  LET taken == Bounds(IF ~Leq(I.lb, J.lb) THEN J.lb ELSE I.lb,
                      IF ~Leq(I.rb, J.rb) THEN J.rb ELSE I.rb)
  IN IF is_empty(I) THEN I ELSE IF is_empty(taken) THEN emptyset ELSE taken

(* operator|= *)
Join(I, J) ==
  IF is_empty(I) THEN J
  ELSE IF is_empty(J) THEN I
  ELSE Bounds(IF Lt(I.lb, J.lb) THEN J.lb ELSE I.lb,
              IF Lt(I.rb, J.rb) THEN J.rb ELSE I.rb)
=============================================================================
