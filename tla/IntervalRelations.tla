------------------------- MODULE IntervalRelations -------------------------
(***************************************************************************)
(* The relations of gaol::interval (gaol_interval.h): the certain ones are *)
(* those of all the reals of the intervals, the possible ones those of     *)
(* some, the set relations those of the sets.  They compare bounds, one of *)
(* which is a NaN when an operand is empty.                                *)
(***************************************************************************)
EXTENDS IntervalOps

Vacuous(I, J) == is_empty(I) \/ is_empty(J)

certainly_ge(I, J)  == Vacuous(I, J) \/ Lt(right(J), left(I))
certainly_geq(I, J) == Vacuous(I, J) \/ Leq(right(J), left(I))
certainly_le(I, J)  == Vacuous(I, J) \/ Lt(right(I), left(J))
certainly_leq(I, J) == Vacuous(I, J) \/ Leq(right(I), left(J))

(* Mutant: the left bound of J not looked at *)
certainly_eqOfRight(I, J) ==
  \/ is_empty(I) /\ is_empty(J)
  \/ Eq(left(I), right(I)) /\ Eq(left(I), right(J))

certainly_eq(I, J) ==
  \/ is_empty(I) /\ is_empty(J)
  \/ /\ Eq(left(I), right(I))
     /\ Eq(left(J), right(J))
     /\ Eq(left(I), left(J))

certainly_neq(I, J) == ~certainly_eq(I, J)

possibly_geq(I, J) == Leq(left(J), right(I))
possibly_leq(I, J) == Leq(left(I), right(J))
possibly_ge(I, J)  == Lt(left(J), right(I))
possibly_le(I, J)  == Lt(left(I), right(J))
possibly_eq(I, J)  == Leq(left(I), right(J)) /\ Leq(left(J), right(I))
possibly_neq(I, J) ==
  /\ ~Vacuous(I, J)
  /\ ~(Leq(right(I), left(J)) /\ Leq(right(J), left(I)))

set_contains(I, J) == is_empty(J) \/ (Leq(left(I), left(J)) /\ Leq(right(J), right(I)))

set_strictly_contains(I, J) ==
  \/ is_empty(J)
  \/ /\ ~is_empty(I)
     /\ Lt(left(I), left(J)) \/ left(I) = MinusInfinity
     /\ Lt(right(J), right(I)) \/ right(I) = Infinity

set_disjoint(I, J) == Lt(right(I), left(J)) \/ Lt(right(J), left(I)) \/ Vacuous(I, J)

set_eq(I, J) ==
  \/ is_empty(I) /\ is_empty(J)
  \/ Eq(left(I), left(J)) /\ Eq(right(I), right(J))

set_leq(I, J) == is_empty(I) \/ (Leq(left(J), left(I)) /\ Leq(right(I), right(J)))
=============================================================================
