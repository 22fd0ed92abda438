----------------------------- MODULE IntervalOps -----------------------------
(***************************************************************************)
(* The arithmetic of gaol::interval, of the SSE2 intervals                 *)
(* (gaol_interval_sse.h, gaol_interval_sse.cpp) and of the others          *)
(* (gaol_interval_fpu.h, gaol_interval_fpu.cpp), with the rounding         *)
(* direction upward (see Rounding).                                        *)
(*                                                                         *)
(* Both stored bounds are rounded outward by rounding upward.  The         *)
(* operators of an assignment take *this, the operand I, and whether I is  *)
(* *this: without SSE2, the first bound is written before the second is    *)
(* computed.                                                               *)
(***************************************************************************)
EXTENDS IntervalBounds

VARIABLE Sse   \* The build, which does not change: SSE2 intervals, or not

zero == Bounds(Zero(~Sse), Zero(FALSE))

-----------------------------------------------------------------------------
(* operator+=, operator-= *)
Plus(I, J, same) == Bounds(AddUp(I.lb, J.lb), AddUp(I.rb, J.rb))

(* Mutant: each bound subtracted from itself *)
DifferenceUncrossed(I, J, same) ==
  Bounds(AddUp(I.lb, Opposite(J.lb)), AddUp(I.rb, Opposite(J.rb)))

Difference(I, J, same) ==
  LET lb == AddUp(I.lb, J.rb) IN
  Bounds(lb, AddUp(I.rb, IF same /\ ~Sse THEN lb ELSE J.lb))

(***************************************************************************)
(* operator*=.  Where the operand lies: P above 0, N below, M on both      *)
(* sides, Z at 0.  The SSE2 intervals tell it from the sign bits, which    *)
(* the sign of a zero bound changes.                                       *)
(***************************************************************************)
SideBySigns(I) ==
  CASE ~SignBit(I.lb) /\ ~SignBit(I.rb) -> "M"
    [] SignBit(I.lb) /\ ~SignBit(I.rb)  -> "P"
    [] ~SignBit(I.lb) /\ SignBit(I.rb)  -> "N"
    [] OTHER                            -> "Z"

SideByBounds(I) ==
  CASE is_zero(I)                                      -> "Z"
    [] ~is_zero(I) /\ certainly_positive(I)            -> "P"
    [] strictly_straddles_zero(I)                      -> "M"
    [] OTHER                                           -> "N"

(* The products of the bounds for each pair of sides but Z *)
Products(side, I, J) ==
  LET Mul(x, y) == NaNToZero(MulUp(x, y)) IN
  CASE side = <<"P", "P">> -> Bounds(Mul(I.lb, Opposite(J.lb)), Mul(I.rb, J.rb))
    [] side = <<"P", "M">> -> Bounds(Mul(I.rb, J.lb), Mul(I.rb, J.rb))
    [] side = <<"P", "N">> -> Bounds(Mul(I.rb, J.lb), Mul(Opposite(I.lb), J.rb))
    [] side = <<"M", "P">> -> Bounds(Mul(I.lb, J.rb), Mul(I.rb, J.rb))
    [] side = <<"M", "M">> -> Bounds(MaxPd(Mul(I.lb, J.rb), Mul(I.rb, J.lb)),
                                     MaxPd(Mul(I.lb, J.lb), Mul(I.rb, J.rb)))
    [] side = <<"M", "N">> -> Bounds(Mul(I.rb, J.lb), Mul(I.lb, J.lb))
    [] side = <<"N", "P">> -> Bounds(Mul(I.lb, J.rb), Mul(I.rb, Opposite(J.lb)))
    [] side = <<"N", "M">> -> Bounds(Mul(I.lb, J.rb), Mul(I.lb, J.lb))
    [] side = <<"N", "N">> -> Bounds(Mul(I.rb, Opposite(J.rb)), Mul(I.lb, J.lb))

Product(I, J) ==
  LET side(X) == IF Sse THEN SideBySigns(X) ELSE SideByBounds(X) IN
  IF is_empty(I) \/ is_empty(J) THEN emptyset
  ELSE IF side(I) = "Z" THEN IF Sse THEN zero ELSE I
  ELSE IF side(J) = "Z" THEN IF Sse THEN zero ELSE J
  ELSE Products(<<side(I), side(J)>>, I, J)

(***************************************************************************)
(* operator/=.  The classes of the bounds: N1 below 0, N0 to 0, Z at 0, M  *)
(* around 0, P0 from 0, P1 above 0.                                        *)
(***************************************************************************)
Class(I) ==
  IF Lt(right(I), Zero(FALSE)) THEN "N1"
  ELSE IF IsZero(right(I)) THEN IF IsZero(left(I)) THEN "Z" ELSE "N0"
  ELSE IF Lt(left(I), Zero(FALSE)) THEN "M"
  ELSE IF IsZero(left(I)) THEN "P0" ELSE "P1"

(* The quotients of the bounds for a divisor on one side of 0 *)
QuotientOneSide(of, I, J, same) ==
  LET nolb == Opposite(J.lb)  norb == Opposite(J.rb)
      from0 == Zero(~Sse)
      first == DivUp(I.lb, J.rb)
  IN
  CASE of = <<"N1", "N1">> -> Bounds(DivUp(I.rb, J.lb), DivUp(I.lb, norb))
    [] of = <<"N1", "P1">> -> Bounds(DivUp(I.lb, nolb), DivUp(I.rb, J.rb))
    [] of = <<"N0", "N1">> -> Bounds(from0, DivUp(left(I), J.rb))
    [] of = <<"N0", "P1">> -> Bounds(DivUp(I.lb, nolb), Zero(FALSE))
    [] of = <<"M", "N1">>  -> Bounds(DivUp(I.rb, norb), DivUp(I.lb, norb))
    [] of = <<"M", "P1">>  -> Bounds(DivUp(I.lb, nolb), DivUp(I.rb, nolb))
    [] of = <<"P0", "N1">> -> Bounds(DivUp(I.rb, norb), Zero(FALSE))
    [] of = <<"P0", "P1">> -> Bounds(from0, DivUp(I.rb, nolb))
    [] of = <<"P1", "N1">> -> Bounds(DivUp(Opposite(I.rb), J.rb), DivUp(I.lb, J.lb))
    \* rb_ /= -I.lb_, which lb_ /= I.rb_ has written when I is *this
    [] of = <<"P1", "P1">> ->
         Bounds(first, DivUp(I.rb, IF same /\ ~Sse THEN Opposite(first) ELSE nolb))

(* The quotients for a divisor that has 0 at a bound *)
QuotientTo0(of, I, J) ==
  CASE of = <<"N1", "N0">> -> Bounds(DivUp(I.rb, J.lb), Infinity)
    [] of = <<"N1", "P0">> -> Bounds(Infinity, DivUp(I.rb, J.rb))
    [] of = <<"N0", "N0">> -> positive
    [] of = <<"N0", "P0">> -> negative
    [] of = <<"P0", "N0">> -> negative
    [] of = <<"P0", "P0">> -> IF Sse THEN positive ELSE Bounds(Zero(FALSE), Infinity)
    [] of = <<"P1", "N0">> -> Bounds(Infinity, DivUp(left(I), left(J)))
    [] of = <<"P1", "P0">> -> Bounds(DivUp(I.lb, J.rb), Infinity)
    [] OTHER               -> universe

Quotient(I, J, same) ==
  LET of == <<Class(I), Class(J)>> IN
  IF is_empty(I) \/ is_empty(J) THEN emptyset
  ELSE IF of[2] = "Z" THEN emptyset
  ELSE IF of[1] = "Z" THEN zero
  ELSE IF of[2] = "M" THEN universe
  ELSE IF of[2] \in {"N0", "P0"} THEN QuotientTo0(of, I, J)
  ELSE QuotientOneSide(of, I, J, same)

(* Mutant: 0 on both sides not told apart *)
RelQuotientUnstraddled(I, J, same) ==
  IF is_empty(I) \/ is_empty(J) THEN emptyset ELSE Quotient(I, J, same)

(* operator%=: all the x such that x*y is in I for a y of J *)
RelQuotient(I, J, same) ==
  IF is_empty(I) \/ is_empty(J) THEN emptyset
  ELSE IF straddles_zero(I) /\ straddles_zero(J) THEN universe
  ELSE Quotient(I, J, same)

(* Mutant: the left bound of the right piece rounded upward *)
div_relRoundedUpward(K, J, I) ==
  IF is_empty(K) \/ is_empty(J) \/ is_empty(I) THEN emptyset
  ELSE IF straddles_zero(K) /\ straddles_zero(J) THEN I
  ELSE IF Class(J) = "M" /\ Class(K) = "N1"
  THEN Join(Meet(I, Bounds(Infinity, DivUp(K.rb, J.rb))),
            Meet(I, Bounds(Opposite(DivUp(right(K), left(J))), Infinity)))
  ELSE Meet(I, RelQuotientUnstraddled(K, J, FALSE))

(* The x of I such that x*y is in K for a y of J: two pieces when J has 0   *)
(* inside and K does not                                                   *)
div_rel(K, J, I) ==
  IF is_empty(K) \/ is_empty(J) \/ is_empty(I) THEN emptyset
  ELSE IF straddles_zero(K) /\ straddles_zero(J) THEN I
  ELSE IF Class(J) = "M" /\ Class(K) = "N1"
  THEN Join(Meet(I, Bounds(Infinity, DivUp(K.rb, J.rb))),
            Meet(I, Bounds(DivUp(K.rb, J.lb), Infinity)))
  ELSE IF Class(J) = "M" /\ Class(K) = "P1"
  THEN Join(Meet(I, Bounds(Infinity, DivUp(K.lb, J.lb))),
            Meet(I, Bounds(DivUp(K.lb, J.rb), Infinity)))
  ELSE Meet(I, Quotient(K, J, FALSE))

-----------------------------------------------------------------------------
(* The operations with a double, that give the empty set for an infinite d   *)
(* and for a NaN                                                            *)
PlusDouble(I, d) ==
  IF is_empty(I) \/ ~IsFinite(d) THEN emptyset
  ELSE Bounds(AddUp(I.lb, Opposite(d)), AddUp(I.rb, d))

MinusDouble(I, d) ==
  IF is_empty(I) \/ ~IsFinite(d) THEN emptyset
  ELSE Bounds(AddUp(I.lb, d), AddUp(I.rb, Opposite(d)))

TimesDouble(I, d) ==
  IF is_empty(I) \/ ~IsFinite(d) THEN emptyset
  ELSE IF IsZero(d) THEN zero
  ELSE IF d.neg THEN Bounds(MulUp(I.rb, Opposite(d)), MulUp(I.lb, Opposite(d)))
  ELSE Bounds(MulUp(I.lb, d), MulUp(I.rb, d))

OverDouble(I, d) ==
  IF is_empty(I) \/ ~IsFinite(d) \/ IsZero(d) THEN emptyset
  ELSE IF d.neg THEN Bounds(DivUp(I.rb, Opposite(d)), DivUp(I.lb, Opposite(d)))
  ELSE Bounds(DivUp(I.lb, d), DivUp(I.rb, d))

RelOverDouble(I, d) ==
  IF is_empty(I) \/ ~IsFinite(d) THEN emptyset
  ELSE IF IsZero(d) THEN IF straddles_zero(I) THEN universe ELSE emptyset
  ELSE OverDouble(I, d)

(* 1/I *)
inverse(I) ==
  LET minusOne == OfNum(-One)
      bound(x) == IF IsZero(x) THEN Infinity ELSE DivUp(minusOne, x)
  IN IF is_empty(I) \/ is_zero(I) THEN emptyset
     ELSE IF strictly_straddles_zero(I) THEN universe
     ELSE Bounds(bound(I.rb), bound(I.lb))

sqr(I) ==
  LET side == SideBySigns(I)
      largest == MaxPd(MulUp(I.lb, I.lb), MulUp(I.rb, I.rb))
      fromP == Bounds(MulUp(I.lb, Opposite(I.lb)), MulUp(I.rb, I.rb))
      fromN == Bounds(MulUp(I.rb, Opposite(I.rb)), MulUp(I.lb, I.lb))
  IN IF is_empty(I) THEN I
     ELSE IF Sse
     THEN CASE side = "M" -> Bounds(Zero(FALSE), largest)
            [] side = "P" -> fromP
            [] side = "N" -> fromN
            [] side = "Z" -> Bounds(Zero(TRUE), Zero(FALSE))
     ELSE IF certainly_positive(I) THEN fromP
     ELSE IF certainly_negative(I) THEN fromN
     ELSE Bounds(Zero(TRUE), largest)

(* The half of the sum of the bounds, rounded outward, or the sum of their   *)
(* halves when it overflows                                                 *)
mid(I) ==
  LET half(x) == MulUp(OfNum(One \div 2), x)
      minusHalf(x) == MulUp(OfNum(-(One \div 2)), x)
      sum == SubUp(I.rb, I.lb)
      opp_sum == SubUp(I.lb, I.rb)
  IN IF is_empty(I) THEN emptyset
     ELSE IF is_symmetric(I) THEN Point(Zero(FALSE))
     ELSE IF left(I) = MinusInfinity THEN Point(OfNum(-Largest))
     ELSE IF right(I) = Infinity THEN Point(OfNum(Largest))
     ELSE IF IsInf(sum) \/ IsInf(opp_sum)
     THEN Interval(Opposite(AddUp(half(I.lb), minusHalf(I.rb))),
                   AddUp(minusHalf(I.lb), half(I.rb)))
     ELSE Interval(Opposite(half(opp_sum)), half(sum))
=============================================================================
