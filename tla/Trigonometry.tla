---------------------------- MODULE Trigonometry ----------------------------
(***************************************************************************)
(* The trigonometric functions of intervals and their reverse functions    *)
(* (gaol_interval.cpp).  Quotients by an enclosure of pi, rounded outward, *)
(* tell the piece a bound lies on; rounded inward, whether it does for     *)
(* sure; otherwise the signs of the sine or the cosine of the bounds do.   *)
(***************************************************************************)
EXTENDS Elementary

Over(x, J) == Quotient(Point(x), J, FALSE)

(* floor() of an interval *)
floor_interval(I) == Interval(floor(left(I)), floor(right(I)))

is_a_double(I) == Eq(left(I), right(I))

(* The pieces of the bounds of I between the multiples of pi, as intervals kl *)
(* and kr of integers: fast_modulo_k_pi() tells both, or none                *)
fast_told(kl, kr) ==
  [told |-> is_a_double(kl) /\ is_a_double(kr), left |-> left(kl), right |-> right(kr)]
fast_modulo_k_pi(I) ==
  fast_told(floor_interval(Over(left(I), pi)), floor_interval(Over(right(I), pi)))

(* Mutant: the quotient taken for the piece *)
toldUntold(kl, kr) ==
  [left_told |-> ~is_empty(kl), right_told |-> ~is_empty(kr), left |-> left(kl), right |-> right(kr)]

(* modulo_k_pi() tells each of them *)
told(kl, kr) ==
  [left_told |-> is_a_double(kl), right_told |-> is_a_double(kr),
   left |-> left(kl), right |-> right(kr)]
modulo_k_pi(I) == told(floor_interval(Over(left(I), pi)), floor_interval(Over(right(I), pi)))

-----------------------------------------------------------------------------
(* The quotient by pi that tells between which poles of the tangent x lies *)
PoleQuotient(x) == Quotient(Plus(Point(x), half_pi, FALSE), pi, FALSE)

(* Whether [l, r], narrower than pi, has no pole, from the quotients ql, qr of *)
(* its bounds, or else from the signs of their cosines                       *)
NoPole(l, r, ql, qr) ==
  \/ Eq(floor(left(ql)), floor(right(qr)))
  \/ /\ ~Leq(ceil(right(ql)), floor(left(qr)))
     /\ Lt(SubUp(r, l), pi_dn)
     /\ sign_of_cos(l) = sign_of_cos(r)

tan(I) ==
  IF is_empty(I) THEN emptyset
  ELSE IF \/ Leq(pi_up, width(I))
          \/ ~NoPole(left(I), right(I), PoleQuotient(left(I)), PoleQuotient(right(I)))
  THEN universe
  ELSE Interval(tan_lo(left(I)), tan_hi(right(I)))

-----------------------------------------------------------------------------
(* cos_or_sin: the function f is "cos" or "sin", whose bounds at a double are *)
(* those of cos_lo() ... sin_hi(); on [l, r] it is monotonic                 *)
OnPiece(f, l, r, increasing) ==
  <<odd_lo(f, IF increasing THEN l ELSE r), odd_hi(f, IF increasing THEN r ELSE l)>>

DivDown(x, y) == Opposite(DivUp(Opposite(x), y))
one_half == OfNum(One \div 2)

(* The quotients a and b of the bounds by pi, shifted by 1/2 for the sine, as *)
(* the integers around them                                                  *)
Pieces(f, a, b) ==
  IF f = "cos" THEN <<floor(a), ceil(b)>>
  ELSE <<floor(Opposite(AddUp(Opposite(a), one_half))), ceil(SubUp(b, one_half))>>
PiecesOutward(f, l, r) ==
  Pieces(f, DivDown(l, IF Leq(Zero(FALSE), l) THEN pi_up ELSE pi_dn),
            DivUp(r, IF Positive(r) THEN pi_dn ELSE pi_up))

(* The same, rounded inward *)
PiecesShifted(f, a, b) ==
  IF f = "cos" THEN <<floor(a), ceil(b)>>
  ELSE <<floor(SubUp(a, one_half)), ceil(Opposite(AddUp(Opposite(b), one_half)))>>
PiecesInward(f, l, r) ==
  PiecesShifted(f, DivUp(l, IF Leq(Zero(FALSE), l) THEN pi_dn ELSE pi_up),
                   DivDown(r, IF Positive(r) THEN pi_up ELSE pi_dn))

(* The sign of the slope at a double, on the side of the interval at 0 *)
Slope(f, x, side) ==
  IF f = "sin" THEN sign_of_cos(x)
  ELSE IF IsZero(x) THEN side ELSE -sign_of_sin(x)

Middle(l, r) == AddUp(half(l), half(r))

(* Mutant: no look at the middle of an interval wider than pi *)
ExtremumOfBounds(f, l, r, w, sl, sr) == IF sl # sr THEN sl ELSE 0

(* The extrema within [l, r], narrower than 2 pi, by the slopes at its bounds: *)
(* a maximum 1, a minimum -1, none 0, both 2                                 *)
Extremum(f, l, r, w, sl, sr) ==
  IF sl # sr THEN sl
  ELSE IF \/ Lt(w, pi_dn)
          \/ /\ Lt(SubUp(Middle(l, r), l), pi_dn) /\ Lt(SubUp(r, Middle(l, r)), pi_dn)
             /\ Slope(f, Middle(l, r), 0) = sl
  THEN 0 ELSE 2

LesserOf(x, y) == IF Lt(y, x) THEN y ELSE x

(* The bounds of [l, r] by the extrema within; sl is the slope at l *)
ByExtrema(f, l, r, sl, extremum) ==
  CASE extremum = 2 -> <<minus_one, one>>
    [] extremum = -1 -> <<minus_one, GreaterOf(odd_hi(f, l), odd_hi(f, r))>>
    [] extremum = 1 -> <<LesserOf(odd_lo(f, l), odd_lo(f, r)), one>>
    [] extremum = 0 -> OnPiece(f, l, r, sl > 0)
BySlopes(f, l, r, w, sl, sr) == ByExtrema(f, l, r, sl, Extremum(f, l, r, w, sl, sr))

(* The bounds of [l, r], from the integers m and n around the quotients of its *)
(* bounds by pi; sure, if they are the same rounded inward                   *)
Wave(f, l, r, w, m, n, sure) ==
  IF Lt(SubUp(n, m), OfNum(2 * One)) THEN OnPiece(f, l, r, ~feven(m))
  ELSE IF \/ ~Lt(w, MulUp(OfNum(2 * One), pi_dn))
          \/ sure /\ ~Eq(SubUp(n, m), OfNum(2 * One))
  THEN <<minus_one, one>>
  ELSE IF sure THEN ByExtrema(f, l, r, 0, IF feven(m) THEN -1 ELSE 1)
  ELSE BySlopes(f, l, r, w, Slope(f, l, -1), Slope(f, r, 1))

WaveOf(f, l, r, w, outward, inward) == Wave(f, l, r, w, outward[1], outward[2], outward = inward)

(* Within [-1, 1] *)
Clamped(bounds) ==
  Interval(IF Lt(bounds[1], minus_one) THEN minus_one ELSE bounds[1],
           IF Lt(one, bounds[2]) THEN one ELSE bounds[2])

cos_or_sin(f, I) ==
  IF is_empty(I) THEN emptyset
  ELSE Clamped(WaveOf(f, left(I), right(I), AddUp(I.rb, I.lb),
                      PiecesOutward(f, left(I), right(I)), PiecesInward(f, left(I), right(I))))

-----------------------------------------------------------------------------
pi_lo_dn == Down(Value(HalfPi - 2 * pi_dn.mag, 2))
pi_lo_up == Up(Value(HalfPi - 2 * pi_dn.mag, 2))

(* k times the rest of pi, between below and above, and the product k pi_dn, p *)
(* rounded upward, with its rest e                                           *)
rest_below(k) == IF k.neg /\ ~IsZero(k) THEN pi_lo_up ELSE pi_lo_dn
rest_above(k) == IF k.neg /\ ~IsZero(k) THEN pi_lo_dn ELSE pi_lo_up

(* e = fma(k, pi_dn, -p) *)
rest_of_product(k, p) == RoundUp(Num(k) * Num(pi_dn) - Num(p) * One, One, FALSE)

(* Mutant: the rest of the rounded product lost *)
k_pi_sumRounded(k, p, e, X) ==
  Interval(Opposite(AddUp(Opposite(p), SubUp(MulUp(Opposite(k), rest_below(k)), left(X)))),
           AddUp(p, AddUp(MulUp(k, rest_above(k)), right(X))))

k_pi_sum(k, p, e, X) ==
  Interval(Opposite(AddUp(Opposite(p),
                          SubUp(AddUp(Opposite(e), MulUp(Opposite(k), rest_below(k))), left(X)))),
           AddUp(p, AddUp(AddUp(e, MulUp(k, rest_above(k))), right(X))))

(* k pi + X, pi being pi_dn and a rest between two doubles *)
k_pi_plus(k, X) ==
  k_pi_sum(k, MulUp(k, pi_dn), rest_of_product(k, MulUp(k, pi_dn)), X)

two_power_52 == DivUp(OfNum(One), OfNum(Epsilon))

(* The part of the preimage of J in one piece *)
preimage(f, J) == CASE f = "cos" -> acos(J) [] f = "sin" -> asin(J) [] f = "tan" -> atan(J)

(* The piece i of the preimage by f, A being the part in the first *)
piece(f, A, i) ==
  k_pi_plus(IF f = "cos" /\ ~feven(i) THEN AddUp(i, one) ELSE i,
            IF f # "tan" /\ ~feven(i) THEN Minus(A) ELSE A)

image(f, I) == IF f = "tan" THEN tan(I) ELSE cos_or_sin(f, I)

(* The first of two intervals that is not empty *)
FirstOf(X, Y) == IF is_empty(X) THEN Y ELSE X

(* What is left of I near its bound b: on the piece k, or else on the next one *)
PieceOfBound(f, A, I, b, k, next) ==
  IF Lt(two_power_52, fabs(b)) THEN I
  ELSE FirstOf(Meet(piece(f, A, k), I), Meet(piece(f, A, next), I))

(* The quotient by pi that tells the piece of a double *)
PieceQuotient(f, x) == PlusDouble(Over(x, pi), IF f = "cos" THEN Zero(FALSE) ELSE one_half)

HullOf(X, Y) == IF is_empty(X) \/ is_empty(Y) THEN emptyset ELSE Interval(left(X), right(Y))

OnPieces(f, A, I, kl, kr) ==
  HullOf(PieceOfBound(f, A, I, left(I), kl, AddUp(kl, one)),
         PieceOfBound(f, A, I, right(I), kr, SubUp(kr, one)))

(* The hull of the x of I whose image by a periodic function is in J *)
periodic_rel(f, J, I) ==
  IF is_empty(J) \/ is_empty(I) THEN emptyset
  ELSE IF is_a_double(I) THEN IF is_empty(Meet(image(f, I), J)) THEN emptyset ELSE I
  ELSE OnPieces(f, preimage(f, J), I, floor(left(PieceQuotient(f, left(I)))),
                floor(right(PieceQuotient(f, right(I)))))

(* acos_rel(), asin_rel() and atan_rel(), which reverse "cos", "sin" and "tan" *)
inverse_rel(f, J, I) ==
  IF f # "tan" /\ (is_empty(J) \/ is_empty(I) \/ Lt(one, left(J)) \/ Lt(right(J), minus_one))
  THEN emptyset
  ELSE IF f # "tan" /\ set_contains(J, minus_one_plus_one) THEN I
  ELSE periodic_rel(f, J, I)
=============================================================================
