----------------------------- MODULE FloatPairs -----------------------------
(***************************************************************************)
(* Two intervals of floats in one SSE register, gaol::interval2f           *)
(* (gaol_interval2f.h, gaol_interval2f.cpp): the lanes 0 and 1 have the    *)
(* first interval, its left bound negated, and the lanes 2 and 3 the       *)
(* second.                                                                 *)
(*                                                                         *)
(* operator*= is a switch on the sign bits of the eight bounds, whose 256  *)
(* cases gaol_generator_mul_i2f.py writes.  A case is shuffles, sign       *)
(* masks, one or two products of the registers, and their maximum, on the  *)
(* four lanes at once: on the two lanes of an interval, that is what the   *)
(* operator Lane below says, for the sides of the operands that the sign   *)
(* bits of these lanes tell.                                               *)
(***************************************************************************)
EXTENDS Doubles

Lanes == 0 .. 3

(* interval2f(l1, r1, l2, r2), and of two intervals with negated left bounds *)
interval2f(l1, r1, l2, r2) ==
  [k \in Lanes |-> <<Opposite(l1), r1, Opposite(l2), r2>>[k + 1]]
Pair(I, J) == [k \in Lanes |-> <<I.lb, I.rb, J.lb, J.rb>>[k + 1]]

first(X) == [lb |-> X[0], rb |-> X[1]]
second(X) == [lb |-> X[2], rb |-> X[3]]

Sums(X, Y) == [k \in Lanes |-> AddUp(X[k], Y[k])]
Products(X, Y) == [k \in Lanes |-> MulUp(X[k], Y[k])]
Maxima(X, Y) == [k \in Lanes |-> MaxPd(X[k], Y[k])]
Shuffle(X, from) == [k \in Lanes |-> X[from[k + 1]]]
Negated(X, lanes) == [k \in Lanes |-> IF k \in lanes THEN Opposite(X[k]) ELSE X[k]]
(* _mm_and_ps() with a mask that clears the lanes *)
Cleared(X, lanes) == [k \in Lanes |-> IF k \in lanes THEN Zero(FALSE) ELSE X[k]]

Crossed == <<1, 0, 3, 2>>
Swapped == <<2, 3, 0, 1>>

-----------------------------------------------------------------------------
Plus(X, Y) == Sums(X, Y)
Minus(X, Y) == Sums(X, Shuffle(Y, Crossed))
Opposed(X) == Shuffle(X, Crossed)

(***************************************************************************)
(* The products of the lanes of an interval x by those of an interval i,   *)
(* for each side of i.  A NaN, the product of 0 and oo, becomes 0.         *)
(***************************************************************************)
Side(x) ==
  CASE ~SignBit(x.lb) /\ ~SignBit(x.rb) -> "M"
    [] SignBit(x.lb) /\ ~SignBit(x.rb)  -> "P"
    [] ~SignBit(x.lb) /\ SignBit(x.rb)  -> "N"
    [] OTHER                            -> "Z"

Mul(x, y) == NaNToZero(MulUp(x, y))
Lane(l, r) == [lb |-> l, rb |-> r]
ZeroLane == Lane(Zero(FALSE), Zero(FALSE))

(* Mutant: the case of two intervals around 0 without the second products *)
ByMWithoutMax(x, i) ==
  CASE Side(x) = "M" -> Lane(Mul(x.lb, i.rb), Mul(x.lb, i.lb))
    [] Side(x) = "P" -> Lane(Mul(x.rb, i.lb), Mul(x.rb, i.rb))
    [] Side(x) = "N" -> Lane(Mul(x.lb, i.rb), Mul(x.lb, i.lb))
    [] Side(x) = "Z" -> ZeroLane

ByM(x, i) ==
  CASE Side(x) = "M" -> Lane(MaxPd(Mul(x.lb, i.rb), Mul(x.rb, i.lb)),
                             MaxPd(Mul(x.lb, i.lb), Mul(x.rb, i.rb)))
    [] Side(x) = "P" -> Lane(Mul(x.rb, i.lb), Mul(x.rb, i.rb))
    [] Side(x) = "N" -> Lane(Mul(x.lb, i.rb), Mul(x.lb, i.lb))
    [] Side(x) = "Z" -> ZeroLane

ByP(x, i) ==
  CASE Side(x) = "M" -> Lane(Mul(x.lb, i.rb), Mul(x.rb, i.rb))
    [] Side(x) = "P" -> Lane(Mul(Opposite(x.lb), i.lb), Mul(x.rb, i.rb))
    [] Side(x) = "N" -> Lane(Mul(x.lb, i.rb), Mul(x.rb, Opposite(i.lb)))
    [] Side(x) = "Z" -> ZeroLane

ByN(x, i) ==
  CASE Side(x) = "M" -> Lane(Mul(x.rb, i.lb), Mul(x.lb, i.lb))
    [] Side(x) = "P" -> Lane(Mul(x.rb, i.lb), Mul(Opposite(x.lb), i.rb))
    [] Side(x) = "N" -> Lane(Mul(Opposite(x.rb), i.rb), Mul(x.lb, i.lb))
    [] Side(x) = "Z" -> ZeroLane

ByZ(x, i) == ZeroLane

(* The cases of the switch for one side of each interval of I: the second,    *)
(* of the high lanes, and the first                                         *)
CasesMM(X, I) == Pair(ByM(first(X), first(I)), ByM(second(X), second(I)))
CasesMP(X, I) == Pair(ByP(first(X), first(I)), ByM(second(X), second(I)))
CasesMN(X, I) == Pair(ByN(first(X), first(I)), ByM(second(X), second(I)))
CasesMZ(X, I) == Pair(ByZ(first(X), first(I)), ByM(second(X), second(I)))
CasesPM(X, I) == Pair(ByM(first(X), first(I)), ByP(second(X), second(I)))
CasesPP(X, I) == Pair(ByP(first(X), first(I)), ByP(second(X), second(I)))
CasesPN(X, I) == Pair(ByN(first(X), first(I)), ByP(second(X), second(I)))
CasesPZ(X, I) == Pair(ByZ(first(X), first(I)), ByP(second(X), second(I)))
CasesNM(X, I) == Pair(ByM(first(X), first(I)), ByN(second(X), second(I)))
CasesNP(X, I) == Pair(ByP(first(X), first(I)), ByN(second(X), second(I)))
CasesNN(X, I) == Pair(ByN(first(X), first(I)), ByN(second(X), second(I)))
CasesNZ(X, I) == Pair(ByZ(first(X), first(I)), ByN(second(X), second(I)))
CasesZM(X, I) == Pair(ByM(first(X), first(I)), ByZ(second(X), second(I)))
CasesZP(X, I) == Pair(ByP(first(X), first(I)), ByZ(second(X), second(I)))
CasesZN(X, I) == Pair(ByN(first(X), first(I)), ByZ(second(X), second(I)))
CasesZZ(X, I) == Pair(ByZ(first(X), first(I)), ByZ(second(X), second(I)))

(* operator*=: the switch; the empty set is of no case of its own *)
Times(X, I) ==
  LET side == <<Side(second(I)), Side(first(I))>> IN
  CASE side = <<"M", "M">> -> CasesMM(X, I)
    [] side = <<"M", "P">> -> CasesMP(X, I)
    [] side = <<"M", "N">> -> CasesMN(X, I)
    [] side = <<"M", "Z">> -> CasesMZ(X, I)
    [] side = <<"P", "M">> -> CasesPM(X, I)
    [] side = <<"P", "P">> -> CasesPP(X, I)
    [] side = <<"P", "N">> -> CasesPN(X, I)
    [] side = <<"P", "Z">> -> CasesPZ(X, I)
    [] side = <<"N", "M">> -> CasesNM(X, I)
    [] side = <<"N", "P">> -> CasesNP(X, I)
    [] side = <<"N", "N">> -> CasesNN(X, I)
    [] side = <<"N", "Z">> -> CasesNZ(X, I)
    [] side = <<"Z", "M">> -> CasesZM(X, I)
    [] side = <<"Z", "P">> -> CasesZP(X, I)
    [] side = <<"Z", "N">> -> CasesZN(X, I)
    [] side = <<"Z", "Z">> -> CasesZZ(X, I)

-----------------------------------------------------------------------------
odd(n) == n % 2 = 1

(* The loops of the powers: y, each time negated as the lanes of one mask,   *)
(* and the squares by the register negated so                               *)
Multiplied(n, Y, Z, lanes) == IF odd(n) THEN Negated(Products(Y, Z), lanes) ELSE Y

Power(X, e, lanes) ==
  LET Registers == [Lanes -> Doubles \union {NaN}]
      power[s \in [n : 0 .. e, y : Registers, z : Registers]] ==
        IF s.n = 0 THEN Negated(s.y, lanes)
        ELSE power[[n |-> s.n \div 2,
                    y |-> Multiplied(s.n, s.y, s.z, lanes),
                    z |-> IF s.n = 1 THEN s.z ELSE Products(s.z, Negated(s.z, lanes))]]
  IN power[[n |-> e, y |-> [k \in Lanes |-> OfNum(One)], z |-> X]]

uipow_dnupdnup(X, e) == Power(X, e, {0, 2})
uipow_upupupup(X, e) == Power(X, e, {})
uipow_upupdnup(X, e) == Power(X, e, {0})

(* The bounds of an even power of an interval around 0 of the lanes from l *)
EvenAround(X, from, left) == Cleared(Maxima(X, Shuffle(X, from)), left)

(* The same, of an even power e only *)
AroundIfEven(r, e, from, left) == IF odd(e) THEN r ELSE EvenAround(r, from, left)
ShuffledIfOdd(r, e, from) == IF odd(e) THEN Shuffle(r, from) ELSE r

uipow_0x0(X, e) == AroundIfEven(uipow_upupupup(X, e), e, Crossed, {0, 2})

uipow_0x1(X, e) == AroundIfEven(uipow_upupdnup(X, e), e, <<0, 1, 3, 2>>, {2})

(* Mutant: the lanes of the interval below 0 left crossed for an odd power *)
uipow_0x2Crossed(X, e) ==
  AroundIfEven(uipow_upupdnup(Shuffle(X, <<1, 0, 2, 3>>), e), e, <<0, 1, 3, 2>>, {2})

uipow_0x2(X, e) ==
  ShuffledIfOdd(AroundIfEven(uipow_upupdnup(Shuffle(X, <<1, 0, 2, 3>>), e), e, <<0, 1, 3, 2>>, {2}),
                e, <<1, 0, 2, 3>>)

(* The lanes 2 and 3 are both negated by the sign of the left bound *)
EvenBelow(r) == Cleared(Maxima(Negated(r, {2}), Shuffle(r, <<0, 1, 3, 2>>)), {2})
BelowIfEven(r, e) == IF odd(e) THEN r ELSE EvenBelow(r)

uipow_0x3(X, e) == BelowIfEven(Cleared(uipow_upupupup(X, e), {0, 1}), e)

uipow_0x6(X, e) ==
  ShuffledIfOdd(uipow_dnupdnup(Shuffle(X, <<1, 0, 2, 3>>), e), e, <<1, 0, 2, 3>>)

uipow_0x7(X, e) == Cleared(uipow_dnupdnup(X, e), {0, 1})

uipow_0xa(X, e) == ShuffledIfOdd(uipow_dnupdnup(Shuffle(X, Crossed), e), e, Crossed)

uipow_0xb(X, e) ==
  ShuffledIfOdd(Cleared(uipow_dnupdnup(Shuffle(X, Crossed), e), {0, 1}), e, Crossed)

(* The sign bits, the lane 3 first *)
Signs(X) == [k \in 1 .. 4 |-> IF SignBit(X[4 - k]) THEN 1 ELSE 0]

(* The cases of the sign bits that are those of the intervals swapped *)
SwappedCases ==
  {<<0, 1, 0, 0>>, <<1, 0, 0, 0>>, <<1, 0, 0, 1>>, <<1, 1, 0, 0>>, <<1, 1, 0, 1>>, <<1, 1, 1, 0>>}

uipowUnswapped(X, e) ==
  CASE Signs(X) = <<0, 0, 0, 0>> -> uipow_0x0(X, e)
    [] Signs(X) = <<0, 0, 0, 1>> -> uipow_0x1(X, e)
    [] Signs(X) = <<0, 0, 1, 0>> -> uipow_0x2(X, e)
    [] Signs(X) = <<0, 0, 1, 1>> -> uipow_0x3(X, e)
    [] Signs(X) = <<0, 1, 0, 1>> -> uipow_dnupdnup(X, e)
    [] Signs(X) = <<0, 1, 1, 0>> -> uipow_0x6(X, e)
    [] Signs(X) = <<0, 1, 1, 1>> -> uipow_0x7(X, e)
    [] Signs(X) = <<1, 0, 1, 0>> -> uipow_0xa(X, e)
    [] Signs(X) = <<1, 0, 1, 1>> -> uipow_0xb(X, e)
    [] Signs(X) = <<1, 1, 1, 1>> -> Pair(Lane(Zero(TRUE), Zero(FALSE)), Lane(Zero(TRUE), Zero(FALSE)))

SwappedIf(swaps, X) == IF swaps THEN Shuffle(X, Swapped) ELSE X

uipow(X, e) ==
  SwappedIf(Signs(X) \in SwappedCases, uipowUnswapped(SwappedIf(Signs(X) \in SwappedCases, X), e))

(* pow(const interval2f&, int), n >= 0: inverse() aborts *)
pow(X, n) ==
  IF n > 0 THEN uipow(X, n)
  ELSE interval2f(OfNum(One), OfNum(One), OfNum(One), OfNum(One))

-----------------------------------------------------------------------------
(* set_contains(float): a bit for the first interval, and one for the second *)
set_contains(X, v) ==
  LET bit(I) == IF Leq(Opposite(I.lb), v) /\ Leq(v, I.rb) THEN 1 ELSE 0
  IN 2 * bit(first(X)) + bit(second(X))

(* The relations true of both, as interval compares their bounds *)
BothOf(X, Y) == {<<first(X), first(Y)>>, <<second(X), second(Y)>>}

nothing(I) == ~Leq(Opposite(I.lb), I.rb)

possibly_eq_all(X, Y) ==
  \A p \in BothOf(X, Y) : Leq(Opposite(p[1].lb), p[2].rb) /\ Leq(Opposite(p[2].lb), p[1].rb)
set_eq_all(X, Y) ==
  \A p \in BothOf(X, Y) :
    \/ nothing(p[1]) /\ nothing(p[2])
    \/ Eq(p[1].lb, p[2].lb) /\ Eq(p[1].rb, p[2].rb)
set_contains_all(X, Y) ==
  \A p \in BothOf(X, Y) : nothing(p[2]) \/ (Leq(p[2].lb, p[1].lb) /\ Leq(p[2].rb, p[1].rb))
=============================================================================
