---------------------------- MODULE OneBoundProof ----------------------------
(***************************************************************************)
(* Proofs about the two ways of computing one bound: the search of a root  *)
(* keeps a bracket and returns a proved bound next to an unproved double,  *)
(* whatever the format, the powers, the approximation and the limit; a     *)
(* call of a library leaves the direction as the contract says; and what   *)
(* it computes encloses the value, and is near it.                         *)
(*                                                                         *)
(* A bound is near when it is moved by one double from a rounding of the   *)
(* value: by the doubles around it, or by a product and a sum, which move  *)
(* it one double at least because doubles are as near to one another as    *)
(* epsilon() and min() say.                                                *)
(***************************************************************************)
EXTENDS MCOneBound, DoublesProof, FiniteSetTheorems

-----------------------------------------------------------------------------
(* The doubles that a search meets are the finite ones that are not negative. *)
LEMMA PositiveIs == Positive = {v \in NotNegative : v.mag \in Magnitudes}
<1>1. ASSUME NEW v \in Positive PROVE v \in NotNegative /\ v.mag \in Magnitudes
  <2>1. PICK m \in Magnitudes : v = OfNum(m)
    BY DEF Positive
  <2>2. m \in FiniteNums /\ m >= 0
    BY FiniteNumsRange, MagnitudesAssumption
  <2>3. v \in Doubles /\ v = [neg |-> FALSE, mag |-> m]
    BY <2>1, <2>2, OfNumIsNum
  <2> QED
    BY <2>3 DEF NotNegative
<1>2. ASSUME NEW v \in NotNegative, v.mag \in Magnitudes PROVE v \in Positive
  <2>1. v.mag \in FiniteNums /\ v.mag >= 0
    <3>1. \A m \in Magnitudes : m \in FiniteNums /\ m >= 0
      BY FiniteNumsRange, MagnitudesAssumption
    <3> QED
      BY <1>2, <3>1
  <2>2. v = OfNum(v.mag)
    BY <2>1, OfNumIsNum, NotNegativeNum
  <2> QED
    BY <1>2, <2>2 DEF Positive
<1> QED
  BY <1>1, <1>2

(* What they are as numbers, and 0, the largest and oo.                     *)
LEMMA PositiveNum ==
  /\ \A v \in Positive : /\ v \in NotNegative /\ v \in Doubles /\ v \in Numbers /\ v # NaN
                         /\ v.mag \in Magnitudes /\ ~IsInf(v)
                         /\ Num(v) \in Int /\ 0 <= Num(v) /\ Num(v) <= Largest
                         /\ Num(v) = v.mag
  /\ \A v, w \in Positive : Num(v) = Num(w) => v = w
  /\ Zero(FALSE) \in Positive /\ Num(Zero(FALSE)) = 0
  /\ largest \in Positive /\ Num(largest) = Largest
  /\ \A m \in Magnitudes : OfNum(m) \in Positive /\ Num(OfNum(m)) = m
  /\ Infinity \in NotNegative
  /\ \A v \in NotNegative : v \in Positive \union {Infinity}
<1>1. ASSUME NEW v \in Positive
      PROVE  /\ v \in NotNegative /\ v \in Doubles /\ v \in Numbers /\ v # NaN
             /\ v.mag \in Magnitudes /\ ~IsInf(v)
             /\ Num(v) \in Int /\ 0 <= Num(v) /\ Num(v) <= Largest
             /\ Num(v) = v.mag /\ v = [neg |-> FALSE, mag |-> v.mag]
  <2>1. v \in NotNegative /\ v.mag \in Magnitudes
    BY PositiveIs
  <2> QED
    BY <2>1, NotNegativeNum, NumOfMagnitude, FiniteOrInfinite DEF Numbers
<1>2. \A m \in Magnitudes : OfNum(m) \in Positive /\ Num(OfNum(m)) = m
  BY FiniteNumsRange, OfNumIsNum DEF Positive
<1>3. Zero(FALSE) = OfNum(0)
  <2>1. (0 < 0) = FALSE
    OBVIOUS
  <2> QED
    BY <2>1 DEF Zero, OfNum
<1>4. 0 \in Magnitudes /\ Largest \in Magnitudes
  BY LargestMagnitude, MagnitudesAssumption
<1>5. Infinity \in NotNegative
  BY DEF Infinity, NotNegative, Doubles
<1>6. \A v \in NotNegative : v \in Positive \union {Infinity}
  BY PositiveIs, NotNegativeNum
<1>7. \A v, w \in Positive : Num(v) = Num(w) => v = w
  BY <1>1
<1> QED
  BY <1>1, <1>2, <1>3, <1>4, <1>5, <1>6, <1>7 DEF largest

(* The steps of a search are doubles above the ends of the search or oo.    *)
LEMMA StepsAreNotNegative ==
  /\ \A v \in Positive : first_step(v) \in NotNegative
  /\ \A s \in NotNegative : Twice(s) \in NotNegative
<1>1. Epsilon \in Magnitudes /\ 2 * One \in Magnitudes /\ 1 \in Magnitudes
  BY SearchAssumption
<1>2. Epsilon > 0 /\ 2 * One > 0
  BY SearchAssumption, <1>1, MagnitudesAssumption
<1>3. ASSUME NEW v \in NotNegative, NEW m \in Magnitudes, m > 0
      PROVE  MulUp(v, OfNum(m)) \in NotNegative
  <2>1. OfNum(m) \in NotNegative /\ OfNum(m).mag \in Magnitudes /\ Num(OfNum(m)) > 0
    BY <1>3, PositiveNum
  <2> QED
    BY <2>1, ProductNotNegative
<1>4. ASSUME NEW v \in Positive PROVE first_step(v) \in NotNegative
  <2>1. MulUp(v, OfNum(Epsilon)) \in NotNegative /\ OfNum(1) \in NotNegative
    BY <1>1, <1>2, <1>3, PositiveNum
  <2>2. first_step(v) \in {MulUp(v, OfNum(Epsilon)), OfNum(1)}
    BY <2>1, ExtremaNotNegative DEF first_step
  <2> QED
    BY <2>1, <2>2
<1>5. ASSUME NEW s \in NotNegative PROVE Twice(s) \in NotNegative
  BY <1>1, <1>2, <1>3 DEF Twice
<1> QED
  BY <1>4, <1>5

(* The other end, one step away, is on its side of the end, and finite.     *)
LEMMA AboveIsAbove ==
  ASSUME NEW v \in Positive, NEW s \in NotNegative
  PROVE  Above(v, s) \in Positive /\ Num(v) <= Num(Above(v, s))
<1> DEFINE t == AddUp(v, s)
<1>1. t \in NotNegative /\ Num(v) <= Num(t)
  BY PositiveNum, SumNotNegative
<1>2. Above(v, s) = minimum(t, largest)
  BY DEF Above
<1> HIDE DEF t
<1>3. /\ minimum(t, largest) \in {t, largest}
      /\ Num(minimum(t, largest)) <= Num(largest)
      /\ minimum(t, largest) \in NotNegative
  BY <1>1, PositiveNum, ExtremaNotNegative
<1>4. minimum(t, largest).mag \in Magnitudes
  BY <1>3, PositiveNum, NotNegativeNum
<1> QED
  BY <1>1, <1>2, <1>3, <1>4, PositiveIs, PositiveNum

LEMMA BelowIsBelow ==
  ASSUME NEW v \in Positive, NEW s \in NotNegative
  PROVE  Below(v, s) \in Positive /\ Num(Below(v, s)) <= Num(v)
<1> DEFINE t == Opposite(SubUp(s, v))
<1>1. t \in Doubles /\ Num(t) <= Num(v)
  BY PositiveNum, DifferenceNotNegative, OppositeIsDouble
<1>2. Below(v, s) = maximum(t, Zero(FALSE))
  BY DEF Below
<1> HIDE DEF t
<1>3. CASE t.neg
  <2>1. t # NaN /\ Zero(FALSE) # NaN /\ Num(t) <= 0
    <3>1. t # NaN /\ t.mag \in Nat /\ Num(t) = -t.mag
      BY <1>1, <1>3, NumOfMagnitude, FiniteOrInfinite
    <3>2. Zero(FALSE) # NaN
      BY PositiveNum
    <3>3. \A i \in Nat : -i <= 0
      OBVIOUS
    <3>4. Num(t) <= 0
      BY <3>1, <3>3
    <3> QED
      BY <3>1, <3>2, <3>4
  <2>2. maximum(t, Zero(FALSE)) = Zero(FALSE)
    BY <1>3, <2>1, PositiveNum DEF maximum, Leq
  <2> QED
    BY <1>2, <2>2, PositiveNum
<1>4. CASE ~t.neg
  <2>1. t \in NotNegative /\ Num(t) <= Largest /\ Num(t) \in Int
    <3>1. t \in NotNegative /\ Num(t) \in Int
      BY <1>1, <1>4, NumOfMagnitude DEF NotNegative
    <3>2. Num(v) \in Int /\ Num(v) <= Largest /\ Largest \in Int
      BY PositiveNum, LargestMagnitude
    <3> QED
      BY <1>1, <3>1, <3>2
  <2>2. t \in Positive
    BY <2>1, NotNegativeNum, PositiveIs
  <2>3. maximum(t, Zero(FALSE)) \in {t, Zero(FALSE)}
    BY <2>1, PositiveNum, ExtremaNotNegative
  <2>4. maximum(t, Zero(FALSE)) \in Positive
    BY <2>2, <2>3, PositiveNum
  <2>5. Num(maximum(t, Zero(FALSE))) <= Num(v)
    <3>1. Num(Zero(FALSE)) <= Num(v)
      BY PositiveNum
    <3> QED
      BY <1>1, <2>3, <3>1
  <2> QED
    BY <1>2, <2>4, <2>5
<1> QED
  BY <1>3, <1>4

(* The approximation that a search starts from is finite and not negative,  *)
(* whatever the mathematical library gave and Newton's step made of it.     *)
LEMMA NewtonRootIsPositive ==
  ASSUME NEW d \in Positive, NEW r \in Numbers, NEW k \in Degrees
  PROVE  newton_root(d, r, k) \in Positive
<1> DEFINE p == PowerUp(r, k)
<1> DEFINE q == RoundUp(k * One, 1, FALSE)
<1> DEFINE s == SubUp(r, MulUp(r, DivUp(SubUp(p, d), MulUp(q, p))))
<1>1. CASE ~Lt(Zero(FALSE), r)
  BY <1>1, PositiveNum DEF newton_root
<1>2. CASE Lt(Zero(FALSE), r) /\ Lt(largest, r)
  BY <1>2, PositiveNum DEF newton_root
<1>3. CASE Lt(Zero(FALSE), r) /\ ~Lt(largest, r)
  <2>1. r \in Doubles /\ r # NaN
    BY <1>3 DEF Lt, Numbers
  <2>2. p \in Numbers
    BY <2>1, PowersAssumption DEF Numbers
  <2>3. q \in Numbers
    <3> DEFINE i == k * One
    <3> DEFINE one == 1
    <3>1. i \in Nat /\ one \in Nat /\ one >= 1
      BY SearchAssumption, LargestMagnitude
    <3> HIDE DEF i, one
    <3>2. RoundUp(i, one, FALSE) \in NotNegative
      BY <3>1, RoundUpNotNegative
    <3> QED
      BY <3>2, NotNegativeNum DEF Numbers, i, one
  <2>4. newton_root(d, r, k) \in {r, s} /\ (newton_root(d, r, k) = s => (Lt(Zero(FALSE), s) /\ Leq(s, largest)) \/ s = r)
    BY <1>3 DEF newton_root
  <2> HIDE DEF p, q
  <2>5. s \in Numbers
    BY <2>2, <2>3, PositiveNum, SumIsNumber, ProductIsNumber
  <2> HIDE DEF s
  <2>6. Lt(Zero(FALSE), s) /\ Leq(s, largest) => s \in Positive
    <3>1. Leq(s, largest) => Num(s) <= Largest
      BY PositiveNum DEF Leq
    <3> QED
      BY <2>5, <3>1, PositiveNum, PositiveIs, PositiveBetween
  <2>7. r \in Positive
    <3>1. Num(r) <= Largest
      BY <1>3, <2>1, PositiveNum, NumOfMagnitude DEF Lt
    <3> QED
      BY <1>3, <3>1, PositiveNum, PositiveIs, PositiveBetween
  <2> QED
    BY <2>4, <2>6, <2>7
<1> QED
  BY <1>1, <1>2, <1>3

(* The middle of a bracket is within it, or is its upper end, next to the   *)
(* lower one.                                                               *)
LEMMA MiddleOfBracket ==
  ASSUME NEW a \in Positive, NEW b \in Positive, Num(a) < Num(b)
  PROVE  LET m == double_between(a, b) IN
         \/ Lt(m, b) /\ m \in Positive /\ Num(a) <= Num(m) /\ Num(m) <= Num(b)
         \/ ~Lt(m, b) /\ next_float(a) = b
<1> DEFINE half == OfNum(One \div 2)
<1> DEFINE c == AddUp(a, MulUp(half, SubUp(b, a)))
<1> DEFINE m == double_between(a, b)
<1>1. m = IF Lt(a, c) /\ Lt(c, b) THEN c ELSE next_float(a)
  BY DEF double_between
<1>2. /\ a \in NotNegative /\ b \in NotNegative /\ b.mag \in Magnitudes /\ a # NaN /\ b # NaN
      /\ Num(a) \in Int /\ Num(b) \in Int /\ Num(b) <= Largest /\ Largest \in Int
  BY PositiveNum, LargestMagnitude
<1>3. half \in Numbers
  BY MagnitudesAssumption, PositiveNum
<1>4. c \in Numbers
  BY <1>3, PositiveNum, SumIsNumber, ProductIsNumber
<1> HIDE DEF c, half
<1>5. CASE Lt(a, c) /\ Lt(c, b)
  <2>1. Num(c) < Num(b) /\ Num(a) < Num(c) /\ c \in Doubles
    BY <1>4, <1>5 DEF Lt, Numbers
  <2>2. Num(c) \in Int
    BY <2>1, NumOfMagnitude
  <2>3. Num(c) <= Largest
    BY <1>2, <2>1, <2>2
  <2>4. c \in Positive
    BY <1>2, <1>4, <1>5, <2>3, PositiveBetween, PositiveIs
  <2> QED
    BY <1>1, <1>2, <1>5, <2>1, <2>2, <2>4
<1>6. CASE ~(Lt(a, c) /\ Lt(c, b))
  <2>1. m = next_float(a)
    BY <1>1, <1>6
  <2>2. /\ m \in NotNegative /\ m.mag \in Magnitudes
        /\ Num(a) < Num(m) /\ Num(m) <= Num(b)
        /\ Num(m) = Num(b) => m = b
    BY <1>2, <2>1, NextIsLeast
  <2> HIDE DEF m
  <2>3. m \in Positive /\ m # NaN /\ Num(m) \in Int
    BY <2>2, PositiveIs, PositiveNum
  <2>4. ~Lt(m, b) => Num(m) = Num(b)
    BY <1>2, <2>2, <2>3 DEF Lt
  <2> QED
    BY <1>2, <2>1, <2>2, <2>3, <2>4 DEF m
<1> QED
  BY <1>5, <1>6

-----------------------------------------------------------------------------
(* The first state.                                                         *)
LEMMA SearchInit == Init => IInv
<1> SUFFICES ASSUME Init PROVE IInv
  OBVIOUS
<1>1. One \in Magnitudes /\ OfNum(One) \in Positive
  BY MagnitudesAssumption, PositiveNum
<1>2. Min(Degrees) \in Degrees
  <2>1. Degrees \subseteq Nat /\ Degrees # {}
    BY SearchAssumption
  <2>2. \E k \in Degrees : \A j \in Degrees : k <= j
    BY <2>1, LeastNatural
  <2> QED
    BY <2>2 DEF Min
<1>3. TypeOK
  <2>1. Zero(FALSE) \in Positive /\ 0 \in 0 .. SearchLimit + 1
    <3>1. SearchLimit \in Nat
      BY SearchAssumption
    <3>2. 0 \in 0 .. SearchLimit + 1
      BY <3>1
    <3> QED
      BY <3>2, PositiveNum
  <2> QED
    BY <1>1, <1>2, <2>1 DEF Init, TypeOK
<1>4. Bracket /\ ResultIsNextToUnproved /\ steps <= SearchLimit /\ l = h
  BY SearchAssumption DEF Init, Bracket, Searching, ResultIsNextToUnproved
<1> QED
  BY <1>3, <1>4 DEF IInv

(* The call: both ends are the approximation.                               *)
LEMMA CallKeepsIInv ==
  ASSUME IInv, NEW s \in {"dn", "up"}, NEW d \in Positive, NEW k \in Degrees,
         NEW r \in Doubles \union {NaN}, Call(s, d, k, r)
  PROVE  IInv'
<1> DEFINE near == newton_root(d, r, k)
<1>1. near \in Positive
  BY NewtonRootIsPositive DEF Numbers
<1>2. /\ pc = "idle" /\ pc' = "first"
      /\ side' = s /\ x' = d /\ n' = k
      /\ l' = near /\ h' = near /\ step' = first_step(near)
      /\ steps' = steps /\ result' = result
  BY DEF Call
<1> HIDE DEF near
<1>3. step' \in Positive \union {Infinity} /\ Num(near) \in Int
  BY <1>1, <1>2, StepsAreNotNegative, PositiveNum
<1>4. TypeOK'
  BY <1>1, <1>2, <1>3 DEF IInv, TypeOK
<1>5. Bracket' /\ ResultIsNextToUnproved'
  BY <1>2, <1>3 DEF Bracket, ResultIsNextToUnproved, Searching
<1>6. steps' <= SearchLimit
  BY <1>2 DEF IInv
<1> QED
  BY <1>2, <1>4, <1>5, <1>6 DEF IInv

(* The first test, and the first step.                                      *)
LEMMA FirstKeepsIInv ==
  ASSUME IInv, First
  PROVE  IInv'
<1>1. /\ pc = "first" /\ side \in {"dn", "up"} /\ side' = side /\ x' = x /\ n' = n
      /\ step' = step /\ steps' = steps /\ result' = result
      /\ l \in Positive /\ h \in Positive /\ step \in NotNegative
      /\ steps <= SearchLimit /\ l = h /\ Num(l) \in Int
  BY PositiveNum DEF First, IInv, TypeOK, Bracket, Searching
<1>2. CASE side = "dn" <=> Proved(l)
  <2>1. pc' = "rise" /\ h' = Above(l, step) /\ l' = l
    BY <1>2 DEF First
  <2>2. h' \in Positive /\ Num(l') <= Num(h')
    BY <1>1, <2>1, AboveIsAbove
  <2>3. TypeOK'
    BY <1>1, <2>1, <2>2 DEF IInv, TypeOK
  <2>4. Bracket' /\ ResultIsNextToUnproved'
    BY <1>1, <1>2, <2>1, <2>2 DEF Bracket, ResultIsNextToUnproved, Searching, Proved
  <2> QED
    BY <1>1, <2>1, <2>3, <2>4 DEF IInv
<1>3. CASE ~(side = "dn" <=> Proved(l))
  <2>1. pc' = "fall" /\ l' = Below(h, step) /\ h' = h
    BY <1>3 DEF First
  <2>2. l' \in Positive /\ Num(l') <= Num(h')
    BY <1>1, <2>1, BelowIsBelow
  <2>3. TypeOK'
    BY <1>1, <2>1, <2>2 DEF IInv, TypeOK
  <2>4. Bracket' /\ ResultIsNextToUnproved'
    BY <1>1, <1>3, <2>1, <2>2 DEF Bracket, ResultIsNextToUnproved, Searching, Proved
  <2> QED
    BY <1>1, <2>1, <2>3, <2>4 DEF IInv
<1> QED
  BY <1>2, <1>3

(* The loop upward: h is now the proved end, or the unproved one.           *)
LEMMA RiseKeepsIInv ==
  ASSUME IInv, Rise
  PROVE  IInv'
<1>1. /\ pc = "rise" /\ side \in {"dn", "up"} /\ side' = side /\ x' = x /\ n' = n
      /\ x \in Positive /\ n \in Degrees
      /\ l \in Positive /\ h \in Positive /\ step \in NotNegative
      /\ steps \in Nat /\ steps <= SearchLimit /\ SearchLimit \in Nat
      /\ result \in Doubles \union {NaN}
      /\ Num(l) <= Num(h)
      /\ side = "dn" <=> Proved(l)
  BY PositiveNum, SearchAssumption DEF Rise, IInv, TypeOK, Bracket, Searching
<1>2. Twice(step) \in NotNegative
  BY <1>1, StepsAreNotNegative
<1>3. CASE (side = "dn" <=> Proved(h)) /\ (side = "dn" => Lt(h, largest))
  <2>1. l' = h /\ step' = Twice(step) /\ steps' = steps + 1
    BY <1>3 DEF Rise
  <2>2. step' \in Positive \union {Infinity} /\ steps' \in 0 .. SearchLimit + 1
    BY <1>1, <1>2, <2>1, PositiveNum
  <2>3. CASE steps' > SearchLimit
    <3>1. /\ pc' = "returned" /\ h' = h
          /\ result' = IF side = "dn" THEN l' ELSE Infinity
      BY <1>3, <2>3 DEF Rise, Return
    <3>2. TypeOK'
      BY <1>1, <2>1, <2>2, <3>1, PositiveNum DEF TypeOK, NotNegative
    <3>3. Bracket' /\ ResultIsNextToUnproved'
      BY <1>1, <1>3, <2>1, <2>3, <3>1 DEF Bracket, ResultIsNextToUnproved, Searching, Proved
    <3> QED
      BY <3>1, <3>2, <3>3 DEF IInv
  <2>4. CASE ~(steps' > SearchLimit)
    <3>1. pc' = pc /\ result' = result /\ h' = Above(l', step')
      BY <1>3, <2>4 DEF Rise
    <3>2. h' \in Positive /\ Num(l') <= Num(h')
      BY <1>1, <1>2, <2>1, <3>1, AboveIsAbove
    <3>3. TypeOK'
      BY <1>1, <2>1, <2>2, <3>1, <3>2 DEF TypeOK
    <3>4. Bracket' /\ ResultIsNextToUnproved'
      BY <1>1, <1>3, <2>1, <3>1, <3>2 DEF Bracket, ResultIsNextToUnproved, Searching, Proved
    <3>5. steps' <= SearchLimit
      BY <1>1, <2>1, <2>4
    <3> QED
      BY <1>1, <3>1, <3>3, <3>4, <3>5 DEF IInv
  <2> QED
    BY <2>3, <2>4
<1>4. CASE ~((side = "dn" <=> Proved(h)) /\ (side = "dn" => Lt(h, largest)))
  <2>1. l' = l /\ h' = h /\ step' = step /\ steps' = steps
    BY <1>4 DEF Rise
  <2>2. CASE side = "dn" /\ Leq(largest, h) /\ Proved(h)
    <3>1. pc' = "returned" /\ result' = h
      BY <1>4, <2>2 DEF Rise, Return
    <3>2. h.mag = Largest /\ ~IsInf(h)
      <4>1. Largest <= Num(h)
        BY <2>2, PositiveNum DEF Leq
      <4>2. Largest \in Int
        BY LargestMagnitude
      <4>3. Num(h) \in Int /\ Num(h) <= Largest /\ Num(h) = h.mag /\ ~IsInf(h)
        BY <1>1, PositiveNum
      <4> QED
        BY <4>1, <4>2, <4>3
    <3>3. TypeOK'
      BY <1>1, <2>1, <3>1, PositiveNum DEF TypeOK, IInv
    <3>4. Bracket' /\ ResultIsNextToUnproved'
      BY <1>1, <2>1, <2>2, <3>1, <3>2 DEF Bracket, ResultIsNextToUnproved, Searching, Proved
    <3> QED
      BY <3>1, <3>3, <3>4 DEF IInv
  <2>3. CASE ~(side = "dn" /\ Leq(largest, h) /\ Proved(h))
    <3>1. pc' = "bisect" /\ result' = result
      BY <1>4, <2>3 DEF Rise
    <3>2. side = "up" <=> Proved(h)
      <4>1. Lt(h, largest) \/ Leq(largest, h)
        BY <1>1, PositiveNum DEF Lt, Leq
      <4> QED
        BY <1>1, <1>4, <2>3, <4>1
    <3>3. TypeOK'
      BY <1>1, <2>1, <3>1 DEF TypeOK, IInv
    <3>4. Bracket' /\ ResultIsNextToUnproved'
      BY <1>1, <2>1, <3>1, <3>2 DEF Bracket, ResultIsNextToUnproved, Searching, Proved
    <3> QED
      BY <1>1, <2>1, <3>1, <3>3, <3>4 DEF IInv
  <2> QED
    BY <2>2, <2>3
<1> QED
  BY <1>3, <1>4

(* The loop downward: l is now the unproved end, or the proved one.         *)
LEMMA FallKeepsIInv ==
  ASSUME IInv, Fall
  PROVE  IInv'
<1>1. /\ pc = "fall" /\ side \in {"dn", "up"} /\ side' = side /\ x' = x /\ n' = n
      /\ x \in Positive /\ n \in Degrees
      /\ l \in Positive /\ h \in Positive /\ step \in NotNegative
      /\ steps \in Nat /\ steps <= SearchLimit /\ SearchLimit \in Nat
      /\ result \in Doubles \union {NaN}
      /\ Num(l) <= Num(h)
      /\ side = "up" <=> Proved(h)
  BY PositiveNum, SearchAssumption DEF Fall, IInv, TypeOK, Bracket, Searching
<1>2. Twice(step) \in NotNegative
  BY <1>1, StepsAreNotNegative
<1>3. CASE side = "up" <=> Proved(l)
  <2>1. h' = l /\ step' = Twice(step) /\ steps' = steps + 1
    BY <1>3 DEF Fall
  <2>2. step' \in Positive \union {Infinity} /\ steps' \in 0 .. SearchLimit + 1
    BY <1>1, <1>2, <2>1, PositiveNum
  <2>3. CASE steps' > SearchLimit
    <3>1. /\ pc' = "returned" /\ l' = l
          /\ result' = IF side = "dn" THEN Zero(FALSE) ELSE h'
      BY <1>3, <2>3 DEF Fall, Return
    <3>2. TypeOK'
      BY <1>1, <2>1, <2>2, <3>1, PositiveNum DEF TypeOK
    <3>3. Bracket' /\ ResultIsNextToUnproved'
      BY <1>1, <1>3, <2>1, <2>3, <3>1 DEF Bracket, ResultIsNextToUnproved, Searching, Proved
    <3> QED
      BY <3>1, <3>2, <3>3 DEF IInv
  <2>4. CASE ~(steps' > SearchLimit)
    <3>1. pc' = pc /\ result' = result /\ l' = Below(h', step')
      BY <1>3, <2>4 DEF Fall
    <3>2. l' \in Positive /\ Num(l') <= Num(h')
      BY <1>1, <1>2, <2>1, <3>1, BelowIsBelow
    <3>3. TypeOK'
      BY <1>1, <2>1, <2>2, <3>1, <3>2 DEF TypeOK
    <3>4. Bracket' /\ ResultIsNextToUnproved'
      BY <1>1, <1>3, <2>1, <3>1, <3>2 DEF Bracket, ResultIsNextToUnproved, Searching, Proved
    <3>5. steps' <= SearchLimit
      BY <1>1, <2>1, <2>4
    <3> QED
      BY <1>1, <3>1, <3>3, <3>4, <3>5 DEF IInv
  <2> QED
    BY <2>3, <2>4
<1>4. CASE ~(side = "up" <=> Proved(l))
  <2>1. /\ l' = l /\ h' = h /\ step' = step /\ steps' = steps
        /\ pc' = "bisect" /\ result' = result
    BY <1>4 DEF Fall
  <2>2. TypeOK'
    BY <1>1, <2>1 DEF TypeOK, IInv
  <2>3. Bracket' /\ ResultIsNextToUnproved'
    BY <1>1, <1>4, <2>1 DEF Bracket, ResultIsNextToUnproved, Searching, Proved
  <2> QED
    BY <1>1, <2>1, <2>2, <2>3 DEF IInv
<1> QED
  BY <1>3, <1>4

(* The bisection: the middle takes the place of the end it is like, and the *)
(* search ends where the ends are next to one another.                      *)
LEMMA BisectKeepsIInv ==
  ASSUME IInv, Bisect
  PROVE  IInv'
<1> DEFINE m == double_between(l, h)
<1>1. /\ pc = "bisect" /\ side \in {"dn", "up"} /\ side' = side /\ x' = x /\ n' = n
      /\ x \in Positive /\ n \in Degrees /\ step' = step
      /\ l \in Positive /\ h \in Positive /\ step \in Positive \union {Infinity}
      /\ steps \in Nat /\ steps <= SearchLimit /\ SearchLimit \in Nat
      /\ result \in Doubles \union {NaN}
      /\ Num(l) <= Num(h)
      /\ side = "dn" <=> Proved(l)
      /\ side = "up" <=> Proved(h)
  BY SearchAssumption DEF Bisect, IInv, TypeOK, Bracket, Searching
<1>2. Num(l) < Num(h)
  <2>1. l # h
    BY <1>1
  <2> QED
    BY <1>1, <2>1, PositiveNum
<1>3. \/ Lt(m, h) /\ m \in Positive /\ Num(l) <= Num(m) /\ Num(m) <= Num(h)
      \/ ~Lt(m, h) /\ next_float(l) = h
  BY <1>1, <1>2, MiddleOfBracket
<1>4. /\ steps' = IF Lt(m, h) THEN steps + 1 ELSE steps
      /\ Lt(m, h) /\ steps < SearchLimit =>
           /\ pc' = pc /\ result' = result
           /\ (side = "dn" <=> Proved(m)) => l' = m /\ h' = h
           /\ ~(side = "dn" <=> Proved(m)) => h' = m /\ l' = l
      /\ ~(Lt(m, h) /\ steps < SearchLimit) =>
           /\ pc' = "returned" /\ result' = (IF side = "dn" THEN l ELSE h)
           /\ l' = l /\ h' = h
  BY DEF Bisect, Return
<1> HIDE DEF m
<1>5. CASE Lt(m, h) /\ steps < SearchLimit
  <2>1. m \in Positive /\ Num(l) <= Num(m) /\ Num(m) <= Num(h)
    BY <1>3, <1>5
  <2>2. steps' = steps + 1 /\ steps' <= SearchLimit /\ steps' \in 0 .. SearchLimit + 1
    BY <1>1, <1>4, <1>5
  <2>3. pc' = "bisect" /\ result' = result
    BY <1>1, <1>4, <1>5
  <2>4. CASE side = "dn" <=> Proved(m)
    <3>1. l' = m /\ h' = h
      BY <1>4, <1>5, <2>4
    <3>2. TypeOK'
      BY <1>1, <2>1, <2>2, <2>3, <3>1 DEF TypeOK
    <3>3. Bracket' /\ ResultIsNextToUnproved'
      BY <1>1, <2>1, <2>3, <2>4, <3>1 DEF Bracket, ResultIsNextToUnproved, Searching, Proved
    <3> QED
      BY <2>2, <2>3, <3>2, <3>3 DEF IInv
  <2>5. CASE ~(side = "dn" <=> Proved(m))
    <3>1. h' = m /\ l' = l
      BY <1>4, <1>5, <2>5
    <3>2. TypeOK'
      BY <1>1, <2>1, <2>2, <2>3, <3>1 DEF TypeOK
    <3>3. Bracket' /\ ResultIsNextToUnproved'
      BY <1>1, <2>1, <2>3, <2>5, <3>1 DEF Bracket, ResultIsNextToUnproved, Searching, Proved
    <3> QED
      BY <2>2, <2>3, <3>2, <3>3 DEF IInv
  <2> QED
    BY <2>4, <2>5
<1>6. CASE ~(Lt(m, h) /\ steps < SearchLimit)
  <2>1. /\ pc' = "returned" /\ result' = (IF side = "dn" THEN l ELSE h)
        /\ l' = l /\ h' = h
    BY <1>4, <1>6
  <2>2. steps' \in 0 .. SearchLimit + 1
    BY <1>1, <1>4
  <2>3. TypeOK'
    BY <1>1, <2>1, <2>2, PositiveNum DEF TypeOK
  <2>4. Proved(result)' /\ ~IsInf(result')
    BY <1>1, <2>1, PositiveNum DEF Proved
  <2>5. CASE Lt(m, h)
    <3>1. steps' > SearchLimit
      BY <1>1, <1>4, <1>6, <2>5
    <3> QED
      BY <2>1, <2>3, <2>4, <3>1 DEF IInv, Bracket, ResultIsNextToUnproved, Searching
  <2>6. CASE ~Lt(m, h)
    <3>1. steps' = steps /\ next_float(l) = h
      BY <1>3, <1>4, <2>6
    <3>2. side = "dn" => ~Proved(next_float(result))'
      BY <1>1, <2>1, <3>1 DEF Proved
    <3>3. side = "up" => result' = next_float(l) /\ ~Proved(l)'
      BY <1>1, <2>1, <3>1 DEF Proved
    <3>4. ResultIsNextToUnproved'
      BY <1>1, <2>1, <2>4, <3>1, <3>2, <3>3 DEF ResultIsNextToUnproved
    <3>5. Bracket'
      BY <2>1 DEF Bracket, Searching
    <3> QED
      BY <2>1, <2>3, <3>4, <3>5 DEF IInv
  <2> QED
    BY <2>5, <2>6
<1> QED
  BY <1>5, <1>6

(* A step of the search, or of the caller.                                  *)
LEMMA SearchStep == IInv /\ [Next]_vars => IInv'
<1> SUFFICES ASSUME IInv, [Next]_vars PROVE IInv'
  OBVIOUS
<1>1. ASSUME NEW s \in {"dn", "up"}, NEW d \in Positive, NEW k \in Degrees,
             NEW r \in Doubles \union {NaN}, Call(s, d, k, r)
      PROVE  IInv'
  BY <1>1, CallKeepsIInv
<1>2. CASE First
  BY <1>2, FirstKeepsIInv
<1>3. CASE Rise
  BY <1>3, RiseKeepsIInv
<1>4. CASE Fall
  BY <1>4, FallKeepsIInv
<1>5. CASE Bisect
  BY <1>5, BisectKeepsIInv
<1>6. CASE Take
  <2>1. Init'
    BY <1>6 DEF Take, Init
  <2>2. (Init => IInv)'
    BY SearchInit, PTL
  <2> QED
    BY <2>1, <2>2
<1>7. CASE UNCHANGED vars
  BY <1>7 DEF IInv, vars, TypeOK, Bracket, ResultIsNextToUnproved, Searching, Proved
<1> QED
  BY <1>1, <1>2, <1>3, <1>4, <1>5, <1>6, <1>7 DEF Next, Search

-----------------------------------------------------------------------------
(* The search of a bound keeps a proved end and an unproved one, on their   *)
(* sides of the bracket, and returns a proved bound next to an unproved     *)
(* double: in every format, with whatever powers proved_root_dn() and       *)
(* proved_root_up() compare, any approximation and any limit.               *)
THEOREM SearchIsABracket == Spec => [](Bracket /\ ResultIsNextToUnproved)
<1>1. IInv => Bracket /\ ResultIsNextToUnproved
  BY DEF IInv
<1> QED
  BY <1>1, SearchInit, SearchStep, PTL DEF Spec

(* The same of the two ways of computing a bound together.                  *)
THEOREM SearchKeepsItsBracketAlways == MCFairRun => []SearchKeepsItsBracket
<1> DEFINE Inv == searches => IInv
<1>1. MCInit => Inv
  BY SearchInit DEF MCInit
<1>2. Inv /\ [MCNext]_<<vars, searches, ofLibrary>> => Inv'
  <2> SUFFICES ASSUME Inv, [MCNext]_<<vars, searches, ofLibrary>>, searches' PROVE IInv'
    OBVIOUS
  <2>1. searches /\ [Next]_vars
    BY DEF MCNext
  <2> QED
    BY <2>1, SearchStep
<1>3. Inv => SearchKeepsItsBracket
  BY DEF IInv, SearchKeepsItsBracket
<1> QED
  BY <1>1, <1>2, <1>3, PTL DEF MCFairRun

-----------------------------------------------------------------------------
(* A caller of a library, and a function called to nearest, restore the     *)
(* direction that was saved.                                                *)
LEMMA SavedInit == MCInit => (~searches => L!DirectionIsSaved)
  BY DEF MCInit, L!Init, L!DirectionIsSaved

LEMMA SavedStep ==
  ASSUME ~searches => L!DirectionIsSaved, [MCNext]_<<vars, searches, ofLibrary>>
  PROVE  /\ (~searches => L!DirectionIsSaved)'
         /\ [~searches => L!DirectionLeft]_L!vars
<1>1. CASE searches /\ Next /\ UNCHANGED <<searches, ofLibrary>>
  BY <1>1
<1>2. CASE ~searches /\ L!Next /\ UNCHANGED <<searches, ofSearch>>
  <2>1. L!DirectionIsSaved /\ ~searches /\ searches' = searches
    BY <1>2
  <2>2. ASSUME NEW f \in Functions, NEW s \in {"dn", "up"}, NEW e \in Values,
               L!Enter(f, s, e) \/ L!CallNearest(f, s, e)
        PROVE  L!DirectionIsSaved' /\ L!DirectionLeft
    BY <2>1, <2>2 DEF L!Enter, L!CallNearest, L!Called, L!DirectionIsSaved, L!DirectionLeft
  <2>3. ASSUME L!Compute PROVE L!DirectionIsSaved' /\ L!DirectionLeft
    BY <2>1, <2>3 DEF L!Compute, L!DirectionIsSaved, L!DirectionLeft
  <2>4. ASSUME NEW d \in L!Directions, L!Take(d)
        PROVE  L!DirectionIsSaved' /\ L!DirectionLeft
    BY <2>1, <2>4 DEF L!Take, L!DirectionIsSaved, L!DirectionLeft
  <2>5. L!DirectionIsSaved' /\ L!DirectionLeft
    BY <1>2, <2>2, <2>3, <2>4 DEF L!Next
  <2> QED
    BY <2>1, <2>5
<1>3. CASE UNCHANGED <<vars, searches, ofLibrary>>
  BY <1>3 DEF vars, ofLibrary, L!vars, L!DirectionIsSaved
<1> QED
  BY <1>1, <1>2, <1>3 DEF MCNext

(* A function of gaol:: leaves the rounding direction as it found it, or    *)
(* upward, as the library was built, and one of gaol::nearest leaves it     *)
(* alone: with whatever functions and values are called.                    *)
THEOREM LibraryLeavesTheDirectionAlways == MCFairRun => LibraryLeavesTheDirection
<1> DEFINE Inv == ~searches => L!DirectionIsSaved
<1>1. Inv /\ [MCNext]_<<vars, searches, ofLibrary>> =>
        Inv' /\ [~searches => L!DirectionLeft]_L!vars
  BY SavedStep
<1> QED
  BY <1>1, SavedInit, PTL DEF MCFairRun, LibraryLeavesTheDirection

-----------------------------------------------------------------------------
(* The format of the libraries is that of the search.                       *)
LEMMA LibraryFormat ==
  /\ L!Largest = Largest /\ L!Oo = Oo /\ L!Doubles = Doubles /\ L!NaN = NaN
  /\ L!Infinity = Infinity /\ L!MinusInfinity = MinusInfinity /\ L!FiniteNums = FiniteNums
  /\ \A z : /\ L!Num(z) = Num(z) /\ L!OfNum(z) = OfNum(z) /\ L!IsInf(z) = IsInf(z)
            /\ L!Opposite(z) = Opposite(z)
  /\ \A num, d, neg : L!RoundUp(num, d, neg) = RoundUp(num, d, neg)
  /\ \A num, d : L!RoundNearest(num, d) = RoundNearest(num, d)
  /\ \A z : L!next_float(z) = next_float(z) /\ L!previous_float(z) = previous_float(z)
<1>1. /\ L!Largest = Largest /\ L!Oo = Oo /\ L!Doubles = Doubles /\ L!NaN = NaN
      /\ L!Infinity = Infinity /\ L!MinusInfinity = MinusInfinity /\ L!FiniteNums = FiniteNums
  BY DEF L!Largest, Largest, L!Oo, Oo, L!Doubles, Doubles, L!NaN, NaN, L!Infinity, Infinity,
         L!MinusInfinity, MinusInfinity, L!Opposite, Opposite, L!FiniteNums, FiniteNums
<1>2. \A z : /\ L!Num(z) = Num(z) /\ L!OfNum(z) = OfNum(z) /\ L!IsInf(z) = IsInf(z)
             /\ L!Opposite(z) = Opposite(z)
  BY DEF L!Num, Num, L!OfNum, OfNum, L!IsInf, IsInf, L!Oo, Oo, L!Largest, Largest,
         L!Opposite, Opposite, L!NaN, NaN
<1>3. \A z, neg : L!Rounded(z, neg) = Rounded(z, neg)
  BY DEF L!Rounded, Rounded, L!Infinity, Infinity, L!Oo, Oo, L!Signed, Signed, L!Zero, Zero,
         L!OfNum, OfNum, L!Least, Least, L!LeastFrom, LeastFrom, L!FiniteNums, FiniteNums,
         L!Largest, Largest
<1>4. \A num, d, neg : L!RoundUp(num, d, neg) = RoundUp(num, d, neg)
  BY <1>3 DEF L!RoundUp, RoundUp, L!CeilingOf, CeilingOf
<1>5. \A num, d : L!RoundNearest(num, d) = RoundNearest(num, d)
  <2>1. \A q : L!Least(q) = Least(q)
    BY DEF L!Least, Least, L!LeastFrom, LeastFrom, L!FiniteNums, FiniteNums, L!Largest, Largest
  <2>2. \A q : L!FloorOf(q) = FloorOf(q)
    BY <1>1, <2>1 DEF L!FloorOf, FloorOf
  <2>3. \A m : L!NextMagnitude(m) = NextMagnitude(m)
    BY <1>1, <2>1 DEF L!NextMagnitude, NextMagnitude
  <2>4. \A m : L!Even(m) = Even(m)
    BY DEF L!Even, Even, L!Cardinality, Cardinality
  <2>5. \A num, d, b, a : L!NearestOf(num, d, b, a) = NearestOf(num, d, b, a)
    BY <1>1, <2>4 DEF L!NearestOf, NearestOf, L!IsUpper, IsUpper
  <2>6. \A num, d, b : L!NearestFrom(num, d, b) = NearestFrom(num, d, b)
    BY <2>3, <2>5 DEF L!NearestFrom, NearestFrom
  <2> QED
    BY <2>2, <2>6 DEF L!RoundNearest, RoundNearest
<1>6. \A z : L!nextafter(z) = nextafter(z)
  <2> TAKE z
  <2> DEFINE above == TRUE
  <2>1. L!Rounded(Num(z) + 1, above) = Rounded(Num(z) + 1, above)
    BY <1>3
  <2> QED
    BY <1>1, <1>2, <2>1 DEF L!nextafter, nextafter, above
<1>7. \A z : L!next_float(z) = next_float(z) /\ L!previous_float(z) = previous_float(z)
  BY <1>2, <1>6 DEF L!next_float, next_float, L!previous_float, previous_float
<1> QED
  BY <1>1, <1>2, <1>4, <1>5, <1>7

(* The magnitude below another is as near to it as the format has them.     *)
LEMMA SpacingIs ==
  ASSUME NEW m \in Magnitudes, NEW p \in Magnitudes, p < m,
         \A k \in Magnitudes : k < m => k <= p
  PROVE  m - p <= MinNormal \/ One * (m - p) <= Epsilon * p
<1>1. m \in Nat /\ p \in Nat /\ m # 0 /\ One \in Nat /\ Epsilon \in Nat /\ MinNormal \in Nat
  <2>1. Epsilon \in Magnitudes /\ MinNormal \in Magnitudes
    BY SearchAssumption
  <2>2. \A i \in Magnitudes : i \in Nat
    BY MagnitudesAssumption
  <2>3. One \in Magnitudes
    BY MagnitudesAssumption
  <2> QED
    BY <2>1, <2>2, <2>3
<1>2. PICK k \in Magnitudes :
        k < m /\ (m - k <= MinNormal \/ One * (m - k) <= Epsilon * k)
  BY <1>1, SpacingAssumption
<1>3. k \in Nat /\ k <= p
  BY <1>2, MagnitudesAssumption
<1>4. CASE m - k <= MinNormal
  BY <1>1, <1>3, <1>4
<1>5. CASE One * (m - k) <= Epsilon * k
  <2>1. PICK i \in Nat : p = k + i
    <3>1. p - k \in Nat /\ p = k + (p - k)
      BY <1>1, <1>3
    <3> QED
      BY <3>1
  <2>2. One * (m - p) = One * (m - k) - One * i /\ Epsilon * p = Epsilon * k + Epsilon * i
    BY <1>1, <1>3, <2>1
  <2>3. One * i \in Nat /\ Epsilon * i \in Nat /\ One * (m - k) \in Int /\ Epsilon * k \in Int
    BY <1>1, <1>3, <2>1
  <2> QED
    BY <1>5, <2>2, <2>3
<1> QED
  BY <1>2, <1>4, <1>5

(* The constants of the formats that libraries are used with.               *)
LEMMA FormatIs ==
  /\ One \in Nat /\ One >= 1 /\ Epsilon \in Nat /\ MinNormal \in Nat /\ MinNormal >= 1
  /\ MinNormal \in FiniteNums /\ -MinNormal \in FiniteNums
  /\ Largest \in Nat /\ Largest >= 1 /\ Largest \in Magnitudes
  /\ \A m \in Magnitudes : m \in Nat /\ m <= Largest /\ m \in FiniteNums /\ -m \in FiniteNums
  /\ \A w \in FiniteNums : w \in Int /\ (w >= 0 => w \in Magnitudes)
<1>1. Epsilon \in Magnitudes /\ MinNormal \in Magnitudes /\ MinNormal # 0
  BY SearchAssumption
<1>2. \A m \in Magnitudes : m \in Nat /\ m <= Largest /\ m \in FiniteNums /\ -m \in FiniteNums
  BY MagnitudesAssumption, LargestMagnitude, FiniteNumsRange
<1> QED
  BY <1>1, <1>2, LargestMagnitude, FiniteNumsRange

(* The double that a library returned, moved downward by a product and a    *)
(* sum rounded to nearest.                                                  *)
LEMMA ScaledIs ==
  ASSUME NEW z \in Doubles, ~IsInf(z), NEW a \in Int, NEW b \in Int
  PROVE  LET s == RoundNearest(a * Num(z), One)
             r == L!ScaledNearest(a, z, b)
         IN /\ s \in Doubles /\ r \in Doubles
            /\ IsInf(s) => r = s
            /\ ~IsInf(s) => Num(s) \in FiniteNums /\ r = RoundNearest(Num(s) + b, 1)
<1> DEFINE s == RoundNearest(a * Num(z), One)
<1>1. L!ScaledNearest(a, z, b) = IF IsInf(s) THEN s ELSE RoundNearest(Num(s) + b, 1)
  BY LibraryFormat DEF L!ScaledNearest, L!PlusNearest
<1>2. s \in Doubles
  <2>1. a * Num(z) \in Int
    BY NumOfMagnitude
  <2> QED
    BY <2>1, FormatIs, NearestIs
<1> HIDE DEF s
<1>3. ~IsInf(s) => Num(s) \in FiniteNums
  BY <1>2, FiniteOrInfinite
<1>4. Num(s) + b \in Int
  BY <1>2, NumOfMagnitude
<1>5. 1 \in Nat /\ 1 >= 1
  OBVIOUS
<1>6. RoundNearest(Num(s) + b, 1) \in Doubles
  BY <1>4, <1>5, NearestIs
<1> QED
  BY <1>1, <1>2, <1>3, <1>6 DEF s

(* round_down() reaches the double below the one it moves.                  *)
LEMMA RoundedDownIs ==
  ASSUME NEW z \in Doubles
  PROVE  /\ L!round_down(z) \in Doubles /\ L!round_down(z) # Infinity
         /\ Num(L!round_down(z)) <= Num(previous_float(z))
<1> DEFINE r == L!round_down(z)
<1> DEFINE p == Num(previous_float(z))
<1>1. /\ previous_float(z) \in Doubles /\ previous_float(z) # Infinity
      /\ p \in Int /\ p < Largest + 1 /\ -(Largest + 1) <= p
      /\ \A w \in FiniteNums : w < Num(z) <=> w <= p
      /\ previous_float(z) = MinusInfinity \/ (p \in FiniteNums /\ p < Num(z))
  <2>1. previous_float(z) \in Doubles /\ previous_float(z) # Infinity
    BY PreviousIs
  <2>2. p \in Int
    BY <2>1, NumOfMagnitude
  <2>3. previous_float(z).mag \in Magnitudes => p \in FiniteNums
    BY <2>1, FiniteOrInfinite
  <2> QED
    BY <2>1, <2>2, <2>3, PreviousIs, InfinityIs, FormatIs
<1>2. SUFFICES r \in Doubles /\ Num(r) <= p
  <2>1. r \in Doubles => Num(r) \in Int
    BY NumOfMagnitude
  <2> QED
    BY <1>1, <2>1, InfinityIs, FormatIs
<1>3. CASE z = Infinity
  <2>1. r = OfNum(Largest)
    BY <1>3, LibraryFormat DEF L!round_down
  <2>2. r \in Doubles /\ Num(r) = Largest
    BY <2>1, FormatIs, OfNumIsNum
  <2>3. Largest \in FiniteNums /\ Largest < Num(z)
    BY <1>3, FormatIs, InfinityIs
  <2> QED
    BY <1>1, <2>2, <2>3
<1>4. CASE z = MinusInfinity
  <2>1. IsInf(z) /\ z # Infinity
    BY <1>4, InfinityIs
  <2>2. r = z
    BY <2>1, LibraryFormat DEF L!round_down, L!ScaledNearest, L!PlusNearest
  <2> QED
    BY <1>1, <1>4, <2>2, InfinityIs
<1>5. CASE ~IsInf(z)
  <2> DEFINE m == z.mag
  <2> DEFINE b == -MinNormal
  <2>1. /\ m \in Magnitudes /\ z # Infinity /\ z.neg \in BOOLEAN
        /\ z.neg => Num(z) = -m
        /\ ~z.neg => Num(z) = m
        /\ b \in Int
    BY <1>5, NumOfMagnitude, FiniteOrInfinite, InfinityIs, FormatIs
  <2> DEFINE a == IF z.neg /\ m # 0 THEN One + 2 * Epsilon ELSE One - 2 * Epsilon
  <2> DEFINE s == RoundNearest(a * Num(z), One)
  <2>2. r = L!ScaledNearest(a, z, b)
    BY <2>1, LibraryFormat DEF L!round_down, L!Below0, L!small_quantity_neg, L!small_quantity_pos
  <2>3. a \in Int /\ m \in Nat /\ m <= Largest /\ Num(z) \in Int /\ a * Num(z) \in Int
    <3>1. a \in Int
      BY FormatIs
    <3>2. m \in Nat /\ m <= Largest
      BY <2>1, FormatIs
    <3>3. Num(z) \in Int
      BY NumOfMagnitude
    <3> HIDE DEF a, m
    <3> QED
      BY <3>1, <3>2, <3>3
  <2> HIDE DEF r, a, b
  <2>4. /\ s \in Doubles /\ r \in Doubles
        /\ IsInf(s) => r = s
        /\ ~IsInf(s) => Num(s) \in FiniteNums /\ r = RoundNearest(Num(s) + b, 1)
    BY <1>5, <2>1, <2>2, <2>3, ScaledIs
  <2>5. /\ \A w \in FiniteNums : /\ a * Num(z) <= One * w => Num(s) <= w
                                 /\ One * w <= a * Num(z) => w <= Num(s)
        /\ a * Num(z) <= -(One * NextMagnitude(Largest)) => s = MinusInfinity
    BY <2>3, FormatIs, NearestIs
  <2> HIDE DEF s, m
  <2>6. Num(s) \in Int /\ Num(r) \in Int /\ b = -MinNormal
    BY <2>4, NumOfMagnitude DEF b
  <2>7. ASSUME ~IsInf(s), NEW w \in FiniteNums, Num(s) + b <= w
        PROVE  Num(r) <= w
    <3>1. Num(s) + b \in Int /\ 1 \in Nat /\ 1 >= 1 /\ w \in Int
      BY <2>6, FormatIs
    <3>2. Num(s) + b <= 1 * w
      BY <2>7, <3>1
    <3> QED
      BY <2>4, <2>7, <3>1, <3>2, NearestIs
  <2>8. IsInf(s) => s = Infinity \/ r = MinusInfinity
    BY <2>4, InfinityIs
  <2>9. r = MinusInfinity => Num(r) <= p
    BY <1>1, InfinityIs
  <2>10. ASSUME NEW w \in FiniteNums, Num(s) <= w, w + b <= p, p \in FiniteNums
         PROVE  Num(r) <= p
    <3>1. ~(s = Infinity)
      BY <2>6, <2>10, InfinityIs, FormatIs
    <3>2. Num(s) + b <= p
      <4>1. w \in Int /\ b \in Int
        BY <2>6, <2>10, FormatIs
      <4> QED
        BY <1>1, <2>6, <2>10, <4>1
    <3> QED
      BY <2>7, <2>8, <2>9, <2>10, <3>1, <3>2
  <2>11. CASE m = 0
    <3>1. Num(z) = 0
      BY <2>1, <2>11, FiniteOrInfinite DEF m, IsZero
    <3>2. 0 \in FiniteNums /\ a * Num(z) = 0 /\ One * 0 = 0
      BY <2>3, <3>1, FormatIs, MagnitudesAssumption
    <3>3. Num(s) = 0
      BY <2>5, <2>6, <3>2
    <3>4. ~IsInf(s)
      BY <2>4, <2>6, <3>3, InfinityIs, FormatIs
    <3>5. Num(r) <= -MinNormal
      BY <2>6, <2>7, <3>3, <3>4, FormatIs
    <3>6. -MinNormal <= p
      BY <1>1, <3>1, FormatIs
    <3> QED
      BY <1>1, <2>4, <2>6, <3>5, <3>6, FormatIs
  <2>12. CASE ~z.neg /\ m # 0
    <3>1. Num(z) = m /\ m > 0 /\ a = One - 2 * Epsilon
      BY <2>1, <2>3, <2>12 DEF a
    <3>2. 0 \in FiniteNums /\ 0 <= p
      BY <1>1, <3>1, FormatIs, MagnitudesAssumption
    <3>3. p \in Magnitudes /\ p \in FiniteNums /\ p < m
      BY <1>1, <3>1, <3>2, FormatIs, InfinityIs
    <3>4. \A k \in Magnitudes : k < m => k <= p
      BY <1>1, <3>1, FormatIs
    <3>5. m - p <= MinNormal \/ One * (m - p) <= Epsilon * p
      BY <2>1, <3>3, <3>4, SpacingIs DEF m
    <3>6. /\ a * Num(z) = One * m - 2 * (Epsilon * m)
          /\ One * (m - p) = One * m - One * p
          /\ One * m \in Nat /\ Epsilon * m \in Nat /\ Epsilon * p \in Nat /\ One * p \in Nat
      <4>1. m \in Nat /\ p \in Nat /\ One \in Nat /\ Epsilon \in Nat
        BY <2>3, <3>3, FormatIs
      <4>2. a * Num(z) = (One - 2 * Epsilon) * m
        BY <3>1
      <4> QED
        BY <4>1, <4>2
    <3>7. Epsilon * p <= Epsilon * m
      <4>1. PICK i \in Nat : m = p + i
        <5>1. m - p \in Nat /\ m = p + (m - p)
          BY <1>1, <2>3, <3>3
        <5> QED
          BY <5>1
      <4>2. Epsilon * m = Epsilon * p + Epsilon * i /\ Epsilon * i \in Nat
        BY <1>1, <4>1, FormatIs
      <4> QED
        BY <3>6, <4>2
    <3>8. CASE m - p <= MinNormal
      <4>1. a * Num(z) <= One * m
        BY <3>6
      <4>2. m \in FiniteNums
        BY <2>1, FormatIs DEF m
      <4>4. Num(s) <= m
        BY <2>5, <4>1, <4>2
      <4>3. m + b <= p
        BY <1>1, <2>3, <2>6, <3>8, FormatIs
      <4> QED
        BY <2>4, <2>10, <3>3, <4>2, <4>3, <4>4
    <3>9. CASE One * (m - p) <= Epsilon * p
      <4>1. a * Num(z) <= One * p
        BY <3>6, <3>7, <3>9
      <4>2. Num(s) <= p
        BY <2>5, <3>3, <4>1
      <4>3. p + b <= p
        BY <1>1, <2>6, FormatIs
      <4> QED
        BY <2>4, <2>10, <3>3, <4>2, <4>3
    <3> QED
      BY <3>5, <3>8, <3>9
  <2>13. CASE z.neg /\ m # 0
    <3> DEFINE k == NextMagnitude(m)
    <3>1. Num(z) = -m /\ m > 0 /\ a = One + 2 * Epsilon /\ m \in Magnitudes
      BY <2>1, <2>3, <2>13 DEF a, m
    <3>2. /\ k \in Nat /\ m < k
          /\ m # Largest => /\ k \in Magnitudes
                            /\ \A i \in Magnitudes : m < i => k <= i
          /\ m = Largest => \E q \in Magnitudes :
                              /\ q < Largest /\ k = 2 * Largest - q
                              /\ \A i \in Magnitudes : i < Largest => i <= q
      BY <3>1, NextMagnitudeIs
    <3>3. m = Largest => k = NextMagnitude(Largest)
      OBVIOUS
    <3> HIDE DEF k
    <3>4. k - m <= MinNormal \/ One * (k - m) <= Epsilon * m
      <4>1. CASE m # Largest
        <5>1. \A i \in Magnitudes : i < k => i <= m
          BY <2>3, <3>2, <4>1, FormatIs
        <5> QED
          BY <3>1, <3>2, <4>1, <5>1, SpacingIs
      <4>2. CASE m = Largest
        <5>1. PICK q \in Magnitudes : /\ q < Largest /\ k = 2 * Largest - q
                                      /\ \A i \in Magnitudes : i < Largest => i <= q
          BY <3>2, <4>2
        <5>2. Largest - q <= MinNormal \/ One * (Largest - q) <= Epsilon * q
          BY <5>1, FormatIs, SpacingIs
        <5>3. k - m = Largest - q /\ q \in Nat
          BY <4>2, <5>1, FormatIs
        <5>4. Epsilon * q <= Epsilon * m /\ Epsilon * q \in Nat /\ Epsilon * m \in Nat
          BY <2>3, <4>2, <5>1, <5>3, FormatIs
        <5>5. One * (Largest - q) = One * (k - m) /\ One * (k - m) \in Int
          BY <2>3, <3>2, <5>3, FormatIs
        <5> QED
          BY <5>2, <5>3, <5>4, <5>5
      <4> QED
        BY <4>1, <4>2
    <3>5. /\ a * Num(z) = -(One * m) - 2 * (Epsilon * m)
          /\ One * (k - m) = One * k - One * m
          /\ One * m \in Nat /\ Epsilon * m \in Nat /\ One * k \in Nat
          /\ One * (-m) = -(One * m)
          /\ One * (-k) = -(One * k)
      BY <2>3, <3>1, <3>2, FormatIs
    <3>6. m # Largest => -k \in FiniteNums /\ -k <= p
      <4> SUFFICES ASSUME m # Largest PROVE -k \in FiniteNums /\ -k <= p
        OBVIOUS
      <4>1. -k \in FiniteNums /\ k \in Int
        BY <3>2, FormatIs
      <4>2. -k < Num(z)
        BY <2>3, <3>1, <3>2, <4>1
      <4> QED
        BY <1>1, <4>1, <4>2
    <3>7. -m \in FiniteNums /\ -m \in Int
      BY <3>1, FormatIs
    <3>8. Num(s) <= -m
      BY <2>5, <3>5, <3>7
    <3>9. ~(s = Infinity)
      BY <2>3, <2>6, <3>8, InfinityIs, FormatIs
    <3>10. IsInf(s) => Num(r) <= p
      BY <2>8, <2>9, <3>9
    <3>11. CASE k - m <= MinNormal
      <4>1. Num(s) + b <= -k
        BY <2>3, <2>6, <3>2, <3>8, <3>11, FormatIs
      <4>2. CASE m # Largest
        <5>1. ~IsInf(s) => Num(r) <= -k
          BY <2>7, <3>6, <4>1, <4>2
        <5> QED
          BY <1>1, <2>4, <2>6, <3>2, <3>6, <3>10, <4>2, <5>1
      <4>3. CASE m = Largest
        <5>1. Num(s) + b \in Int /\ 1 \in Nat /\ 1 >= 1
          BY <2>6, FormatIs
        <5>2. Num(s) + b <= -(1 * NextMagnitude(Largest))
          BY <3>2, <3>3, <4>1, <4>3
        <5>3. RoundNearest(Num(s) + b, 1) = MinusInfinity
          BY <5>1, <5>2, NearestIs
        <5> QED
          BY <2>4, <2>9, <3>10, <5>3
      <4> QED
        BY <4>2, <4>3
    <3>12. CASE One * (k - m) <= Epsilon * m
      <4>1. a * Num(z) <= -(One * k)
        BY <3>5, <3>12
      <4>2. CASE m # Largest
        <5>1. Num(s) <= -k
          BY <2>5, <3>5, <3>6, <4>1, <4>2
        <5>2. Num(s) + b <= -k
          BY <2>6, <3>2, <5>1, FormatIs
        <5>3. ~IsInf(s) => Num(r) <= -k
          BY <2>7, <3>6, <4>2, <5>2
        <5> QED
          BY <1>1, <2>4, <2>6, <3>2, <3>6, <3>10, <4>2, <5>3
      <4>3. CASE m = Largest
        <5>1. s = MinusInfinity
          BY <2>5, <3>3, <4>1, <4>3
        <5>2. IsInf(s)
          BY <5>1, InfinityIs
        <5> QED
          BY <2>4, <3>10, <5>2
      <4> QED
        BY <4>2, <4>3
    <3> QED
      BY <2>4, <3>4, <3>11, <3>12
  <2> QED
    BY <2>1, <2>11, <2>12, <2>13 DEF r, m
<1> QED
  BY <1>3, <1>4, <1>5, InfinityIs

(* round_up() is the mirror of round_down().                                *)
LEMMA RoundedUpIs ==
  ASSUME NEW z \in Doubles
  PROVE  /\ L!round_up(z) \in Doubles
         /\ Num(L!round_up(z)) = -Num(L!round_down(Opposite(z)))
<1> DEFINE o == Opposite(z)
<1>1. o \in Doubles /\ Num(o) = -Num(z) /\ o.mag = z.mag /\ o.neg = ~z.neg
  BY OppositeIsDouble
<1>2. CASE z = MinusInfinity
  <2>1. L!round_up(z) = OfNum(-Largest)
    BY <1>2, LibraryFormat DEF L!round_up
  <2>2. L!round_down(o) = OfNum(Largest)
    BY <1>2, InfinityIs, LibraryFormat DEF L!round_down
  <2>3. /\ OfNum(-Largest) \in Doubles /\ Num(OfNum(-Largest)) = -Largest
        /\ Num(OfNum(Largest)) = Largest
    BY FormatIs, OfNumIsNum
  <2> QED
    BY <2>1, <2>2, <2>3
<1>3. CASE z = Infinity
  <2>1. IsInf(z) /\ z # MinusInfinity /\ IsInf(o) /\ o # Infinity /\ o = MinusInfinity
    BY <1>3, InfinityIs
  <2>2. L!round_up(z) = z
    BY <2>1, LibraryFormat DEF L!round_up, L!ScaledNearest, L!PlusNearest
  <2>3. L!round_down(o) = o
    BY <2>1, LibraryFormat DEF L!round_down, L!ScaledNearest, L!PlusNearest
  <2>4. Num(z) = -Num(o)
    <3>1. Num(z) \in Int
      BY NumOfMagnitude
    <3> QED
      BY <1>1, <3>1
  <2> QED
    BY <2>2, <2>3, <2>4
<1>4. CASE ~IsInf(z)
  <2>1. ~IsInf(o) /\ z # MinusInfinity /\ o # Infinity
    BY <1>1, <1>4, InfinityIs DEF IsInf
  <2>2. z.neg \in BOOLEAN /\ Num(z) \in Int /\ MinNormal \in Int
    BY NumOfMagnitude, FormatIs
  <2> DEFINE a == IF z.neg /\ z.mag # 0 THEN One - 2 * Epsilon ELSE One + 2 * Epsilon
  <2> DEFINE c == IF ~z.neg /\ z.mag # 0 THEN One + 2 * Epsilon ELSE One - 2 * Epsilon
  <2>3. L!round_up(z) = L!ScaledNearest(a, z, MinNormal)
    BY <2>1, LibraryFormat DEF L!round_up, L!Below0, L!small_quantity_neg, L!small_quantity_pos
  <2>4. L!round_down(o) = L!ScaledNearest(c, o, -MinNormal)
    BY <1>1, <2>1, LibraryFormat
    DEF L!round_down, L!Below0, L!small_quantity_neg, L!small_quantity_pos
  <2>5. a \in Int /\ c \in Int
    BY FormatIs
  <2>6. z.mag # 0 => a = c
    BY <2>2
  <2> HIDE DEF a, c
  <2>7. c * Num(o) = -(a * Num(z)) /\ a * Num(z) \in Int
    <3>1. CASE z.mag # 0
      BY <1>1, <2>2, <2>5, <2>6, <3>1
    <3>2. CASE z.mag = 0
      <4>1. Num(z) = 0 /\ Num(o) = 0
        BY <1>1, <3>2, NumOfMagnitude
      <4>2. a * Num(z) = 0 /\ c * Num(o) = 0
        BY <2>5, <4>1
      <4> DEFINE v == a * Num(z)
      <4> DEFINE w == c * Num(o)
      <4>3. v = 0 /\ w = 0
        BY <4>2
      <4> HIDE DEF v, w
      <4>4. w = -v /\ v \in Int
        <5>1. v \in Int /\ w \in Int /\ v + w = 0
          BY <4>3
        <5> QED
          BY <5>1
      <4> QED
        BY <4>4 DEF v, w
    <3> QED
      BY <3>1, <3>2
  <2> DEFINE s == RoundNearest(a * Num(z), One)
  <2> DEFINE t == RoundNearest(c * Num(o), One)
  <2>8. /\ s \in Doubles /\ L!round_up(z) \in Doubles
        /\ IsInf(s) => L!round_up(z) = s
        /\ ~IsInf(s) => L!round_up(z) = RoundNearest(Num(s) + MinNormal, 1)
    BY <1>4, <2>2, <2>3, <2>5, ScaledIs
  <2>9. /\ t \in Doubles
        /\ IsInf(t) => L!round_down(o) = t
        /\ ~IsInf(t) => L!round_down(o) = RoundNearest(Num(t) + (-MinNormal), 1)
    <3>1. -MinNormal \in Int
      BY FormatIs
    <3> QED
      BY <1>1, <2>1, <2>4, <2>5, <3>1, ScaledIs
  <2>10. Num(t) = -Num(s) /\ IsInf(t) = IsInf(s)
    BY <2>7, FormatIs, NearestIs
  <2> HIDE DEF s, t
  <2>11. Num(s) \in Int
    BY <2>8, NumOfMagnitude
  <2>12. CASE IsInf(s)
    BY <2>8, <2>9, <2>10, <2>11, <2>12
  <2>13. CASE ~IsInf(s)
    <3>1. Num(t) + (-MinNormal) = -(Num(s) + MinNormal) /\ Num(s) + MinNormal \in Int
      BY <2>2, <2>10, <2>11
    <3>2. 1 \in Nat /\ 1 >= 1
      OBVIOUS
    <3> DEFINE r == RoundNearest(Num(s) + MinNormal, 1)
    <3> DEFINE q == RoundNearest(-(Num(s) + MinNormal), 1)
    <3>3. Num(q) = -Num(r) /\ r \in Doubles
      BY <3>1, <3>2, NearestIs
    <3>4. L!round_up(z) = r /\ L!round_down(o) = q
      BY <2>8, <2>9, <2>10, <2>13, <3>1
    <3> HIDE DEF r, q
    <3>5. Num(r) \in Int
      BY <3>3, NumOfMagnitude
    <3> QED
      BY <3>3, <3>4, <3>5
  <2> QED
    BY <2>8, <2>12, <2>13
<1> QED
  BY <1>2, <1>3, <1>4, InfinityIs

-----------------------------------------------------------------------------
(* The exact values: fractions, and the limits at infinity; whether a       *)
(* number of units is not above one, and not below.                         *)
Exact == {e \in [n : Int, d : Nat] : e.d = 0 => e.n \in {-1, 1}}
NotAbove(w, e) == IF e.d = 0 THEN e.n > 0 ELSE e.d * w <= e.n
NotBelow(w, e) == IF e.d = 0 THEN e.n < 0 ELSE e.n <= e.d * w

(* The opposite of a value.                                                 *)
LEMMA NegatedIs ==
  ASSUME NEW e \in Exact
  PROVE  /\ L!Negated(e) \in Exact /\ L!Negated(L!Negated(e)) = e
         /\ L!IsLimit(L!Negated(e)) = L!IsLimit(e)
         /\ L!Negated(e).d = e.d /\ L!Negated(e).n = -e.n
         /\ \A w \in Int : /\ NotBelow(-w, L!Negated(e)) <=> NotAbove(w, e)
                           /\ NotAbove(w, e) \/ NotBelow(w, e)
<1>1. e.n \in Int /\ e.d \in Nat /\ e = [n |-> e.n, d |-> e.d] /\ (e.d = 0 => e.n \in {-1, 1})
  BY DEF Exact
<1>2. L!Negated(e) = [n |-> -e.n, d |-> e.d]
  BY DEF L!Negated, L!Value
<1>3. L!Negated(e) \in Exact
  BY <1>1, <1>2 DEF Exact
<1>4. L!Negated(L!Negated(e)) = [n |-> -(-e.n), d |-> e.d] /\ -(-e.n) = e.n
  BY <1>1, <1>2 DEF L!Negated, L!Value
<1>5. L!IsLimit(L!Negated(e)) = L!IsLimit(e)
  BY <1>2 DEF L!IsLimit
<1>6. ASSUME NEW w \in Int
      PROVE  /\ NotBelow(-w, L!Negated(e)) <=> NotAbove(w, e)
             /\ NotAbove(w, e) \/ NotBelow(w, e)
  <2> DEFINE num == e.n
  <2> DEFINE d == e.d
  <2> DEFINE m == -e.n
  <2>1. /\ NotBelow(-w, L!Negated(e)) <=> IF d = 0 THEN m < 0 ELSE m <= d * (-w)
        /\ NotAbove(w, e) <=> IF d = 0 THEN num > 0 ELSE d * w <= num
        /\ NotBelow(w, e) <=> IF d = 0 THEN num < 0 ELSE num <= d * w
    BY <1>2 DEF NotAbove, NotBelow
  <2>2. num \in Int /\ d \in Nat /\ m = -num /\ (d = 0 => num \in {-1, 1})
    BY <1>1
  <2> HIDE DEF num, d, m
  <2>3. d * (-w) = -(d * w) /\ d * w \in Int
    BY <2>2
  <2> QED
    BY <2>1, <2>2, <2>3
<1>7. L!Negated(e).d = e.d /\ L!Negated(e).n = -e.n
  BY <1>2
<1> QED
  BY <1>1, <1>3, <1>4, <1>5, <1>6, <1>7

(* The value rounded upward.                                                *)
LEMMA UpIs ==
  ASSUME NEW e \in Exact
  PROVE  /\ L!Up(e) \in Doubles
         /\ \A w \in FiniteNums : NotBelow(w, e) <=> Num(L!Up(e)) <= w
         /\ e.d # 0 => L!Up(e) # MinusInfinity
         /\ e.d = 0 /\ e.n > 0 => L!Up(e) = Infinity
         /\ e.d = 0 /\ e.n < 0 => L!Up(e) = MinusInfinity
<1>1. e.n \in Int /\ e.d \in Nat /\ (e.d = 0 => e.n \in {-1, 1})
  BY DEF Exact
<1>2. CASE e.d = 0
  <2>1. L!Up(e) = OfNum(Oo * e.n)
    BY <1>2, LibraryFormat DEF L!Up, L!IsLimit
  <2>2. Oo \in Nat /\ Oo >= 1
    BY FormatIs DEF Oo
  <2>3. CASE e.n = 1
    <3>1. Oo * e.n = Oo /\ ~(Oo < 0)
      BY <2>2, <2>3
    <3>2. L!Up(e) = Infinity
      <4>1. (Oo * e.n < 0) = FALSE
        BY <3>1
      <4>2. OfNum(Oo * e.n) = [neg |-> FALSE, mag |-> Oo]
        BY <3>1, <4>1 DEF OfNum
      <4> QED
        BY <2>1, <4>2 DEF Infinity
    <3>3. \A w \in FiniteNums : ~NotBelow(w, e)
      BY <1>2, <2>3 DEF NotBelow
    <3>4. \A w \in FiniteNums : ~(Num(L!Up(e)) <= w)
      <4>1. \A w \in FiniteNums : w \in Int /\ w <= Largest
        BY FiniteNumsRange
      <4>2. Num(L!Up(e)) = Largest + 1 /\ Largest \in Int
        BY <3>2, InfinityIs, FormatIs
      <4> QED
        BY <4>1, <4>2
    <3>5. ~(e.n < 0)
      BY <2>3
    <3> QED
      BY <1>2, <3>2, <3>3, <3>4, <3>5, InfinityIs
  <2>4. CASE e.n = -1
    <3>1. Oo * e.n < 0 /\ -(Oo * e.n) = Oo
      BY <2>2, <2>4
    <3>2. L!Up(e) = [neg |-> TRUE, mag |-> Oo]
      BY <2>1, <3>1 DEF OfNum
    <3>3. L!Up(e) = MinusInfinity
      BY <3>2, InfinityIs
    <3>4. \A w \in FiniteNums : NotBelow(w, e)
      BY <1>2, <2>4 DEF NotBelow
    <3>5. \A w \in FiniteNums : Num(L!Up(e)) <= w
      <4>1. \A w \in FiniteNums : w \in Int /\ -Largest <= w
        BY FiniteNumsRange
      <4>2. Num(L!Up(e)) = -(Largest + 1) /\ Largest \in Int
        BY <3>3, InfinityIs, FormatIs
      <4> QED
        BY <4>1, <4>2
    <3>6. ~(e.n > 0)
      BY <2>4
    <3> QED
      BY <1>2, <3>3, <3>4, <3>5, <3>6, InfinityIs
  <2> QED
    BY <1>1, <1>2, <2>3, <2>4
<1>3. CASE e.d # 0
  <2> DEFINE neg == FALSE
  <2> DEFINE num == e.n
  <2> DEFINE d == e.d
  <2> DEFINE r == RoundUp(num, d, neg)
  <2>1. L!Up(e) = r /\ neg \in BOOLEAN /\ num \in Int /\ d \in Nat /\ d >= 1
    <3>1. L!Up(e) = L!RoundUp(num, d, neg)
      BY <1>3 DEF L!Up, L!IsLimit
    <3>2. neg \in BOOLEAN /\ num \in Int /\ d \in Nat /\ d >= 1
      BY <1>1, <1>3
    <3> HIDE DEF neg
    <3>3. L!RoundUp(num, d, neg) = RoundUp(num, d, neg)
      BY LibraryFormat
    <3> QED
      BY <3>1, <3>2, <3>3
  <2>2. \A w : NotBelow(w, e) <=> num <= d * w
    BY <1>3 DEF NotBelow
  <2> HIDE DEF neg, num, d
  <2>3. /\ r \in Doubles
        /\ \/ r.mag \in Magnitudes /\ Num(r) \in FiniteNums /\ num <= d * Num(r)
           \/ r = Infinity /\ num > d * Largest
        /\ \A w \in FiniteNums : num <= d * w => Num(r) <= w /\ r.mag \in Magnitudes
    <3>1. num \in Int /\ d \in Nat /\ d >= 1 /\ neg \in BOOLEAN
      BY <2>1
    <3> QED
      BY <3>1, RoundUpIsLeast
  <2> HIDE DEF r
  <2>4. r # MinusInfinity
    BY <2>3, InfinityIs
  <2>5. ASSUME NEW w \in FiniteNums, Num(r) <= w PROVE num <= d * w
    <3>1. w \in Int /\ w <= Largest /\ Num(r) \in Int
      BY <2>3, FiniteNumsRange, NumOfMagnitude
    <3>2. r # Infinity
      BY <2>5, <3>1, InfinityIs, FormatIs
    <3>3. PICK i \in Nat : w = Num(r) + i
      <4>1. w - Num(r) \in Nat /\ w = Num(r) + (w - Num(r))
        BY <2>5, <3>1
      <4> QED
        BY <4>1
    <3>4. d * w = d * Num(r) + d * i /\ d * i \in Nat /\ d * Num(r) \in Int
      BY <2>1, <3>1, <3>3
    <3> QED
      BY <2>1, <2>3, <3>2, <3>4
  <2> QED
    BY <1>3, <2>1, <2>2, <2>3, <2>4, <2>5
<1> QED
  BY <1>2, <1>3

(* The value rounded downward.                                              *)
LEMMA DownIs ==
  ASSUME NEW e \in Exact
  PROVE  /\ L!Down(e) \in Doubles
         /\ \A w \in FiniteNums : NotAbove(w, e) <=> w <= Num(L!Down(e))
         /\ e.d # 0 => L!Down(e) # Infinity
         /\ e.d = 0 /\ e.n > 0 => L!Down(e) = Infinity
         /\ e.d = 0 /\ e.n < 0 => L!Down(e) = MinusInfinity
         /\ Num(L!Down(L!Negated(e))) = -Num(L!Up(e))
         /\ Num(L!Up(L!Negated(e))) = -Num(L!Down(e))
<1> DEFINE o == L!Negated(e)
<1> DEFINE u == L!Up(o)
<1>1. /\ o \in Exact /\ L!Negated(o) = e /\ o.d = e.d /\ o.n = -e.n
      /\ e.n \in Int /\ e.d \in Nat
      /\ \A w \in Int : NotBelow(-w, o) <=> NotAbove(w, e)
  BY NegatedIs DEF Exact
<1>2. L!Down(e) = Opposite(u) /\ L!Down(o) = Opposite(L!Up(e))
  BY <1>1, LibraryFormat DEF L!Down
<1> HIDE DEF o
<1>3. /\ u \in Doubles
      /\ \A w \in FiniteNums : NotBelow(w, o) <=> Num(u) <= w
      /\ o.d # 0 => u # MinusInfinity
      /\ o.d = 0 /\ o.n > 0 => u = Infinity
      /\ o.d = 0 /\ o.n < 0 => u = MinusInfinity
  BY <1>1, UpIs
<1>4. L!Up(e) \in Doubles
  BY UpIs
<1> HIDE DEF u
<1>5. /\ Opposite(u) \in Doubles /\ Num(Opposite(u)) = -Num(u) /\ Num(u) \in Int
      /\ Num(Opposite(L!Up(e))) = -Num(L!Up(e))
  BY <1>3, <1>4, OppositeIsDouble, NumOfMagnitude
<1>6. ASSUME NEW w \in FiniteNums PROVE NotAbove(w, e) <=> w <= Num(Opposite(u))
  <2>1. w \in Int /\ -w \in FiniteNums
    BY FiniteNumsRange
  <2>2. NotBelow(-w, o) <=> Num(u) <= -w
    BY <1>3, <2>1
  <2> QED
    BY <1>1, <1>5, <2>1, <2>2
<1>7. u # MinusInfinity => Opposite(u) # Infinity
  BY <1>3, <1>5, InfinityIs, FormatIs
<1>8. /\ e.n > 0 => o.n < 0
      /\ e.n < 0 => o.n > 0
  BY <1>1
<1>9. Num(u) = -Num(L!Down(e))
  BY <1>2, <1>5
<1> QED
  BY <1>1, <1>2, <1>3, <1>5, <1>6, <1>7, <1>8, <1>9, InfinityIs DEF o, u

(* The two roundings are next to one another, around the one to nearest.    *)
LEMMA RoundingsAreNeighbours ==
  ASSUME NEW e \in Exact
  PROVE  /\ L!Nearest(e) \in Doubles
         /\ Num(L!Down(e)) <= Num(L!Nearest(e)) /\ Num(L!Nearest(e)) <= Num(L!Up(e))
         /\ Num(L!Down(e)) <= Num(L!Up(e))
         /\ Num(previous_float(L!Up(e))) <= Num(L!Down(e))
         /\ Num(L!Up(e)) <= Num(next_float(L!Down(e)))
<1> DEFINE u == L!Up(e)
<1> DEFINE d == L!Down(e)
<1> DEFINE r == L!Nearest(e)
<1>1. /\ u \in Doubles /\ d \in Doubles
      /\ \A w \in FiniteNums : NotBelow(w, e) <=> Num(u) <= w
      /\ \A w \in FiniteNums : NotAbove(w, e) <=> w <= Num(d)
      /\ e.d # 0 => u # MinusInfinity /\ d # Infinity
      /\ e.d = 0 => u = d
  <2>1. e.d = 0 => e.n > 0 \/ e.n < 0
    BY DEF Exact
  <2> QED
    BY <2>1, UpIs, DownIs
<1>2. \A w \in FiniteNums : NotAbove(w, e) \/ NotBelow(w, e)
  BY FiniteNumsRange, NegatedIs
<1>3. Num(u) \in Int /\ Num(d) \in Int
  BY <1>1, NumOfMagnitude
<1>4. r = IF e.d = 0 THEN u ELSE RoundNearest(e.n, e.d)
  BY LibraryFormat DEF L!Nearest, L!Up, L!IsLimit
<1>5. e.n \in Int /\ e.d \in Nat
  BY DEF Exact
<1> HIDE DEF u, d, r
<1>6. u.mag \in Magnitudes \/ u = Infinity \/ u = MinusInfinity
  BY <1>1, InfinityIs
<1>7. d.mag \in Magnitudes \/ d = Infinity \/ d = MinusInfinity
  BY <1>1, InfinityIs
<1>8. /\ u.mag \in Magnitudes => Num(u) \in FiniteNums
      /\ d.mag \in Magnitudes => Num(d) \in FiniteNums
  BY <1>1, FiniteOrInfinite
<1>9. /\ r \in Doubles /\ Num(d) <= Num(r) /\ Num(r) <= Num(u)
  <2>1. CASE e.d = 0
    BY <1>1, <1>3, <1>4, <2>1
  <2>2. CASE e.d # 0
    <3> DEFINE num == e.n
    <3> DEFINE k == e.d
    <3>1. num \in Int /\ k \in Nat /\ k >= 1 /\ r = RoundNearest(num, k)
      BY <1>4, <1>5, <2>2
    <3>2. \A w : /\ NotBelow(w, e) <=> num <= k * w
                 /\ NotAbove(w, e) <=> k * w <= num
      BY <2>2 DEF NotBelow, NotAbove
    <3> HIDE DEF num, k
    <3>3. /\ r \in Doubles
          /\ \A w \in FiniteNums : /\ num <= k * w => Num(r) <= w
                                   /\ k * w <= num => w <= Num(r)
      BY <3>1, NearestIs
    <3>4. /\ -(Largest + 1) <= Num(r) /\ Num(r) <= Largest + 1
      BY <3>3, InfinityIs
    <3>5. Num(d) <= Num(r)
      <4>1. CASE d = MinusInfinity
        BY <3>4, <4>1, InfinityIs
      <4>2. CASE d.mag \in Magnitudes
        BY <1>1, <1>3, <1>8, <3>2, <3>3, <4>2
      <4> QED
        BY <1>1, <1>7, <2>2, <4>1, <4>2
    <3>6. Num(r) <= Num(u)
      <4>1. CASE u = Infinity
        BY <3>4, <4>1, InfinityIs
      <4>2. CASE u.mag \in Magnitudes
        BY <1>1, <1>3, <1>8, <3>2, <3>3, <4>2
      <4> QED
        BY <1>1, <1>6, <2>2, <4>1, <4>2
    <3> QED
      BY <3>3, <3>5, <3>6
  <2> QED
    BY <2>1, <2>2
<1>10. Num(r) \in Int
  BY <1>9, NumOfMagnitude
<1> DEFINE p == previous_float(u)
<1> DEFINE q == next_float(d)
<1>11. /\ p \in Doubles
       /\ p = MinusInfinity \/ (p.mag \in Magnitudes /\ Num(p) < Num(u))
       /\ q \in Doubles
       /\ q = Infinity \/ (q.mag \in Magnitudes /\ Num(d) < Num(q))
  BY <1>1, PreviousIs, NextIs
<1> HIDE DEF p, q
<1>12. /\ Num(p) \in Int /\ Num(q) \in Int
       /\ p.mag \in Magnitudes => Num(p) \in FiniteNums
       /\ q.mag \in Magnitudes => Num(q) \in FiniteNums
  BY <1>11, NumOfMagnitude, FiniteOrInfinite
<1>13. Num(p) <= Num(d)
  BY <1>1, <1>2, <1>3, <1>11, <1>12, InfinityIs
<1>14. Num(u) <= Num(q)
  BY <1>1, <1>2, <1>3, <1>11, <1>12, InfinityIs
<1>15. Num(d) <= Num(u)
  BY <1>3, <1>9, <1>10
<1> QED
  BY <1>9, <1>13, <1>14, <1>15 DEF u, d, r, p, q

(* A double at or below the value rounded downward is at most the value.    *)
LEMMA AtMostIs ==
  ASSUME NEW e \in Exact, NEW z \in Doubles, Num(z) <= Num(L!Down(e))
  PROVE  L!AtMost(z, e)
<1> DEFINE d == L!Down(e)
<1>1. /\ d \in Doubles
      /\ \A w \in FiniteNums : NotAbove(w, e) <=> w <= Num(d)
      /\ e.d # 0 => d # Infinity
      /\ e.d = 0 /\ e.n < 0 => d = MinusInfinity
  BY DownIs
<1>2. e.n \in Int /\ e.d \in Nat /\ (e.d = 0 => e.n > 0 \/ e.n < 0)
  BY DEF Exact
<1>3. z # NaN /\ Num(z) \in Int /\ Num(d) \in Int
  BY <1>1, FiniteOrInfinite, NumOfMagnitude
<1>4. L!AtMost(z, e) <=>
        \/ z = MinusInfinity
        \/ IF e.d = 0 THEN e.n > 0 /\ z # NaN
           ELSE z # NaN /\ ~IsInf(z) /\ Num(z) <= e.n \div e.d
  BY LibraryFormat DEF L!AtMost, L!IsLimit
<1> HIDE DEF d
<1>5. CASE e.d = 0
  <2>1. CASE e.n > 0
    BY <1>3, <1>4, <1>5, <2>1
  <2>2. CASE e.n < 0
    <3>1. Num(d) = -(Largest + 1) /\ -(Largest + 1) <= Num(z)
      BY <1>1, <1>5, <2>2, InfinityIs
    <3>2. Num(z) = -(Largest + 1)
      BY <1>3, <3>1, FormatIs DEF d
    <3> QED
      BY <1>4, <3>2, InfinityIs
  <2> QED
    BY <1>2, <1>5, <2>1, <2>2
<1>6. CASE e.d # 0 /\ z # MinusInfinity
  <2>1. Num(d) <= Largest + 1 /\ Num(d) # Largest + 1
    BY <1>1, <1>6, InfinityIs
  <2>2. z # Infinity
    <3>1. z = Infinity => Num(z) = Largest + 1
      BY InfinityIs
    <3> QED
      BY <1>3, <2>1, <3>1, FormatIs DEF d
  <2>3. ~IsInf(z) /\ z.mag \in Magnitudes
    BY <1>6, <2>2, InfinityIs
  <2>4. Num(z) \in FiniteNums
    BY <2>3, FiniteOrInfinite
  <2>5. NotAbove(Num(z), e)
    BY <1>1, <2>4 DEF d
  <2> DEFINE num == e.n
  <2> DEFINE k == e.d
  <2> DEFINE v == Num(z)
  <2>6. k * v <= num
    BY <1>6, <2>5 DEF NotAbove
  <2>7. num \in Int /\ k \in Nat /\ k >= 1 /\ v \in Int
    BY <1>2, <1>3, <1>6
  <2> HIDE DEF num, k, v
  <2> DEFINE t == num \div k
  <2>8. t \in Int /\ k * t <= num /\ num < k * t + k
    BY <2>7
  <2> HIDE DEF t
  <2>9. v <= t
    <3>1. v >= t + 1 => k * v >= k * t + k
      BY <2>7, <2>8
    <3>2. k * v \in Int /\ k * t \in Int
      BY <2>7, <2>8
    <3> QED
      BY <2>6, <2>7, <2>8, <3>1, <3>2
  <2>10. Num(z) <= e.n \div e.d
    BY <2>9 DEF num, k, v, t
  <2> QED
    BY <1>3, <1>4, <1>6, <2>3, <2>10
<1> QED
  BY <1>4, <1>5, <1>6

(* A double at or above the value rounded upward is at least the value.     *)
LEMMA AtLeastIs ==
  ASSUME NEW e \in Exact, NEW z \in Doubles, Num(L!Up(e)) <= Num(z)
  PROVE  L!AtLeast(z, e)
<1>1. Opposite(z) \in Doubles /\ Num(Opposite(z)) = -Num(z) /\ Num(z) \in Int
  BY OppositeIsDouble, NumOfMagnitude
<1>2. L!Negated(e) \in Exact /\ Num(L!Down(L!Negated(e))) = -Num(L!Up(e))
  BY NegatedIs, DownIs
<1>3. L!Up(e) \in Doubles /\ Num(L!Up(e)) \in Int
  BY UpIs, NumOfMagnitude
<1>4. Num(Opposite(z)) <= Num(L!Down(L!Negated(e)))
  BY <1>1, <1>2, <1>3
<1>5. L!AtMost(Opposite(z), L!Negated(e))
  BY <1>1, <1>2, <1>4, AtMostIs
<1> QED
  BY <1>5, LibraryFormat DEF L!AtLeast

(* The moves of two doubles.                                                *)
Next2(z) == next_float(next_float(z))
Previous2(z) == previous_float(previous_float(z))

(* Whether x is as near to e as what a libm returns of it: less than one    *)
(* double, or two, from it.                                                 *)
WithinOne(z, e) ==
  /\ Num(previous_float(L!Down(e))) <= Num(z) /\ Num(z) <= Num(next_float(L!Up(e)))
  /\ Num(previous_float(z)) <= Num(L!Down(e)) /\ Num(L!Up(e)) <= Num(next_float(z))
WithinTwo(z, e) ==
  /\ Num(Previous2(L!Down(e))) <= Num(z) /\ Num(z) <= Num(Next2(L!Up(e)))
  /\ Num(Previous2(z)) <= Num(L!Down(e)) /\ Num(L!Up(e)) <= Num(Next2(z))

(* A double that is moved goes on its side, and stays a double.             *)
LEMMA MovedAre ==
  ASSUME NEW z \in Doubles
  PROVE  /\ previous_float(z) \in Doubles /\ next_float(z) \in Doubles
         /\ Previous2(z) \in Doubles /\ Next2(z) \in Doubles
         /\ Num(z) \in Int /\ Num(previous_float(z)) \in Int /\ Num(next_float(z)) \in Int
         /\ Num(Previous2(z)) \in Int /\ Num(Next2(z)) \in Int
         /\ Num(Previous2(z)) <= Num(previous_float(z)) /\ Num(previous_float(z)) <= Num(z)
         /\ Num(z) <= Num(next_float(z)) /\ Num(next_float(z)) <= Num(Next2(z))
<1>1. previous_float(z) \in Doubles /\ next_float(z) \in Doubles
  BY PreviousIs, NextIs
<1>2. Previous2(z) \in Doubles /\ Next2(z) \in Doubles
  BY <1>1, PreviousIs, NextIs DEF Previous2, Next2
<1>3. /\ Num(z) \in Int /\ Num(previous_float(z)) \in Int /\ Num(next_float(z)) \in Int
      /\ Num(Previous2(z)) \in Int /\ Num(Next2(z)) \in Int
  BY <1>1, <1>2, NumOfMagnitude
<1>4. /\ Num(previous_float(z)) <= Num(z) /\ Num(z) <= Num(next_float(z))
  BY <1>3, PreviousIsMonotonic, NextIsMonotonic
<1>5. Num(Previous2(z)) <= Num(previous_float(z))
  BY <1>1, <1>3, PreviousIsMonotonic DEF Previous2
<1>6. Num(next_float(z)) <= Num(Next2(z))
  BY <1>1, <1>3, NextIsMonotonic DEF Next2
<1> QED
  BY <1>1, <1>2, <1>3, <1>4, <1>5, <1>6

(* What a libm returns.                                                     *)
LEMMA LibmIs ==
  ASSUME NEW e \in Exact
  PROVE  /\ \A z \in L!libm(e, 1) : z \in Doubles /\ WithinOne(z, e)
         /\ \A z \in L!libm(e, 2) : z \in Doubles /\ WithinTwo(z, e)
<1> DEFINE u == L!Up(e)
<1> DEFINE d == L!Down(e)
<1>1. /\ u \in Doubles /\ d \in Doubles
      /\ Num(d) <= Num(u)
      /\ Num(previous_float(u)) <= Num(d) /\ Num(u) <= Num(next_float(d))
  BY UpIs, DownIs, RoundingsAreNeighbours
<1>2. \A z : WithinOne(z, e) <=>
        /\ Num(previous_float(d)) <= Num(z) /\ Num(z) <= Num(next_float(u))
        /\ Num(previous_float(z)) <= Num(d) /\ Num(u) <= Num(next_float(z))
  BY DEF WithinOne
<1>3. \A z : WithinTwo(z, e) <=>
        /\ Num(Previous2(d)) <= Num(z) /\ Num(z) <= Num(Next2(u))
        /\ Num(Previous2(z)) <= Num(d) /\ Num(u) <= Num(Next2(z))
  BY DEF WithinTwo
<1> DEFINE N == {previous_float(u), d, u, next_float(d)}
<1>4. /\ L!libm(e, 1) = IF e.d = 0 THEN {L!Nearest(e)} ELSE N
      /\ L!libm(e, 2) = IF e.d = 0 THEN {L!Nearest(e)}
                        ELSE N \union {next_float(z) : z \in N} \union {previous_float(z) : z \in N}
  <2>1. L!Near(d, u) = N
    BY LibraryFormat DEF L!Near
  <2>2. L!Around(N) = N \union {next_float(z) : z \in N} \union {previous_float(z) : z \in N}
    BY LibraryFormat DEF L!Around
  <2> HIDE DEF N
  <2> QED
    BY <2>1, <2>2 DEF L!libm, L!IsLimit
<1>5. L!Nearest(e) \in Doubles /\ Num(d) <= Num(L!Nearest(e)) /\ Num(L!Nearest(e)) <= Num(u)
  BY RoundingsAreNeighbours
<1> HIDE DEF u, d
<1>6. ASSUME NEW z \in Doubles, Num(d) <= Num(z), Num(z) <= Num(u) PROVE WithinOne(z, e)
  <2>1. /\ Num(previous_float(z)) <= Num(previous_float(u))
        /\ Num(next_float(d)) <= Num(next_float(z))
    BY <1>1, <1>6, PreviousIsMonotonic, NextIsMonotonic
  <2>2. previous_float(z) \in Doubles /\ next_float(z) \in Doubles
    BY MovedAre
  <2>3. /\ Num(z) \in Int /\ Num(d) \in Int /\ Num(u) \in Int
        /\ Num(previous_float(z)) \in Int /\ Num(next_float(z)) \in Int
        /\ Num(previous_float(u)) \in Int /\ Num(next_float(d)) \in Int
        /\ Num(previous_float(d)) \in Int /\ Num(previous_float(d)) <= Num(d)
        /\ Num(next_float(u)) \in Int /\ Num(u) <= Num(next_float(u))
    BY <1>1, MovedAre
  <2> QED
    BY <1>1, <1>2, <1>6, <2>1, <2>3
<1>7. ASSUME NEW z \in N PROVE z \in Doubles /\ WithinOne(z, e)
  <2>1. /\ Num(d) \in Int /\ Num(u) \in Int
        /\ previous_float(u) \in Doubles /\ next_float(d) \in Doubles
        /\ Num(previous_float(u)) \in Int /\ Num(next_float(d)) \in Int
        /\ Num(previous_float(d)) \in Int /\ Num(previous_float(d)) <= Num(d)
        /\ Num(next_float(u)) \in Int /\ Num(u) <= Num(next_float(u))
        /\ Num(previous_float(u)) <= Num(u) /\ Num(d) <= Num(next_float(d))
    BY <1>1, MovedAre
  <2>2. CASE z = previous_float(u)
    <3>1. Num(previous_float(d)) <= Num(z)
      BY <1>1, <2>2, PreviousIsMonotonic
    <3>2. Num(u) <= Num(next_float(z))
      BY <1>1, <2>2, BackIsNear
    <3>3. Num(previous_float(z)) <= Num(z) /\ Num(previous_float(z)) \in Int
      BY <2>1, <2>2, MovedAre
    <3> QED
      BY <1>1, <1>2, <2>1, <2>2, <3>1, <3>2, <3>3
  <2>3. CASE z = next_float(d)
    <3>1. Num(z) <= Num(next_float(u))
      BY <1>1, <2>3, NextIsMonotonic
    <3>2. Num(previous_float(z)) <= Num(d)
      BY <1>1, <2>3, BackIsNear
    <3>3. Num(z) <= Num(next_float(z)) /\ Num(next_float(z)) \in Int
      BY <2>1, <2>3, MovedAre
    <3> QED
      BY <1>1, <1>2, <2>1, <2>3, <3>1, <3>2, <3>3
  <2>4. CASE z = d \/ z = u
    BY <1>1, <1>6, <2>1, <2>4
  <2> QED
    BY <1>7, <2>2, <2>3, <2>4
<1>8. ASSUME NEW z \in Doubles, WithinOne(z, e)
      PROVE  /\ WithinTwo(z, e)
             /\ next_float(z) \in Doubles /\ WithinTwo(next_float(z), e)
             /\ previous_float(z) \in Doubles /\ WithinTwo(previous_float(z), e)
  <2> DEFINE q == next_float(z)
  <2> DEFINE p == previous_float(z)
  <2>1. /\ Num(previous_float(d)) <= Num(z) /\ Num(z) <= Num(next_float(u))
        /\ Num(p) <= Num(d) /\ Num(u) <= Num(q)
    BY <1>2, <1>8
  <2>2. /\ q \in Doubles /\ p \in Doubles
        /\ Num(z) \in Int /\ Num(q) \in Int /\ Num(p) \in Int
        /\ Num(p) <= Num(z) /\ Num(z) <= Num(q)
        /\ Num(Previous2(z)) \in Int /\ Num(Next2(z)) \in Int
        /\ Num(Previous2(z)) <= Num(p) /\ Num(q) <= Num(Next2(z))
    BY MovedAre
  <2>3. /\ Num(d) \in Int /\ Num(u) \in Int /\ next_float(u) \in Doubles /\ previous_float(d) \in Doubles
        /\ Num(previous_float(d)) \in Int /\ Num(next_float(u)) \in Int
        /\ Num(Previous2(d)) \in Int /\ Num(Next2(u)) \in Int
        /\ Num(Previous2(d)) <= Num(previous_float(d)) /\ Num(next_float(u)) <= Num(Next2(u))
    BY <1>1, MovedAre
  <2>4. WithinTwo(z, e)
    BY <1>3, <2>1, <2>2, <2>3
  <2>5. WithinTwo(q, e)
    <3>1. Num(q) <= Num(Next2(u))
      BY <2>1, <2>3, NextIsMonotonic DEF Next2
    <3>2. Num(previous_float(q)) <= Num(z) /\ previous_float(q) \in Doubles
      BY <2>2, BackIsNear, MovedAre
    <3>3. Num(Previous2(q)) <= Num(p)
      BY <3>2, PreviousIsMonotonic DEF Previous2
    <3>4. /\ Num(Previous2(q)) \in Int /\ Num(Next2(q)) \in Int /\ Num(next_float(q)) \in Int
          /\ Num(q) <= Num(next_float(q)) /\ Num(next_float(q)) <= Num(Next2(q))
      BY <2>2, MovedAre
    <3> HIDE DEF q, p
    <3> QED
      BY <1>3, <2>1, <2>2, <2>3, <3>1, <3>3, <3>4
  <2>6. WithinTwo(p, e)
    <3>1. Num(Previous2(d)) <= Num(p)
      BY <2>1, <2>3, PreviousIsMonotonic DEF Previous2
    <3>2. Num(z) <= Num(next_float(p)) /\ next_float(p) \in Doubles
      BY <2>2, BackIsNear, MovedAre
    <3>3. Num(q) <= Num(Next2(p))
      BY <3>2, NextIsMonotonic DEF Next2
    <3>4. /\ Num(Previous2(p)) \in Int /\ Num(Next2(p)) \in Int /\ Num(previous_float(p)) \in Int
          /\ Num(Previous2(p)) <= Num(previous_float(p)) /\ Num(previous_float(p)) <= Num(p)
      BY <2>2, MovedAre
    <3> HIDE DEF q, p
    <3> QED
      BY <1>3, <2>1, <2>2, <2>3, <3>1, <3>3, <3>4
  <2> QED
    BY <2>2, <2>4, <2>5, <2>6
<1>9. WithinOne(L!Nearest(e), e)
  BY <1>5, <1>6
<1> HIDE DEF N
<1>10. \A z \in L!libm(e, 1) : z \in Doubles /\ WithinOne(z, e)
  BY <1>4, <1>5, <1>7, <1>9
<1>11. ASSUME NEW z \in L!libm(e, 2) PROVE z \in Doubles /\ WithinTwo(z, e)
  <2>1. CASE z = L!Nearest(e)
    BY <1>5, <1>8, <1>9, <2>1
  <2>2. CASE z \in N
    BY <1>7, <1>8, <2>2
  <2>3. CASE \E y \in N : z = next_float(y) \/ z = previous_float(y)
    BY <1>7, <1>8, <2>3
  <2> QED
    BY <1>4, <1>11, <2>1, <2>2, <2>3
<1> QED
  BY <1>10, <1>11

-----------------------------------------------------------------------------
(* The moves of three doubles of the atan2 of CRlibm.                       *)
LEMMA LibmMovesAre ==
  \A z : /\ L!gaol_libm_dn(z) = previous_float(Previous2(z))
         /\ L!gaol_libm_up(z) = next_float(Next2(z))
  BY LibraryFormat DEF L!gaol_libm_dn, L!gaol_libm_up, Previous2, Next2

(* The functions that CRlibm takes from CORE-MATH, rounded to nearest.      *)
Nearests == {"nthroot", "tanh", "acosh", "asinh", "atanh"}

(* A bound of the function f of a library: at most the value rounded        *)
(* downward and as near to it as the library says, and the mirror of it.    *)
LowerOf(lib, f, e, r) ==
  /\ r \in Doubles /\ r # Infinity /\ Num(r) <= Num(L!Down(e))
  /\ lib = "crlibm" /\ f = "exp" => r = L!Down(e)
  /\ lib = "crlibm" /\ f = "atan2" =>
       Num(previous_float(Previous2(Previous2(L!Down(e))))) <= Num(r)
  /\ lib # "m" /\ ~(lib = "crlibm" /\ f = "atan2") =>
       r = L!Down(e) \/ Num(previous_float(L!Down(e))) <= Num(r)

UpperOf(lib, f, e, r) ==
  /\ r \in Doubles /\ r # MinusInfinity /\ Num(L!Up(e)) <= Num(r)
  /\ lib = "crlibm" /\ f = "exp" => r = L!Up(e)
  /\ lib = "crlibm" /\ f = "atan2" =>
       Num(r) <= Num(next_float(Next2(Next2(L!Up(e)))))
  /\ lib # "m" /\ ~(lib = "crlibm" /\ f = "atan2") =>
       r = L!Up(e) \/ Num(r) <= Num(next_float(L!Up(e)))

(* The value rounded to nearest, and moved by one double.                   *)
LEMMA NearestMoved ==
  ASSUME NEW e \in Exact
  PROVE  /\ LET r == previous_float(L!Nearest(e)) IN
              /\ r \in Doubles /\ r # Infinity /\ Num(r) <= Num(L!Down(e))
              /\ Num(previous_float(L!Down(e))) <= Num(r)
         /\ LET r == next_float(L!Nearest(e)) IN
              /\ r \in Doubles /\ r # MinusInfinity /\ Num(L!Up(e)) <= Num(r)
              /\ Num(r) <= Num(next_float(L!Up(e)))
<1> DEFINE d == L!Down(e)
<1> DEFINE u == L!Up(e)
<1> DEFINE c == L!Nearest(e)
<1>1. /\ u \in Doubles /\ d \in Doubles /\ c \in Doubles
      /\ Num(d) <= Num(c) /\ Num(c) <= Num(u)
      /\ Num(previous_float(u)) <= Num(d) /\ Num(u) <= Num(next_float(d))
  BY UpIs, DownIs, RoundingsAreNeighbours
<1> HIDE DEF u, d, c
<1>2. /\ previous_float(c) \in Doubles /\ previous_float(c) # Infinity
      /\ next_float(c) \in Doubles /\ next_float(c) # MinusInfinity
  BY <1>1, PreviousIs, NextIs
<1>3. /\ Num(previous_float(c)) \in Int /\ Num(next_float(c)) \in Int
      /\ Num(previous_float(u)) \in Int /\ Num(next_float(d)) \in Int
      /\ Num(u) \in Int /\ Num(d) \in Int
  BY <1>1, MovedAre
<1>4. Num(previous_float(c)) <= Num(previous_float(u)) /\ Num(previous_float(d)) <= Num(previous_float(c))
  BY <1>1, PreviousIsMonotonic
<1>5. Num(next_float(d)) <= Num(next_float(c)) /\ Num(next_float(c)) <= Num(next_float(u))
  BY <1>1, NextIsMonotonic
<1>6. Num(previous_float(c)) <= Num(d) /\ Num(u) <= Num(next_float(c))
  BY <1>1, <1>3, <1>4, <1>5
<1> QED
  BY <1>2, <1>4, <1>5, <1>6 DEF u, d, c

(* A value, and one farther by two doubles, moved by three.                 *)
LEMMA LibmMoved ==
  ASSUME NEW e \in Exact, NEW z \in Doubles, WithinTwo(z, e)
  PROVE  /\ LET r == previous_float(Previous2(z)) IN
              /\ r \in Doubles /\ r # Infinity /\ Num(r) <= Num(L!Down(e))
              /\ Num(previous_float(Previous2(Previous2(L!Down(e))))) <= Num(r)
         /\ LET r == next_float(Next2(z)) IN
              /\ r \in Doubles /\ r # MinusInfinity /\ Num(L!Up(e)) <= Num(r)
              /\ Num(r) <= Num(next_float(Next2(Next2(L!Up(e)))))
<1> DEFINE d == Previous2(L!Down(e))
<1> DEFINE u == Next2(L!Up(e))
<1>1. /\ L!Down(e) \in Doubles /\ L!Up(e) \in Doubles /\ d \in Doubles /\ u \in Doubles
      /\ Num(d) <= Num(z) /\ Num(z) <= Num(u)
      /\ Num(Previous2(z)) <= Num(L!Down(e)) /\ Num(L!Up(e)) <= Num(Next2(z))
  BY UpIs, DownIs, MovedAre DEF WithinTwo
<1> HIDE DEF d, u
<1>2. /\ Previous2(z) \in Doubles /\ Next2(z) \in Doubles
      /\ previous_float(z) \in Doubles /\ next_float(z) \in Doubles
      /\ previous_float(d) \in Doubles /\ next_float(u) \in Doubles
      /\ Previous2(d) \in Doubles /\ Next2(u) \in Doubles
  BY <1>1, MovedAre
<1> DEFINE r == previous_float(Previous2(z))
<1> DEFINE q == next_float(Next2(z))
<1>3. r \in Doubles /\ r # Infinity /\ q \in Doubles /\ q # MinusInfinity
  BY <1>2, PreviousIs, NextIs
<1>4. Num(r) <= Num(Previous2(z)) /\ Num(Next2(z)) <= Num(q)
  BY <1>2, MovedAre
<1>5. /\ Num(r) \in Int /\ Num(q) \in Int /\ Num(Previous2(z)) \in Int /\ Num(Next2(z)) \in Int
      /\ Num(L!Down(e)) \in Int /\ Num(L!Up(e)) \in Int
  BY <1>1, <1>2, <1>3, NumOfMagnitude
<1>6. Num(previous_float(d)) <= Num(previous_float(z)) /\ Num(next_float(z)) <= Num(next_float(u))
  BY <1>1, PreviousIsMonotonic, NextIsMonotonic
<1>7. Num(Previous2(d)) <= Num(Previous2(z)) /\ Num(Next2(z)) <= Num(Next2(u))
  BY <1>2, <1>6, PreviousIsMonotonic, NextIsMonotonic DEF Previous2, Next2
<1>8. Num(previous_float(Previous2(d))) <= Num(r) /\ Num(q) <= Num(next_float(Next2(u)))
  BY <1>2, <1>7, PreviousIsMonotonic, NextIsMonotonic
<1>9. Num(r) <= Num(L!Down(e)) /\ Num(L!Up(e)) <= Num(q)
  <2> HIDE DEF r, q
  <2> QED
    BY <1>1, <1>4, <1>5
<1> QED
  BY <1>3, <1>8, <1>9 DEF d, u

(* The limits that a function meets, rounded in a direction.                *)
LEMMA LimitsAre ==
  ASSUME NEW e \in Exact, NEW f
  PROVE  /\ L!Met(f, "dn", e) /\ f \notin Nearests => L!Down(e) # Infinity
         /\ L!Met(f, "up", e) /\ f \notin Nearests =>
              L!Up(e) # MinusInfinity \/ (f = "log" /\ e = L!Limit(TRUE))
         /\ Num(L!Up(L!Limit(TRUE))) = -(Largest + 1)
<1> DEFINE low == L!Limit(TRUE)
<1> DEFINE high == L!Limit(FALSE)
<1>1. low = [n |-> -1, d |-> 0] /\ high = [n |-> 1, d |-> 0]
  BY DEF L!Limit, L!Value
<1> DEFINE Meets(limit) ==
      (f = "log" /\ e = low) \/ f = "atanh" \/ (f \notin {"log", "atan2"} /\ e = limit)
<1>2. /\ L!Met(f, "dn", e) <=> (e.d = 0 => Meets(low))
      /\ L!Met(f, "up", e) <=> (e.d = 0 => Meets(high))
  <2>1. L!Limit("dn" = "dn") = low /\ L!Limit("up" = "dn") = high
    BY DEF L!Limit, L!Value
  <2>2. \A s : L!Met(f, s, e) <=> (e.d = 0 => Meets(L!Limit(s = "dn")))
    BY Zenon DEF L!Met, L!IsLimit
  <2> HIDE DEF low, high
  <2> QED
    BY <2>1, <2>2, Zenon
<1> HIDE DEF low, high
<1>3. L!Met(f, "dn", e) /\ f \notin Nearests /\ e.d = 0 => e.n < 0
  BY <1>1, <1>2 DEF Nearests
<1>4. L!Met(f, "up", e) /\ f \notin Nearests /\ e.d = 0 /\ ~(f = "log" /\ e = low) => e.n > 0
  BY <1>1, <1>2 DEF Nearests
<1>5. /\ e.d # 0 => L!Down(e) # Infinity /\ L!Up(e) # MinusInfinity
      /\ e.d = 0 /\ e.n < 0 => L!Down(e) = MinusInfinity
      /\ e.d = 0 /\ e.n > 0 => L!Up(e) = Infinity
  BY UpIs, DownIs
<1>6. Infinity # MinusInfinity
  BY InfinityIs
<1>7. low \in Exact /\ low.d = 0 /\ low.n < 0
  BY <1>1 DEF Exact
<1>8. L!Up(low) = MinusInfinity
  BY <1>7, UpIs
<1>9. Num(L!Up(low)) = -(Largest + 1)
  BY <1>8, InfinityIs
<1>10. e.d \in Nat /\ e.n \in Int
  BY DEF Exact
<1>11. L!Met(f, "dn", e) /\ f \notin Nearests => L!Down(e) # Infinity
  BY <1>3, <1>5, <1>6
<1>12. L!Met(f, "up", e) /\ f \notin Nearests => L!Up(e) # MinusInfinity \/ (f = "log" /\ e = low)
  BY <1>4, <1>5, <1>6
<1> QED
  BY <1>9, <1>11, <1>12 DEF low

(* The lower bounds of a library.                                           *)
LEMMA LowerBoundIs ==
  ASSUME NEW lib \in L!Libraries, NEW f, NEW e \in Exact, L!Met(f, "dn", e),
         NEW r \in L!dn(lib, f, e)
  PROVE  LowerOf(lib, f, e, r)
<1> DEFINE d == L!Down(e)
<1>1. d \in Doubles
  BY DownIs
<1>2. CASE lib = "m"
  <2>1. L!dn(lib, f, e) = {L!round_down(z) : z \in L!libm(e, 1)}
    BY <1>2 DEF L!dn, L!m_dn
  <2>2. PICK z \in L!libm(e, 1) : r = L!round_down(z)
    BY <2>1
  <2>3. z \in Doubles /\ Num(previous_float(z)) <= Num(d)
    BY <2>2, LibmIs DEF WithinOne
  <2>4. r \in Doubles /\ r # Infinity /\ Num(r) <= Num(previous_float(z))
    BY <2>2, <2>3, RoundedDownIs
  <2>5. Num(r) \in Int /\ Num(previous_float(z)) \in Int /\ Num(d) \in Int
    BY <1>1, <2>3, <2>4, MovedAre
  <2>6. Num(r) <= Num(d)
    BY <2>3, <2>4, <2>5
  <2> QED
    BY <1>2, <2>4, <2>6 DEF LowerOf
<1>3. CASE r = previous_float(L!Nearest(e)) /\ lib # "m" /\ (lib = "apmathlib" \/ f \in Nearests)
  <2>1. /\ r \in Doubles /\ r # Infinity /\ Num(r) <= Num(d)
        /\ Num(previous_float(d)) <= Num(r)
    BY <1>3, NearestMoved
  <2>2. ~(lib = "crlibm" /\ f \in {"exp", "atan2"})
    BY <1>3 DEF Nearests
  <2> QED
    BY <1>3, <2>1, <2>2 DEF LowerOf
<1>4. CASE lib = "apmathlib"
  <2>1. L!dn(lib, f, e) = {previous_float(L!Nearest(e))}
    BY <1>4, LibraryFormat DEF L!dn, L!apmathlib_dn
  <2> QED
    BY <1>3, <1>4, <2>1
<1>5. CASE lib = "crlibm"
  <2>1. L!dn(lib, f, e) = L!crlibm_dn(f, e)
    BY <1>5 DEF L!dn
  <2>2. CASE f \in Nearests
    <3>1. L!crlibm_dn(f, e) = {previous_float(L!Nearest(e))}
      BY <2>2, LibraryFormat DEF L!crlibm_dn, Nearests
    <3> QED
      BY <1>3, <1>5, <2>1, <2>2, <3>1
  <2>3. CASE f = "atan2"
    <3>1. L!crlibm_dn(f, e) = {L!gaol_libm_dn(z) : z \in L!libm(e, 2)}
      BY <2>3 DEF L!crlibm_dn
    <3>2. PICK z \in L!libm(e, 2) : r = previous_float(Previous2(z))
      BY <2>1, <3>1, LibmMovesAre
    <3>3. z \in Doubles /\ WithinTwo(z, e)
      BY <3>2, LibmIs
    <3>4. /\ r \in Doubles /\ r # Infinity /\ Num(r) <= Num(d)
          /\ Num(previous_float(Previous2(Previous2(d)))) <= Num(r)
      BY <3>2, <3>3, LibmMoved
    <3> QED
      BY <1>5, <2>3, <3>4 DEF LowerOf
  <2>4. CASE f \notin Nearests /\ f # "atan2"
    <3>1. L!crlibm_dn(f, e) = {d}
      BY <2>4 DEF L!crlibm_dn, Nearests
    <3>2. d # Infinity
      BY <2>4, LimitsAre
    <3>3. Num(d) <= Num(d)
      BY <1>1, NumOfMagnitude
    <3> QED
      BY <1>1, <2>1, <2>4, <3>1, <3>2, <3>3 DEF LowerOf
  <2> QED
    BY <2>2, <2>3, <2>4
<1> QED
  BY <1>2, <1>4, <1>5 DEF L!Libraries

(* Their upper bounds: CRlibm returns the least of the doubles for log(0).  *)
LEMMA UpperBoundIs ==
  ASSUME NEW lib \in L!Libraries, NEW f, NEW e \in Exact, L!Met(f, "up", e),
         NEW r \in L!up(lib, f, e)
  PROVE  UpperOf(lib, f, e, r)
<1> DEFINE u == L!Up(e)
<1>1. u \in Doubles
  BY UpIs
<1>2. CASE lib = "m"
  <2>1. L!up(lib, f, e) = {L!round_up(z) : z \in L!libm(e, 1)}
    BY <1>2 DEF L!up, L!m_up
  <2>2. PICK z \in L!libm(e, 1) : r = L!round_up(z)
    BY <2>1
  <2>3. z \in Doubles /\ Num(u) <= Num(next_float(z))
    BY <2>2, LibmIs DEF WithinOne
  <2> DEFINE o == Opposite(z)
  <2>4. o \in Doubles /\ next_float(z) = Opposite(previous_float(o)) /\ previous_float(o) \in Doubles
    BY <2>3, OppositeIsDouble, NextIs, PreviousIs
  <2>5. Num(next_float(z)) = -Num(previous_float(o))
    BY <2>4, OppositeIsDouble
  <2>6. /\ L!round_down(o) \in Doubles /\ L!round_down(o) # Infinity
        /\ Num(L!round_down(o)) <= Num(previous_float(o))
    BY <2>4, RoundedDownIs
  <2>7. r \in Doubles /\ Num(r) = -Num(L!round_down(o))
    BY <2>2, <2>3, RoundedUpIs
  <2>8. /\ Num(r) \in Int /\ Num(previous_float(o)) \in Int /\ Num(u) \in Int
        /\ Num(L!round_down(o)) \in Int
    BY <1>1, <2>4, <2>6, <2>7, NumOfMagnitude
  <2>9. Num(u) <= Num(r)
    BY <2>3, <2>5, <2>6, <2>7, <2>8
  <2>10. r # MinusInfinity
    <3>1. r = MinusInfinity => Num(r) = -(Largest + 1)
      BY InfinityIs
    <3>2. r = MinusInfinity => Num(L!round_down(o)) = Largest + 1
      BY <2>7, <2>8, <3>1, FormatIs
    <3>3. Num(previous_float(o)) # Largest + 1 /\ Num(previous_float(o)) <= Largest + 1
      BY <2>4, PreviousIs, InfinityIs
    <3> QED
      BY <2>6, <2>8, <3>2, <3>3, FormatIs
  <2> QED
    BY <1>2, <2>7, <2>9, <2>10 DEF UpperOf
<1>3. CASE r = next_float(L!Nearest(e)) /\ lib # "m" /\ (lib = "apmathlib" \/ f \in Nearests)
  <2>1. /\ r \in Doubles /\ r # MinusInfinity /\ Num(u) <= Num(r)
        /\ Num(r) <= Num(next_float(u))
    BY <1>3, NearestMoved
  <2>2. ~(lib = "crlibm" /\ f \in {"exp", "atan2"})
    BY <1>3 DEF Nearests
  <2> QED
    BY <1>3, <2>1, <2>2 DEF UpperOf
<1>4. CASE lib = "apmathlib"
  <2>1. L!up(lib, f, e) = {next_float(L!Nearest(e))}
    BY <1>4, LibraryFormat DEF L!up, L!apmathlib_up
  <2> QED
    BY <1>3, <1>4, <2>1
<1>5. CASE lib = "crlibm"
  <2>1. L!up(lib, f, e) = L!crlibm_up(f, e)
    BY <1>5 DEF L!up
  <2>2. CASE f \in Nearests
    <3>1. L!crlibm_up(f, e) = {next_float(L!Nearest(e))}
      BY <2>2, LibraryFormat DEF L!crlibm_up, Nearests
    <3> QED
      BY <1>3, <1>5, <2>1, <2>2, <3>1
  <2>3. CASE f = "atan2"
    <3>1. L!crlibm_up(f, e) = {L!gaol_libm_up(z) : z \in L!libm(e, 2)}
      BY <2>3 DEF L!crlibm_up
    <3>2. PICK z \in L!libm(e, 2) : r = next_float(Next2(z))
      BY <2>1, <3>1, LibmMovesAre
    <3>3. z \in Doubles /\ WithinTwo(z, e)
      BY <3>2, LibmIs
    <3>4. /\ r \in Doubles /\ r # MinusInfinity /\ Num(u) <= Num(r)
          /\ Num(r) <= Num(next_float(Next2(Next2(u))))
      BY <3>2, <3>3, LibmMoved
    <3> QED
      BY <1>5, <2>3, <3>4 DEF UpperOf
  <2>4. CASE f = "log" /\ e = L!Limit(TRUE)
    <3>1. L!crlibm_up(f, e) = {OfNum(-Largest)}
      <4>1. L!crlibm_up(f, e) = L!log_up(e)
        BY <2>4, Zenon DEF L!crlibm_up
      <4>2. L!log_up(e) = {L!OfNum(-L!Largest)}
        BY <2>4, Zenon DEF L!log_up
      <4> QED
        BY <4>1, <4>2, LibraryFormat
    <3>2. r \in Doubles /\ Num(r) = -Largest /\ r.mag \in Magnitudes
      BY <2>1, <3>1, FiniteNumsRange, OfNumIsNum
    <3>3. Num(u) = -(Largest + 1)
      BY <2>4, LimitsAre
    <3>4. r # MinusInfinity
      BY <3>2, InfinityIs
    <3>5. -Largest <= Num(next_float(u))
      <4>1. next_float(u) \in Doubles /\ next_float(u) # MinusInfinity
        BY <1>1, NextIs
      <4>2. next_float(u) = Infinity \/ (next_float(u).mag \in Magnitudes /\ Num(next_float(u)) \in FiniteNums)
        BY <4>1, InfinityIs, FiniteOrInfinite
      <4>3. -Largest <= Largest + 1
        BY FormatIs
      <4> QED
        BY <4>2, <4>3, InfinityIs, FiniteNumsRange
    <3>6. Num(u) <= Num(r)
      BY <3>2, <3>3, FormatIs
    <3>7. Num(r) <= Num(next_float(u))
      BY <3>2, <3>5
    <3> QED
      BY <1>5, <2>4, <3>2, <3>4, <3>6, <3>7 DEF UpperOf
  <2>5. CASE f \notin Nearests /\ f # "atan2" /\ ~(f = "log" /\ e = L!Limit(TRUE))
    <3>1. r = u
      <4>1. f = "log" => L!crlibm_up(f, e) = L!log_up(e)
        BY Zenon DEF L!crlibm_up
      <4>2. f = "log" => L!log_up(e) = {u}
        BY <2>5, Zenon DEF L!log_up
      <4>3. f # "log" => L!crlibm_up(f, e) = {u}
        BY <2>5, Zenon DEF L!crlibm_up, Nearests
      <4> QED
        BY <2>1, <4>1, <4>2, <4>3
    <3>2. u # MinusInfinity
      BY <2>5, LimitsAre
    <3>3. Num(u) <= Num(u)
      BY <1>1, NumOfMagnitude
    <3> QED
      BY <1>1, <2>5, <3>1, <3>2, <3>3 DEF UpperOf
  <2> QED
    BY <2>2, <2>3, <2>4, <2>5
<1> QED
  BY <1>2, <1>4, <1>5 DEF L!Libraries

-----------------------------------------------------------------------------
(* A set of four has four elements at most.                                 *)
LEMMA FourAtMost ==
  ASSUME NEW a, NEW b, NEW c, NEW d, NEW S \in SUBSET {a, b, c, d}
  PROVE  Cardinality(S) \in Nat /\ Cardinality(S) <= 4
<1>1. IsFiniteSet({}) /\ Cardinality({}) = 0
  BY FS_EmptySet
<1> DEFINE A == {} \union {a}
<1> DEFINE B == A \union {b}
<1> DEFINE C == B \union {c}
<1> DEFINE D == C \union {d}
<1>2. IsFiniteSet(A) /\ Cardinality(A) \in Nat /\ Cardinality(A) <= 1
  <2>1. Cardinality(A) = IF a \in {} THEN 0 ELSE 0 + 1
    BY <1>1, FS_AddElement
  <2> QED
    BY <1>1, <2>1, FS_AddElement
<1> HIDE DEF A
<1>3. IsFiniteSet(B) /\ Cardinality(B) \in Nat /\ Cardinality(B) <= 2
  <2>1. IsFiniteSet(B) /\ Cardinality(B) = IF b \in A THEN Cardinality(A) ELSE Cardinality(A) + 1
    BY <1>2, FS_AddElement
  <2> QED
    BY <1>2, <2>1
<1> HIDE DEF B
<1>4. IsFiniteSet(C) /\ Cardinality(C) \in Nat /\ Cardinality(C) <= 3
  <2>1. IsFiniteSet(C) /\ Cardinality(C) = IF c \in B THEN Cardinality(B) ELSE Cardinality(B) + 1
    BY <1>3, FS_AddElement
  <2> QED
    BY <1>3, <2>1
<1> HIDE DEF C
<1>5. IsFiniteSet(D) /\ Cardinality(D) \in Nat /\ Cardinality(D) <= 4
  <2>1. IsFiniteSet(D) /\ Cardinality(D) = IF d \in C THEN Cardinality(C) ELSE Cardinality(C) + 1
    BY <1>4, FS_AddElement
  <2> QED
    BY <1>4, <2>1
<1>6. S \subseteq D
  BY DEF A, B, C, D
<1> HIDE DEF D
<1>7. IsFiniteSet(S) /\ Cardinality(S) <= Cardinality(D)
  BY <1>5, <1>6, FS_Subset
<1>8. Cardinality(S) \in Nat
  BY <1>7, FS_CardinalityType
<1> QED
  BY <1>5, <1>7, <1>8

(* The doubles between two that are next to one another, or five apart.     *)
Between(z, y) == {v \in FiniteNums : Num(z) < v /\ v < Num(y)}

LEMMA BetweenIs ==
  ASSUME NEW z \in Doubles, NEW y \in Doubles
  PROVE  /\ Num(previous_float(y)) <= Num(z) \/ Num(y) <= Num(next_float(z)) =>
              Cardinality(Between(z, y)) = 0
         /\ \/ Num(previous_float(Previous2(Previous2(y)))) <= Num(z)
            \/ Num(y) <= Num(next_float(Next2(Next2(z))))
            => Cardinality(Between(z, y)) \in Nat /\ Cardinality(Between(z, y)) <= 4
<1> DEFINE p1 == previous_float(y)
<1> DEFINE p2 == previous_float(p1)
<1> DEFINE p3 == previous_float(p2)
<1> DEFINE p4 == previous_float(p3)
<1> DEFINE p5 == previous_float(p4)
<1> DEFINE n1 == next_float(z)
<1> DEFINE n2 == next_float(n1)
<1> DEFINE n3 == next_float(n2)
<1> DEFINE n4 == next_float(n3)
<1> DEFINE n5 == next_float(n4)
<1>1. /\ p5 = previous_float(Previous2(Previous2(y)))
      /\ n5 = next_float(Next2(Next2(z)))
  BY DEF Previous2, Next2
<1>2. /\ p1 \in Doubles /\ \A w \in FiniteNums : w < Num(y) <=> w <= Num(p1)
      /\ n1 \in Doubles /\ \A w \in FiniteNums : Num(z) < w <=> Num(n1) <= w
  BY PreviousIs, NextIs
<1> HIDE DEF p1, n1
<1>3. /\ p2 \in Doubles /\ \A w \in FiniteNums : w < Num(p1) <=> w <= Num(p2)
      /\ n2 \in Doubles /\ \A w \in FiniteNums : Num(n1) < w <=> Num(n2) <= w
  BY <1>2, PreviousIs, NextIs
<1> HIDE DEF p2, n2
<1>4. /\ p3 \in Doubles /\ \A w \in FiniteNums : w < Num(p2) <=> w <= Num(p3)
      /\ n3 \in Doubles /\ \A w \in FiniteNums : Num(n2) < w <=> Num(n3) <= w
  BY <1>3, PreviousIs, NextIs
<1> HIDE DEF p3, n3
<1>5. /\ p4 \in Doubles /\ \A w \in FiniteNums : w < Num(p3) <=> w <= Num(p4)
      /\ n4 \in Doubles /\ \A w \in FiniteNums : Num(n3) < w <=> Num(n4) <= w
  BY <1>4, PreviousIs, NextIs
<1> HIDE DEF p4, n4
<1>6. /\ p5 \in Doubles /\ \A w \in FiniteNums : w < Num(p4) <=> w <= Num(p5)
      /\ n5 \in Doubles /\ \A w \in FiniteNums : Num(n4) < w <=> Num(n5) <= w
  BY <1>5, PreviousIs, NextIs
<1> HIDE DEF p5, n5
<1>7. /\ Num(z) \in Int /\ Num(p1) \in Int /\ Num(p2) \in Int /\ Num(p3) \in Int
      /\ Num(p4) \in Int /\ Num(p5) \in Int
      /\ Num(y) \in Int /\ Num(n1) \in Int /\ Num(n2) \in Int /\ Num(n3) \in Int
      /\ Num(n4) \in Int /\ Num(n5) \in Int
  BY <1>2, <1>3, <1>4, <1>5, <1>6, NumOfMagnitude
<1>8. FiniteNums \subseteq Int
  BY FiniteNumsRange
<1>9. ASSUME Num(p1) <= Num(z) \/ Num(y) <= Num(n1)
      PROVE  Cardinality(Between(z, y)) = 0
  <2>1. \A w \in FiniteNums : ~(Num(z) < w /\ w < Num(y))
    BY <1>2, <1>7, <1>8, <1>9
  <2>2. Between(z, y) = {}
    BY <2>1 DEF Between
  <2> QED
    BY <2>2, FS_EmptySet
<1>10. ASSUME Num(p5) <= Num(z)
       PROVE  Cardinality(Between(z, y)) \in Nat /\ Cardinality(Between(z, y)) <= 4
  <2>1. \A w \in FiniteNums : Num(z) < w /\ w < Num(y) =>
          w = Num(p1) \/ w = Num(p2) \/ w = Num(p3) \/ w = Num(p4)
    BY <1>2, <1>3, <1>4, <1>5, <1>6, <1>7, <1>8, <1>10
  <2>2. Between(z, y) \subseteq {Num(p1), Num(p2), Num(p3), Num(p4)}
    BY <2>1 DEF Between
  <2> QED
    BY <2>2, FourAtMost
<1>11. ASSUME Num(y) <= Num(n5)
       PROVE  Cardinality(Between(z, y)) \in Nat /\ Cardinality(Between(z, y)) <= 4
  <2>1. \A w \in FiniteNums : Num(z) < w /\ w < Num(y) =>
          w = Num(n1) \/ w = Num(n2) \/ w = Num(n3) \/ w = Num(n4)
    BY <1>2, <1>3, <1>4, <1>5, <1>6, <1>7, <1>8, <1>11
  <2>2. Between(z, y) \subseteq {Num(n1), Num(n2), Num(n3), Num(n4)}
    BY <2>1 DEF Between
  <2> QED
    BY <2>2, FourAtMost
<1> QED
  BY <1>1, <1>9, <1>10, <1>11 DEF p1, n1

(* The doubles beyond the tightest bound.                                   *)
LEMMA BeyondIs ==
  L!Beyond = IF side = "dn"
             THEN IF result = L!Down(value) THEN 0
                  ELSE 1 + Cardinality(Between(result, L!Down(value)))
             ELSE IF result = L!Up(value) THEN 0
                  ELSE 1 + Cardinality(Between(L!Up(value), result))
<1>1. \A S : L!Cardinality(S) = Cardinality(S)
  BY DEF L!Cardinality, Cardinality
<1>2. \A z, y : {v \in L!FiniteNums : L!Num(z) < v /\ v < L!Num(y)} = Between(z, y)
  BY LibraryFormat DEF Between
<1>3. CASE side = "dn"
  BY <1>1, <1>2, <1>3 DEF L!Beyond
<1>4. CASE side # "dn"
  BY <1>1, <1>2, <1>4 DEF L!Beyond
<1> QED
  BY <1>3, <1>4

(* What is invariant of the calls: the direction is to nearest while a      *)
(* library computes, of a value that its function meets, and what it        *)
(* returned is a bound of that value.                                       *)
BoundIsOfTheValue ==
  /\ library \in L!Libraries
  /\ pc \in {"entered", "called", "returned"} => value \in Exact /\ side \in {"dn", "up"}
  /\ pc \in {"entered", "called"} => direction = "nearest" /\ L!Met(fun, side, value)
  /\ pc = "returned" => IF side = "dn" THEN LowerOf(library, fun, value, result)
                        ELSE UpperOf(library, fun, value, result)

(* A bound of the value encloses it, and is near.                           *)
LEMMA BoundsAre ==
  ASSUME BoundIsOfTheValue
  PROVE  L!BoundsEncloseTheValue /\ L!BoundsAreNear
<1> DEFINE d == L!Down(value)
<1> DEFINE u == L!Up(value)
<1> SUFFICES ASSUME pc = "returned" PROVE L!BoundsEncloseTheValue /\ L!BoundsAreNear
  BY DEF L!BoundsEncloseTheValue, L!BoundsAreNear
<1>1. library \in L!Libraries /\ value \in Exact /\ side \in {"dn", "up"}
  BY DEF BoundIsOfTheValue
<1>2. d \in Doubles /\ u \in Doubles
  BY <1>1, UpIs, DownIs
<1> DEFINE isAtan2 == library = "crlibm" /\ fun = "atan2"
<1> DEFINE isExp == library = "crlibm" /\ fun = "exp"
<1> DEFINE near == /\ isExp => L!Beyond = 0
                   /\ isAtan2 => L!Beyond <= 5
                   /\ library # "m" /\ ~isAtan2 => L!Beyond <= 1
<1>3. ASSUME near PROVE L!BoundsAreNear
  <2>1. CASE isAtan2
    BY <1>3, <2>1 DEF L!BoundsAreNear
  <2>2. CASE isExp
    <3>1. ~isAtan2 /\ L!Beyond <= 0
      BY <1>3, <2>2
    <3> QED
      BY <2>2, <3>1 DEF L!BoundsAreNear
  <2>3. CASE ~isAtan2 /\ ~isExp
    BY <1>3, <2>3 DEF L!BoundsAreNear
  <2> QED
    BY <2>1, <2>2, <2>3
<1>4. CASE side = "dn"
  <2>1. LowerOf(library, fun, value, result)
    BY <1>4 DEF BoundIsOfTheValue
  <2>2. result \in Doubles /\ result # Infinity /\ Num(result) <= Num(d)
    BY <2>1 DEF LowerOf
  <2>3. L!BoundsEncloseTheValue
    BY <1>1, <1>4, <2>2, AtMostIs, LibraryFormat DEF L!BoundsEncloseTheValue
  <2>4. L!Beyond = IF result = d THEN 0 ELSE 1 + Cardinality(Between(result, d))
    BY <1>4, BeyondIs
  <2>5. isExp => result = d
    BY <2>1 DEF LowerOf
  <2>6. isAtan2 => Num(previous_float(Previous2(Previous2(d)))) <= Num(result)
    BY <2>1 DEF LowerOf
  <2>7. library # "m" /\ ~isAtan2 => result = d \/ Num(previous_float(d)) <= Num(result)
    BY <2>1 DEF LowerOf
  <2>8. isAtan2 => L!Beyond <= 5
    <3>1. isAtan2 => Cardinality(Between(result, d)) \in Nat /\ Cardinality(Between(result, d)) <= 4
      BY <1>2, <2>2, <2>6, BetweenIs
    <3> HIDE DEF d
    <3> QED
      BY <2>4, <3>1
  <2>9. library # "m" /\ ~isAtan2 => L!Beyond <= 1
    <3>1. library # "m" /\ ~isAtan2 => result = d \/ Cardinality(Between(result, d)) = 0
      BY <1>2, <2>2, <2>7, BetweenIs
    <3> HIDE DEF d
    <3> QED
      BY <2>4, <3>1
  <2> QED
    BY <1>3, <2>3, <2>4, <2>5, <2>8, <2>9
<1>5. CASE side = "up"
  <2>1. UpperOf(library, fun, value, result)
    BY <1>5 DEF BoundIsOfTheValue
  <2>2. result \in Doubles /\ result # MinusInfinity /\ Num(u) <= Num(result)
    BY <2>1 DEF UpperOf
  <2>3. L!BoundsEncloseTheValue
    BY <1>1, <1>5, <2>2, AtLeastIs, LibraryFormat DEF L!BoundsEncloseTheValue
  <2>4. L!Beyond = IF result = u THEN 0 ELSE 1 + Cardinality(Between(u, result))
    BY <1>5, BeyondIs
  <2>5. isExp => result = u
    BY <2>1 DEF UpperOf
  <2>6. isAtan2 => Num(result) <= Num(next_float(Next2(Next2(u))))
    BY <2>1 DEF UpperOf
  <2>7. library # "m" /\ ~isAtan2 => result = u \/ Num(result) <= Num(next_float(u))
    BY <2>1 DEF UpperOf
  <2>8. isAtan2 => L!Beyond <= 5
    <3>1. isAtan2 => Cardinality(Between(u, result)) \in Nat /\ Cardinality(Between(u, result)) <= 4
      BY <1>2, <2>2, <2>6, BetweenIs
    <3> HIDE DEF u
    <3> QED
      BY <2>4, <3>1
  <2>9. library # "m" /\ ~isAtan2 => L!Beyond <= 1
    <3>1. library # "m" /\ ~isAtan2 => result = u \/ Cardinality(Between(u, result)) = 0
      BY <1>2, <2>2, <2>7, BetweenIs
    <3> HIDE DEF u
    <3> QED
      BY <2>4, <3>1
  <2> QED
    BY <1>3, <2>3, <2>4, <2>5, <2>8, <2>9
<1> QED
  BY <1>1, <1>4, <1>5

-----------------------------------------------------------------------------
(* The values that functions are called for are exact.                      *)
LEMMA ValuesAreExact == Values \subseteq Exact
<1> DEFINE low == L!Limit(TRUE)
<1> DEFINE high == L!Limit(FALSE)
<1>1. low.n = -1 /\ high.n = 1
  BY DEF L!Limit, L!Value
<1>2. \A e \in Values : e \in [n : Int, d : Nat] /\ (e.d = 0 => e \in {high, low})
  BY MCAssumption DEF L!IsLimit
<1> HIDE DEF low, high
<1> QED
  BY <1>1, <1>2 DEF Exact

(* A program starts with the caller, before any call.                       *)
LEMMA BoundInit == MCInit => (~searches => BoundIsOfTheValue)
  BY DEF MCInit, L!Init, BoundIsOfTheValue

(* What a library computes is a bound of its value.                         *)
LEMMA ComputeIsABound ==
  ASSUME BoundIsOfTheValue, L!Compute PROVE BoundIsOfTheValue'
<1>1. /\ library \in L!Libraries /\ value \in Exact /\ side \in {"dn", "up"}
      /\ direction = "nearest" /\ L!Met(fun, side, value)
  BY DEF BoundIsOfTheValue, L!Compute
<1>2. /\ result' \in L!Returned /\ pc' = "returned"
      /\ UNCHANGED <<library, fun, side, value>>
  BY DEF L!Compute
<1>3. CASE side = "dn"
  <2>1. result' \in L!dn(library, fun, value)
    BY <1>1, <1>2, <1>3 DEF L!Returned
  <2>2. LowerOf(library, fun, value, result')
    BY <1>1, <1>3, <2>1, LowerBoundIs
  <2> QED
    BY <1>1, <1>2, <1>3, <2>2 DEF BoundIsOfTheValue, LowerOf
<1>4. CASE side = "up"
  <2>1. result' \in L!up(library, fun, value)
    BY <1>1, <1>2, <1>4 DEF L!Returned
  <2>2. UpperOf(library, fun, value, result')
    BY <1>1, <1>4, <2>1, UpperBoundIs
  <2> QED
    BY <1>1, <1>2, <1>4, <2>2 DEF BoundIsOfTheValue, UpperOf
<1> QED
  BY <1>1, <1>3, <1>4

(* A step of the program keeps what is invariant.                           *)
LEMMA BoundStep ==
  ASSUME ~searches => BoundIsOfTheValue, [MCNext]_<<vars, searches, ofLibrary>>
  PROVE  (~searches => BoundIsOfTheValue)'
<1>1. CASE searches /\ Next /\ UNCHANGED <<searches, ofLibrary>>
  BY <1>1
<1>2. CASE ~searches /\ L!Next /\ UNCHANGED <<searches, ofSearch>>
  <2>1. BoundIsOfTheValue
    BY <1>2
  <2>2. ASSUME NEW f \in Functions, NEW s \in {"dn", "up"}, NEW e \in Values,
               L!Enter(f, s, e) \/ L!CallNearest(f, s, e)
        PROVE  BoundIsOfTheValue'
    <3>1. e \in Exact
      BY ValuesAreExact
    <3> QED
      BY <2>1, <2>2, <3>1 DEF L!Enter, L!CallNearest, L!Called, BoundIsOfTheValue
  <2>3. ASSUME L!Compute PROVE BoundIsOfTheValue'
    BY <2>1, <2>3, ComputeIsABound
  <2>4. ASSUME NEW d \in L!Directions, L!Take(d) PROVE BoundIsOfTheValue'
    BY <2>1, <2>4 DEF L!Take, BoundIsOfTheValue
  <2> QED
    BY <1>2, <2>2, <2>3, <2>4 DEF L!Next
<1>3. CASE UNCHANGED <<vars, searches, ofLibrary>>
  BY <1>3 DEF vars, ofLibrary, BoundIsOfTheValue, LowerOf, UpperOf
<1> QED
  BY <1>1, <1>2, <1>3 DEF MCNext

(* A bound that a library computes encloses the value, overflows,           *)
(* underflows and limits included, and is the tightest double, the next, or *)
(* what the library says: in every format whose doubles are as near to one  *)
(* another as epsilon() and min() say, with whatever functions and values.  *)
THEOREM LibraryBoundsAreNearAlways == MCFairRun => []LibraryBoundsAreNear
<1> DEFINE Inv == ~searches => BoundIsOfTheValue
<1>1. Inv /\ [MCNext]_<<vars, searches, ofLibrary>> => Inv'
  BY BoundStep
<1>2. Inv => LibraryBoundsAreNear
  BY BoundsAre DEF LibraryBoundsAreNear
<1> QED
  BY <1>1, <1>2, BoundInit, PTL DEF MCFairRun
=============================================================================
