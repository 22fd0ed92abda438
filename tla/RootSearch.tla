----------------------------- MODULE RootSearch -----------------------------
(***************************************************************************)
(* The proved bounds of the n-th root of a double, proved_root_dn() and    *)
(* proved_root_up() (gaol_interval.cpp).                                   *)
(*                                                                         *)
(* From an approximation, a search steps outward or inward, by steps that  *)
(* double, until it has a double that is proved to bound the root and one  *)
(* that is not, then it takes the middle of both.  The two functions are   *)
(* one another's mirror: the ends of the search are l and h, and proved is *)
(* l, "dn", or h, "up".                                                    *)
(***************************************************************************)
EXTENDS Doubles

CONSTANTS
  Epsilon,     \* std::numeric_limits<double>::epsilon(), in units
  MinNormal,   \* std::numeric_limits<double>::min(), in units
  Degrees,     \* The degrees of the roots
  SearchLimit,        \* root_search_limit
  PowerUp(_, _),      \* ipow_hi() and ipow_lo(), the powers of a double
  PowerDown(_, _)

ASSUME SearchAssumption ==
  /\ {Epsilon, MinNormal, 1, 2 * One} \subseteq Magnitudes \ {0}
  /\ Degrees \subseteq Nat \ {0, 1, 2} /\ Degrees # {}
  /\ SearchLimit \in Nat

ASSUME PowersAssumption ==
  \A v \in Doubles, k \in Degrees : PowerUp(v, k) \in Doubles \union {NaN}

VARIABLES
  pc,          \* Where the call is: "idle", "first", "rise", "fall", "bisect", "returned"
  side,        \* Which bound: "dn" or "up"
  x, n,        \* The root searched: the n-th one of x
  l, h,        \* The ends of the search
  step, steps, \* The step, and the number of them
  result

vars == <<pc, side, x, n, l, h, step, steps, result>>

-----------------------------------------------------------------------------
largest == OfNum(Largest)

(* A step of Newton's method from r, which the mathematical library gave *)
newton_root(d, r, k) ==
  LET p == PowerUp(r, k)
      s == SubUp(r, MulUp(r, DivUp(SubUp(p, d), MulUp(RoundUp(k * One, 1, FALSE), p))))
  IN IF ~Lt(Zero(FALSE), r) THEN Zero(FALSE)
     ELSE IF Lt(largest, r) THEN largest
     ELSE IF /\ Leq(OfNum(MinNormal), p) /\ Leq(p, largest)
             /\ Lt(Zero(FALSE), s) /\ Leq(s, largest) THEN s
     ELSE r

is_proved_below_root(v, d, k) == Leq(PowerUp(v, k), d)
is_proved_above_root(v, d, k) == Leq(d, PowerDown(v, k))

Proved(v) ==
  IF side = "dn" THEN is_proved_below_root(v, x, n) ELSE is_proved_above_root(v, x, n)

first_step(r) == maximum(MulUp(r, OfNum(Epsilon)), OfNum(1))

Twice(s) == MulUp(s, OfNum(2 * One))

(* The middle of a and b, or the double above a: b, when they are neighbours  *)
double_between(a, b) ==
  LET m == AddUp(a, MulUp(OfNum(One \div 2), SubUp(b, a)))
  IN IF Lt(a, m) /\ Lt(m, b) THEN m ELSE next_float(a)

(* The other end, one step above l or below h *)
Above(v, s) == minimum(AddUp(v, s), largest)
Below(v, s) == maximum(Opposite(SubUp(s, v)), Zero(FALSE))

(* The doubles that a search meets *)
Positive == {OfNum(m) : m \in Magnitudes}

-----------------------------------------------------------------------------
Init ==
  /\ pc = "idle" /\ side = "dn"
  /\ x = OfNum(One) /\ n = Min(Degrees)
  /\ l = Zero(FALSE) /\ h = Zero(FALSE)
  /\ step = Zero(FALSE) /\ steps = 0
  /\ result = NaN

(* root_dn(), root_up(): 0, 1 and oo are their own roots; the approximation   *)
(* r may be any double                                                       *)
Call(s, d, k, r) ==
  /\ pc = "idle"
  /\ d \notin {Zero(FALSE), OfNum(One), Infinity}
  /\ pc' = "first"
  /\ side' = s /\ x' = d /\ n' = k
  /\ LET near == newton_root(d, r, k) IN l' = near /\ h' = near /\ step' = first_step(near)
  /\ UNCHANGED <<steps, result>>

(* nth_root() takes the bound; nothing else is kept from a call to the next *)
Take ==
  /\ pc = "returned"
  /\ pc' = "idle" /\ side' = "dn"
  /\ x' = OfNum(One) /\ n' = Min(Degrees)
  /\ l' = Zero(FALSE) /\ h' = Zero(FALSE)
  /\ step' = Zero(FALSE) /\ steps' = 0
  /\ result' = NaN

Return(v) == pc' = "returned" /\ result' = v

(* The first test, and the first step *)
First ==
  /\ pc = "first"
  /\ IF (side = "dn" <=> Proved(l))
     THEN pc' = "rise" /\ h' = Above(l, step) /\ l' = l
     ELSE pc' = "fall" /\ l' = Below(h, step) /\ h' = h
  /\ UNCHANGED <<side, x, n, step, steps, result>>

(* Mutant: the step does not double *)
RiseBySteps ==
  /\ pc = "rise"
  /\ IF (side = "dn" <=> Proved(h)) /\ (side = "dn" => Lt(h, largest))
     THEN /\ l' = h
          /\ steps' = steps + 1
          /\ IF steps' > SearchLimit
             THEN Return(IF side = "dn" THEN l' ELSE Infinity) /\ UNCHANGED h
             ELSE h' = Above(l', step) /\ UNCHANGED <<pc, result>>
     ELSE pc' = "bisect" /\ UNCHANGED <<l, h, steps, result>>
  /\ UNCHANGED <<side, x, n, step>>

(* The loop upward: l is proved ("dn"), or is not ("up"); is h? *)
Rise ==
  /\ pc = "rise"
  /\ IF (side = "dn" <=> Proved(h)) /\ (side = "dn" => Lt(h, largest))
     THEN /\ l' = h
          /\ step' = Twice(step)
          /\ steps' = steps + 1
          /\ IF steps' > SearchLimit
             THEN Return(IF side = "dn" THEN l' ELSE Infinity) /\ UNCHANGED h
             ELSE h' = Above(l', step') /\ UNCHANGED <<pc, result>>
     ELSE /\ IF side = "dn" /\ Leq(largest, h) /\ Proved(h)
             THEN Return(h)
             ELSE pc' = "bisect" /\ UNCHANGED result
          /\ UNCHANGED <<l, h, step, steps>>
  /\ UNCHANGED <<side, x, n>>

(* The loop downward: h is proved ("up"), or is not ("dn"); is l? *)
Fall ==
  /\ pc = "fall"
  /\ IF (side = "up" <=> Proved(l))
     THEN /\ h' = l
          /\ step' = Twice(step)
          /\ steps' = steps + 1
          /\ IF steps' > SearchLimit
             THEN Return(IF side = "dn" THEN Zero(FALSE) ELSE h') /\ UNCHANGED l
             ELSE l' = Below(h', step') /\ UNCHANGED <<pc, result>>
     ELSE pc' = "bisect" /\ UNCHANGED <<l, h, step, steps, result>>
  /\ UNCHANGED <<side, x, n>>

(* Mutant: the ends of an upper bound mixed up *)
BisectOfLower ==
  LET m == double_between(l, h) IN
  /\ pc = "bisect"
  /\ IF Lt(m, h) /\ steps < SearchLimit
     THEN /\ IF Proved(m) THEN l' = m /\ h' = h ELSE h' = m /\ l' = l
          /\ UNCHANGED <<pc, result>>
     ELSE Return(IF side = "dn" THEN l ELSE h) /\ UNCHANGED <<l, h>>
  /\ steps' = IF Lt(m, h) THEN steps + 1 ELSE steps
  /\ UNCHANGED <<side, x, n, step>>

(* Mutant: the bisection goes on when m is h, and the count wraps *)
BisectWrapped ==
  LET m == double_between(l, h) IN
  /\ pc = "bisect"
  /\ IF Leq(m, h)
     THEN /\ IF (side = "dn" <=> Proved(m)) THEN l' = m /\ h' = h ELSE h' = m /\ l' = l
          /\ UNCHANGED <<pc, result>>
     ELSE Return(IF side = "dn" THEN l ELSE h) /\ UNCHANGED <<l, h>>
  /\ steps' = (steps + 1) % SearchLimit
  /\ UNCHANGED <<side, x, n, step>>

Bisect ==
  LET m == double_between(l, h) IN
  /\ pc = "bisect"
  /\ IF Lt(m, h) /\ steps < SearchLimit
     THEN /\ IF (side = "dn" <=> Proved(m)) THEN l' = m /\ h' = h ELSE h' = m /\ l' = l
          /\ UNCHANGED <<pc, result>>
     ELSE Return(IF side = "dn" THEN l ELSE h) /\ UNCHANGED <<l, h>>
  /\ steps' = IF Lt(m, h) THEN steps + 1 ELSE steps
  /\ UNCHANGED <<side, x, n, step>>

Search == First \/ Rise \/ Fall \/ Bisect

Next ==
  \/ \E s \in {"dn", "up"}, d \in Positive, k \in Degrees,
        r \in Doubles \union {NaN} : Call(s, d, k, r)
  \/ Search
  \/ Take

Spec == Init /\ [][Next]_vars

Searching == pc \in {"first", "rise", "fall", "bisect"}

(* The program runs: a search goes on until it returns *)
FairSpec == Spec /\ WF_vars(Search)

(* FairSpec, as TLC checks it: Search is enabled while Searching, since TLC   *)
(* finds no deadlock                                                         *)
FairRun == Spec /\ ([]<>(~Searching) \/ []<><<Search>>_vars)

-----------------------------------------------------------------------------
TypeOK ==
  /\ pc \in {"idle", "first", "rise", "fall", "bisect", "returned"}
  /\ side \in {"dn", "up"}
  /\ x \in Positive /\ n \in Degrees
  /\ l \in Positive /\ h \in Positive
  /\ step \in Positive \union {Infinity}
  /\ steps \in 0 .. SearchLimit + 1
  /\ result \in Doubles \union {NaN}

(* One end of the search is proved and the other is not, whichever way it     *)
(* went and however far: the loops that widen it keep the end they left on    *)
(* the right side, and the bisection never loses either.                     *)
Bracket ==
  /\ pc \in {"rise", "bisect"} => (side = "dn" <=> Proved(l))
  /\ pc \in {"fall", "bisect"} => (side = "up" <=> Proved(h))
  /\ Searching => Num(l) <= Num(h)

(* The bound that a search returns is proved, and the double next to it,      *)
(* nearer to the root, is not, whatever the approximation of the             *)
(* mathematical library was; a search cut short returns a proved bound, or 0 *)
(* or oo.                                                                    *)
ResultIsNextToUnproved ==
  pc = "returned" =>
    \/ steps <= SearchLimit /\ Proved(result) /\ ~IsInf(result)
       /\ IF side = "dn" THEN result.mag = Largest \/ ~Proved(next_float(result))
          ELSE \E v \in Positive : result = next_float(v) /\ ~Proved(v)
    \/ steps > SearchLimit /\ (Proved(result) \/ result \in {Zero(FALSE), Infinity})

(* What every step keeps: the types, the bracket, both ends where it starts,  *)
(* the count within its limit until the search returns, and then the result. *)
IInv ==
  /\ TypeOK
  /\ Bracket
  /\ pc = "first" => l = h
  /\ pc # "returned" => steps <= SearchLimit
  /\ ResultIsNextToUnproved

(* It does bound the root, and is the tightest double that does or the one   *)
(* beyond; an exact root is found.                                           *)
ResultBoundsTheRoot ==
  LET power(m) == m ^ n
      target == x.mag * One ^ (n - 1)
      outer(S) == IF side = "dn" THEN Max(S) ELSE Min(S)
      bounds == {m \in Magnitudes : IF side = "dn" THEN power(m) <= target ELSE power(m) >= target}
      tightest == outer(bounds)
  IN pc = "returned" =>
       /\ result.mag \in bounds
       /\ result.mag \in {tightest} \union
            {outer({m \in Magnitudes : IF side = "dn" THEN m < tightest ELSE m > tightest})}
       /\ power(tightest) = target => result.mag = tightest

(* The limit, there in case the doubles did not move, is never what ends a    *)
(* search.                                                                   *)
LimitIsNotReached == steps <= SearchLimit

(* Every search ends. *)
SearchEnds == Searching ~> pc = "returned"
=============================================================================
