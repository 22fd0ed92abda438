-------------------------- MODULE ElementaryMachine --------------------------
(***************************************************************************)
(* A program that applies an elementary function to an interval, and the   *)
(* properties of what is returned.                                         *)
(***************************************************************************)
EXTENDS ElementaryReference

CONSTANTS
  Builds,     \* The values of Sse
  Starts,     \* The intervals the program starts with
  Others      \* Those of the other operand: images, ordinates

ASSUME MachineAssumption ==
  /\ Builds \subseteq BOOLEAN
  /\ Starts \union Others \subseteq Stored
  /\ {Epsilon, MinNormal} \subseteq Magnitudes \ {0}
  /\ two_power_52.mag + 2 * HalfPi < Largest   \* The pieces used do not overflow

VARIABLES
  x,         \* The interval
  call,      \* The function called, or "none"
  other,     \* The other operand
  result     \* What it returned

vars == <<Sse, x, call, other, result>>

Unary == {"exp", "log", "acos", "asin", "atan", "cosh", "sinh", "tanh", "acosh", "asinh",
          "atanh", "cos", "sin", "tan"}
Binary == {"atan2", "acos_rel", "asin_rel", "atan_rel", "acosh_rel", "asinh_rel", "atanh_rel"}

Apply(f, J, I) ==
  CASE f = "exp"   -> exp(I)
    [] f = "log"   -> log(I)
    [] f = "acos"  -> acos(I)
    [] f = "asin"  -> asin(I)
    [] f = "atan"  -> atan(I)
    [] f = "cosh"  -> cosh(I)
    [] f = "sinh"  -> sinh(I)
    [] f = "tanh"  -> tanh(I)
    [] f = "acosh" -> acosh(I)
    [] f = "asinh" -> asinh(I)
    [] f = "atanh" -> atanh(I)
    [] f \in {"cos", "sin"} -> cos_or_sin(f, I)
    [] f = "tan"   -> tan(I)
    [] f = "atan2" -> atan2(J, I)
    [] f \in {"acos_rel", "asin_rel", "atan_rel"} -> inverse_rel(Reversed(f), J, I)
    [] f = "acosh_rel" -> acosh_rel(J, I)
    [] f = "asinh_rel" -> asinh_rel(J, I)
    [] f = "atanh_rel" -> atanh_rel(J, I)

-----------------------------------------------------------------------------
Init ==
  /\ Sse \in Builds
  /\ x \in Starts
  /\ call = "none" /\ other = universe /\ result = emptyset

Call(f, J) ==
  /\ call = "none"
  /\ f \in Unary => J = universe
  /\ call' = f /\ other' = J
  /\ result' = Apply(f, J, x)
  /\ UNCHANGED <<Sse, x>>

Next == \E f \in Unary \union Binary, J \in Others \union {universe} : Call(f, J)

Spec == Init /\ [][Next]_vars

-----------------------------------------------------------------------------
TypeOK ==
  /\ Sse \in Builds /\ call \in Unary \union Binary \union {"none"}
  /\ {x, other, result} \subseteq Stored

(* The monotonic functions return bounds below and above the exact range, by *)
(* less than two doubles, the tightest ones where they are known, and the    *)
(* empty set outside of their domain (doc/accuracy.md); so does atan2, over a *)
(* box that may have corners at 0 and at infinities, and be on both sides of *)
(* the half-line where the angle jumps                                       *)
RangesAreNear ==
  /\ call \in {"exp", "log", "asin", "atan", "sinh", "tanh", "acosh", "asinh", "atanh"} =>
       IncreasingRange(call, x, result)
  /\ call = "acos" => AcosRange(x, result)
  /\ call = "cosh" => CoshRange(x, result)
  /\ call = "atan2" => Atan2Range(other, x, result)

(* So do cos and sin, 1 and -1 being returned exactly where an extremum is   *)
(* within the interval, whether or not the quotients by pi can tell; and tan *)
(* between two poles, and only there                                         *)
WavesAreNear ==
  /\ call \in {"cos", "sin"} => WaveRange(call, x, result)
  /\ call = "tan" => TanRange(x, result)

Piece(b) == OfNum(((4 * Num(b)) \div (2 * HalfPi)) * One)
PiecesExact(m, fast) ==
  /\ m.left_told /\ ~IsInf(left(x)) => m.left = Piece(left(x))
  /\ m.right_told /\ ~IsInf(right(x)) => m.right = Piece(right(x))
  /\ fast.told => /\ m.left_told /\ m.right_told
                  /\ fast.left = m.left /\ fast.right = m.right

(* The integers that modulo_k_pi() and fast_modulo_k_pi() tell are those of  *)
(* the multiples of pi below the bounds                                      *)
ToldIntegersAreExact ==
  call = "none" /\ ~is_empty(x) => PiecesExact(modulo_k_pi(x), fast_modulo_k_pi(x))

-----------------------------------------------------------------------------
(* The pieces that periodic_rel() starts from are those of the bounds *)
PieceBelow(f, b) ==
  OfNum(((4 * Num(b) + IF f = "cos" THEN 0 ELSE HalfPi) \div (2 * HalfPi)) * One)
StartsFrom(f, b, q) == Lt(two_power_52, fabs(b)) \/ Eq(floor(q), PieceBelow(f, b))
PiecesAreTold ==
  /\ StartsFrom(Reversed(call), left(x), left(PieceQuotient(Reversed(call), left(x))))
  /\ StartsFrom(Reversed(call), right(x), right(PieceQuotient(Reversed(call), right(x))))

IsPeriodic == call \in {"acos_rel", "asin_rel", "atan_rel"}

(* A relational function returns a part of the interval that keeps every     *)
(* solution: those of the periodic functions, where the quotients by pi      *)
(* give the pieces of the bounds                                             *)
ReversesKeepSolutions ==
  call \in Binary \ {"atan2"} =>
    /\ set_contains(x, result)
    /\ ~is_empty(x) /\ ~is_empty(other) /\ (IsPeriodic => PiecesAreTold) =>
         KeepsSolutions(call, other, x, result)

(* What the comment of periodic_rel() says, and doc/accuracy.md for the three *)
(* functions: a quotient off by one loses nothing, as the extreme solutions  *)
(* are on the piece of the bound or the one next to it                       *)
NextPieceIsEnough ==
  IsPeriodic /\ ~is_empty(x) /\ ~is_empty(other) => KeepsSolutions(call, other, x, result)
=============================================================================
