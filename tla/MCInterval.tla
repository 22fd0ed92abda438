------------------------------ MODULE MCInterval ------------------------------
(***************************************************************************)
(* Model checking of IntervalMachine and of FloatMachine on a binary       *)
(* format of two bits, with subnormals, 1.0 being twice the least double.  *)
(* A program has intervals of doubles, with SSE2 or without, or intervals  *)
(* of floats; they share the variable obj.                                 *)
(***************************************************************************)
EXTENDS IntervalMachine

CONSTANTS
  Kinds,       \* Whether the intervals may be of floats, of doubles: the values of floats
  Exponents    \* The exponents of the powers of intervals of floats

ASSUME MCAssumption ==
  /\ Kinds \subseteq BOOLEAN
  /\ Exponents \subseteq Nat

VARIABLE floats   \* The kind of the intervals of the program

G == INSTANCE FloatMachine

MCInit ==
  /\ Init
  /\ floats \in Kinds
  /\ floats => Sse = (CHOOSE b \in Builds : TRUE) /\ G!Init

MCNext ==
  \/ ~floats /\ Next /\ UNCHANGED floats
  \/ floats /\ G!Next /\ UNCHANGED <<Sse, floats>>

MCSpec == MCInit /\ [][MCNext]_<<vars, floats>>

-----------------------------------------------------------------------------
(* Intervals of doubles: each is one of IEEE 1788, or the empty set of NaNs.  *)
IntervalsAreWellFormed == ~floats => WellFormed

(* Their arithmetic gives the hulls of the results on reals.                 *)
ArithmeticGivesHulls == ~floats => OperationsAreHulls

(* Their reverse operations give hulls, that keep what they undo.            *)
ReversesGiveHulls == ~floats => OperationsAreReversed

(* div_rel() keeps every solution of its interval.                           *)
DivisionKeepsSolutions == ~floats => DivRelKeepsSolutions

(* Their relations are those of the reals and of the sets.                   *)
RelationsAreOfReals == ~floats => RelationsHold

(* abs(), max(), min(), invabs_rel(), mig(), mag() and hausdorff() are those  *)
(* of the reals.                                                             *)
FunctionsGiveHulls == ~floats => FunctionsAreHulls

(* Their midpoint is within, and what the radius and split() give covers.    *)
MidpointsAreCentred == ~floats => MidpointsAreWithin

(* x -= x and the others give the hulls when the operand is the object        *)
(* assigned, too (doc/accuracy.md, 55).                                      *)
SumsGiveHulls == ~floats => SumsAreHulls

-----------------------------------------------------------------------------
(* Intervals of floats: their arithmetic keeps every result.                 *)
FloatArithmeticIsKept == floats => G!ArithmeticIsKept

(* Their powers keep the power of every real.                                *)
FloatPowersAreKept == floats => G!PowersAreKept

(* Their midpoint is the nearest, and their relations those of the sets.      *)
FloatBoundsAreRead == floats => G!BoundsAreRead

(* The operations of a pair are those of its two intervals.                  *)
PairsAreTwoIntervals == floats => G!PairsAreTwoIntervals

(* The powers of a pair are those of its two intervals.                      *)
PowersOfPairsAreTwoPowers == floats => G!PowersOfPairsAreTwoPowers

-----------------------------------------------------------------------------
MCMagnitudes == {0, 1, 2, 3, 4, 6}
MCExponents == {0, 2, 3, 4, 5}
=============================================================================
