----------------------------- MODULE MCOneBound -----------------------------
(***************************************************************************)
(* Model checking of RootSearch and of LibraryCalls on a binary format of  *)
(* three bits with subnormals, from 1/16 to 7: the two ways GAOL has to    *)
(* compute one bound, by a search and by a mathematical library.           *)
(*                                                                         *)
(* The search starts from all the doubles, and all the approximations of   *)
(* their roots; the values of the library are those of the format, those   *)
(* between two of them, those beyond it, and the limits.                   *)
(***************************************************************************)
EXTENDS RootSearch, BinaryPowers

CONSTANTS
  Functions,   \* Those called of a library
  Values       \* Their exact values

VARIABLES
  searches,    \* Whether the bound is that of a root
  library, preserve, direction, saved, fun, value   \* Of LibraryCalls

L == INSTANCE LibraryCalls

ASSUME MCAssumption ==
  \A e \in Values :
    /\ e \in [n : Int, d : Nat]
    /\ L!IsLimit(e) => e \in {L!Limit(FALSE), L!Limit(TRUE)}

(* A double is as near to the one below it as epsilon() and min() say.        *)
ASSUME SpacingAssumption ==
  \A m \in Magnitudes \ {0} : \E k \in Magnitudes :
    k < m /\ (m - k <= MinNormal \/ One * (m - k) <= Epsilon * k)

ofSearch == <<x, n, l, h, step, steps>>
ofLibrary == <<library, preserve, direction, saved, fun, value>>

MCInit ==
  \/ /\ searches = TRUE
     /\ Init
     /\ library = "m" /\ preserve = TRUE /\ direction = "upward" /\ saved = "upward"
     /\ fun = "none" /\ value = L!Limit(FALSE)
  \/ /\ searches = FALSE
     /\ L!Init
     /\ x = OfNum(One) /\ n = Min(Degrees)
     /\ l = Zero(FALSE) /\ h = Zero(FALSE) /\ step = Zero(FALSE) /\ steps = 0

MCNext ==
  \/ searches /\ Next /\ UNCHANGED <<searches, ofLibrary>>
  \/ ~searches /\ L!Next /\ UNCHANGED <<searches, ofSearch>>

MCFairRun ==
  /\ MCInit
  /\ [][MCNext]_<<vars, searches, ofLibrary>>
  /\ []<>(~Searching) \/ []<><<Search>>_vars

-----------------------------------------------------------------------------
(* A search keeps a proved end and an unproved one, whatever the powers are,  *)
(* and returns a proved one, next to an unproved double.                     *)
SearchKeepsItsBracket == searches => Bracket /\ ResultIsNextToUnproved

(* Its result bounds the root, as tight as doubles are or the next double.   *)
SearchIsTight == searches => ResultBoundsTheRoot

(* Its limit never ends it.                                                  *)
SearchIsShort == searches => LimitIsNotReached

(* A bound made of what a library returns encloses the value, and is near.    *)
LibraryBoundsAreNear == ~searches => L!BoundsEncloseTheValue /\ L!BoundsAreNear

(* A call of a library leaves the direction as the contract says.            *)
LibraryLeavesTheDirection == [][~searches => L!DirectionLeft]_L!vars

-----------------------------------------------------------------------------
MCMagnitudes ==
  0 .. 8 \union {10, 12, 14, 16, 20, 24, 28, 32, 40, 48, 56, 64, 80, 96, 112}
MCDegrees == {3, 4}

MCFunctions == {"nthroot", "exp", "log", "atan2", "atanh"}

Fraction(k, d) == [n |-> k, d |-> d]
MCValues ==
  {Fraction(k, 1) : k \in FiniteNums} \union {Fraction(4 * v + k, 4) : v \in FiniteNums, k \in {1, 2, 3}}
  \union {Fraction(s * v, 1) : s \in {-1, 1}, v \in {119, 120, 130, 500}}
  \union {Fraction(1, 0), Fraction(-1, 0)}
=============================================================================
