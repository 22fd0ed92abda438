---------------------------- MODULE LibraryCalls ----------------------------
(***************************************************************************)
(* Calls of the functions of one bound (see MathLibraries), with the       *)
(* rounding direction they need: to nearest.  exp_dn() and the others set  *)
(* it, and leave it as GAOL_RND_RESTORE() does; nearest::exp_dn() and the  *)
(* others count on their caller.                                           *)
(***************************************************************************)
EXTENDS MathLibraries

CONSTANTS
  Functions,   \* Those called
  Values       \* Their exact values, fractions of Int and Nat

VARIABLES
  library,     \* The library of the build
  preserve,    \* The build: GAOL_PRESERVE_ROUNDING or not
  direction,   \* The rounding direction
  saved,       \* That of GAOL_RND_PRESERVE()
  pc,          \* "caller", "entered", "called", "returned"
  fun, side,   \* The function, and the bound: "dn" or "up"
  value,       \* Its exact value
  result

vars == <<library, preserve, direction, saved, pc, fun, side, value, result>>

Directions == {"nearest", "upward"}

Init ==
  /\ library \in Libraries /\ preserve \in BOOLEAN
  /\ direction \in Directions
  /\ saved = direction
  /\ pc = "caller"
  /\ fun = "none" /\ side = "dn" /\ value = Limit(FALSE) /\ result = NaN

(* The limits that a function meets: -oo is log(0), and the infinite ones of   *)
(* atanh() are at -1 and 1, bounds of either side; those of the others are at *)
(* an infinite bound, on its side.                                           *)
Met(f, s, e) ==
  IsLimit(e) => \/ f = "log" /\ e = Limit(TRUE)
                \/ f = "atanh"
                \/ f \notin {"log", "atan2"} /\ e = Limit(s = "dn")

Called(f, s, e) == Met(f, s, e) /\ fun' = f /\ side' = s /\ value' = e

(* gaol::f_dn(), gaol::f_up(): GAOL_RND_PRESERVE() and round_nearest() *)
Enter(f, s, e) ==
  /\ pc = "caller"
  /\ Called(f, s, e)
  /\ saved' = direction
  /\ direction' = "nearest"
  /\ pc' = "entered"
  /\ UNCHANGED <<library, preserve, result>>

(* gaol::nearest::f_dn(), called between GAOL_RND_NEAREST_ENTER() and LEAVE() *)
CallNearest(f, s, e) ==
  /\ pc = "caller" /\ direction = "nearest"
  /\ Called(f, s, e)
  /\ pc' = "called"
  /\ UNCHANGED <<library, preserve, direction, saved, result>>

(* In another direction than to nearest, a library returns anything *)
Returned ==
  IF direction # "nearest" THEN Doubles
  ELSE IF side = "dn" THEN dn(library, fun, value) ELSE up(library, fun, value)

(* Mutant: the direction set again before the value is computed *)
ComputeRestored ==
  /\ pc \in {"entered", "called"}
  /\ direction' = IF pc = "entered" THEN saved ELSE direction
  /\ result' \in IF direction' # "nearest" THEN Doubles
                 ELSE IF side = "dn" THEN dn(library, fun, value) ELSE up(library, fun, value)
  /\ pc' = "returned"
  /\ UNCHANGED <<library, preserve, saved, fun, side, value>>

(* The value, and GAOL_RND_RESTORE(): the direction saved, or upward *)
Compute ==
  /\ pc \in {"entered", "called"}
  /\ result' \in Returned
  /\ pc' = "returned"
  /\ direction' = IF pc = "called" THEN direction
                  ELSE IF preserve THEN saved ELSE "upward"
  /\ UNCHANGED <<library, preserve, saved, fun, side, value>>

(* The caller takes the bound, and sets the direction it likes *)
Take(d) ==
  /\ pc = "returned"
  /\ pc' = "caller"
  /\ direction' = d /\ saved' = d
  /\ fun' = "none" /\ side' = "dn" /\ value' = Limit(FALSE) /\ result' = NaN
  /\ UNCHANGED <<library, preserve>>

Next ==
  \/ \E f \in Functions, s \in {"dn", "up"}, e \in Values : Enter(f, s, e) \/ CallNearest(f, s, e)
  \/ Compute
  \/ \E d \in Directions : Take(d)

Spec == Init /\ [][Next]_vars

-----------------------------------------------------------------------------
TypeOK ==
  /\ library \in Libraries /\ preserve \in BOOLEAN
  /\ direction \in Directions /\ saved \in Directions
  /\ pc \in {"caller", "entered", "called", "returned"}
  /\ fun \in Functions \union {"none"} /\ side \in {"dn", "up"}
  /\ value \in Values \union {Limit(FALSE)}
  /\ result \in Doubles \union {NaN}

(* The bounds enclose the exact value, whatever the library: those the libm    *)
(* returns next to the value, an overflow, an underflow and a limit included; *)
(* and they are bounds of an interval: a lower bound is never +oo, nor an     *)
(* upper one -oo.                                                            *)
BoundsEncloseTheValue ==
  pc = "returned" =>
    IF side = "dn" THEN AtMost(result, value) /\ result # Infinity
    ELSE AtLeast(result, value) /\ result # MinusInfinity

(* The doubles between the tightest bound and the result *)
Beyond ==
  LET tightest == IF side = "dn" THEN Down(value) ELSE Up(value)
      between(x, y) == {v \in FiniteNums : Num(x) < v /\ v < Num(y)}
  IN IF result = tightest THEN 0
     ELSE 1 + Cardinality(IF side = "dn" THEN between(result, tightest)
                          ELSE between(tightest, result))

(* They are the tightest ones or those next to them, rounded correctly and     *)
(* moved one double; up to five doubles away for the atan2 of a libm, and the *)
(* tightest ones from CRlibm's own functions.                                *)
BoundsAreNear ==
  pc = "returned" /\ library # "m" =>
    Beyond <= CASE library = "crlibm" /\ fun = "atan2" -> 5
                [] library = "crlibm" /\ fun = "exp" -> 0
                [] OTHER -> 1

(* What a caller left is what a function called to nearest restores.          *)
DirectionIsSaved == pc \in {"caller", "called"} => saved = direction

(* A function of gaol:: leaves the direction it found or upward, as it was    *)
(* built, and one of gaol::nearest leaves it alone.                          *)
DirectionLeft ==
  pc' = "returned" =>
    direction' = IF pc = "called" \/ preserve THEN saved ELSE "upward"
=============================================================================
