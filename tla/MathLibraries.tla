---------------------------- MODULE MathLibraries ----------------------------
(***************************************************************************)
(* The functions of one bound, exp_dn(), exp_up()..., of the three         *)
(* mathematical libraries GAOL is built with: the libm of the system       *)
(* (gaol_double_op_m.h), mathlib with CORE-MATH                            *)
(* (gaol_double_op_apmathlib.h), and CRlibm with CORE-MATH                 *)
(* (gaol_double_op_crlibm.h).                                              *)
(*                                                                         *)
(* A library is what it returns of an exact value: a fraction n/d of the   *)
(* unit of the format, d = 0 standing for an infinite limit of the sign of *)
(* n.                                                                      *)
(***************************************************************************)
EXTENDS Doubles

CONSTANTS
  Epsilon,     \* std::numeric_limits<double>::epsilon(), in units
  MinNormal    \* std::numeric_limits<double>::min(), in units

Value(n, d) == [n |-> n, d |-> d]
Limit(neg) == Value(IF neg THEN -1 ELSE 1, 0)
IsLimit(e) == e.d = 0

(* Whether a double is at most, or at least, an exact value *)
AtMost(x, e) ==
  \/ x = MinusInfinity
  \/ IF IsLimit(e) THEN e.n > 0 /\ x # NaN ELSE x # NaN /\ ~IsInf(x) /\ Num(x) <= e.n \div e.d
Negated(e) == Value(-e.n, e.d)
AtLeast(x, e) == AtMost(Opposite(x), Negated(e))

(* The exact value rounded upward, downward, and to nearest *)
Up(e) == IF IsLimit(e) THEN OfNum(Oo * e.n) ELSE RoundUp(e.n, e.d, FALSE)
Down(e) == Opposite(Up(Negated(e)))
Nearest(e) == IF IsLimit(e) THEN OfNum(Oo * e.n) ELSE RoundNearest(e.n, e.d)

-----------------------------------------------------------------------------
(* The libm: any double with less than k (1 or 2) others between it and the *)
(* exact value, the limits being exact.                                            *)
Near(d, u) == {previous_float(u), d, u, next_float(d)}
Around(S) == S \union {next_float(x) : x \in S} \union {previous_float(x) : x \in S}

libm(e, k) ==
  IF IsLimit(e) THEN {Nearest(e)}
  ELSE IF k = 1 THEN Near(Down(e), Up(e)) ELSE Around(Near(Down(e), Up(e)))

(* p + b, and a*x + b, in the direction to nearest, a in units *)
PlusNearest(p, b) == IF IsInf(p) THEN p ELSE RoundNearest(Num(p) + b, 1)
ScaledNearest(a, x, b) ==
  PlusNearest(IF IsInf(x) THEN x ELSE RoundNearest(a * Num(x), One), b)

small_quantity_neg == One - 2 * Epsilon
small_quantity_pos == One + 2 * Epsilon

(* Less than 0, and not *)
Below0(x) == x.neg /\ x.mag # 0

(* Mutant: the infinity of an overflow kept *)
round_downOfInfinity(x) ==
  ScaledNearest(IF Below0(x) THEN small_quantity_pos ELSE small_quantity_neg, x, -MinNormal)

round_down(x) ==
  IF x = Infinity THEN OfNum(Largest)
  ELSE ScaledNearest(IF Below0(x) THEN small_quantity_pos ELSE small_quantity_neg, x, -MinNormal)

round_up(x) ==
  IF x = MinusInfinity THEN OfNum(-Largest)
  ELSE ScaledNearest(IF Below0(x) THEN small_quantity_neg ELSE small_quantity_pos, x, MinNormal)

(* namespace nearest with the libm, within one double of the value *)
m_dn(e) == {round_down(x) : x \in libm(e, 1)}
m_up(e) == {round_up(x) : x \in libm(e, 1)}

(* namespace nearest with mathlib and CORE-MATH, correctly rounded *)
apmathlib_dn(e) == {previous_float(Nearest(e))}
apmathlib_up(e) == {next_float(Nearest(e))}

gaol_libm_dn(x) == previous_float(previous_float(previous_float(x)))
gaol_libm_up(x) == next_float(next_float(next_float(x)))

(* log_ru() but at 0 *)
log_up(e) == IF e = Limit(TRUE) THEN {OfNum(-Largest)} ELSE {Up(e)}

(* namespace nearest with CRlibm, rounded in the direction asked, but for what *)
(* it has not                                                               *)
crlibm_dn(f, e) ==
  CASE f \in {"nthroot", "tanh", "acosh", "asinh", "atanh"} -> {previous_float(Nearest(e))}
    [] f = "atan2" -> {gaol_libm_dn(x) : x \in libm(e, 2)}
    [] OTHER -> {Down(e)}

crlibm_up(f, e) ==
  CASE f \in {"nthroot", "tanh", "acosh", "asinh", "atanh"} -> {next_float(Nearest(e))}
    [] f = "atan2" -> {gaol_libm_up(x) : x \in libm(e, 2)}
    [] f = "log" -> log_up(e)
    [] OTHER -> {Up(e)}

-----------------------------------------------------------------------------
Libraries == {"m", "apmathlib", "crlibm"}

(* What a function of gaol::nearest may return *)
dn(library, f, e) ==
  CASE library = "m" -> m_dn(e)
    [] library = "apmathlib" -> apmathlib_dn(e)
    [] library = "crlibm" -> crlibm_dn(f, e)

up(library, f, e) ==
  CASE library = "m" -> m_up(e)
    [] library = "apmathlib" -> apmathlib_up(e)
    [] library = "crlibm" -> crlibm_up(f, e)
=============================================================================
