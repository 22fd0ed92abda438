---------------------------- MODULE GaolRounding ----------------------------
(***************************************************************************)
(* The paths of GAOL's operations through the macros of gaol_fpu.h, as     *)
(* sets of sequences of instructions of module Rounding.  k is the first   *)
(* slot an operation may use: a frame opened within a frame takes the next *)
(* one.  An early return that runs no macro is the empty path.             *)
(***************************************************************************)
EXTENDS Naturals, Sequences, SequencesExt

CONSTANT Preserve

LOCAL Dirs == {"near", "down", "up", "zero"}

LOCAL Ins(op, k) == [op |-> op, k |-> k, good |-> {}]
LOCAL Do(op)     == <<Ins(op, 0)>>
LOCAL Local(ds)  == <<[op |-> "local", k |-> 0, good |-> ds]>>
LOCAL Now(ds)    == <<[op |-> "now", k |-> 0, good |-> ds]>>

LOCAL Up == {"up"}
LOCAL Near == {"near"}

(* Two operations in a row, each by any of its paths *)
LOCAL Then(P, Q) == {p \o q : p \in P, q \in Q}

LOCAL Framed(k, enter, leave, body) == <<Ins(enter, k)>> \o body \o <<Ins(leave, k)>>

Frame(k, body)         == Framed(k, "ENTER", "LEAVE", body)
SseFrame(k, body)      == Framed(k, "ENTER_SSE", "LEAVE_SSE", body)
PreserveFrame(k, body) == Framed(k, "PRESERVE", "RESTORE", body)
NearestFrame(k, body)  == Framed(k, "NEAREST_ENTER", "NEAREST_LEAVE", body)

-----------------------------------------------------------------------------
(* operator+=, -=, *=, /=, %= of the SSE2 intervals: the bounds are stored  *)
(* into *this before the direction changes; empty and zero operands return  *)
(* before the frame.                                                        *)
SseArith(k) == {<< >>, SseFrame(k, Now(Up))}

(* The same operators of the intervals without SSE2 *)
FpuArith(k) == {<< >>, Frame(k, Now(Up))}

(* inverse(), div_rel() and uipow_rounded() of the SSE2 intervals: a local   *)
(* result, kept                                                             *)
SseKept(k) == {<< >>, SseFrame(k, Local(Up) \o Do("KEEP"))}

(* width(), mid(), hausdorff(), inv_up() and inv_dn(), and inverse(),        *)
(* div_rel(), sqr() and uipow_rounded() without SSE2                        *)
Kept(k) == {<< >>, Frame(k, Local(Up) \o Do("KEEP"))}

(* log(), computed rounding upward by CORE-MATH: calls, that return into     *)
(* locals the compiler keeps after them                                     *)
log(k) == {<< >>, Frame(k, Now(Up))}

(* exp(), acos(), asin(), atan(), atan2(), cosh(), sinh(), tanh(), acosh(),  *)
(* asinh() and atanh(): functions of the mathematical library               *)
MathLib(k) == {<< >>, NearestFrame(k, Now(Near))}

(* exp_dn(), exp_up() ... of the public interface: one bound each *)
DoubleOp(k) == {PreserveFrame(k, Do("round_nearest") \o Now(Near))}

(* midpoint(), chi() *)
midpoint(k) ==
  {<< >>, PreserveFrame(k, Do("round_nearest") \o Local(Near) \o Do("rnd_keep"))}

(* mid_rad() and rad() *)
mid_rad(k) == Then(midpoint(k), Kept(k))

(* sqrt(), either return *)
sqrt(k) == Kept(k)

sqrt_rel(k) ==
  {<< >>,
   Frame(k, Local(Up) \o Do("KEEP")),
   Frame(k, Do("round_downward") \o Local({"down"}) \o Do("rnd_keep")
            \o Do("round_upward") \o Local(Up) \o Do("KEEP"))}

(* uipow_nonempty(): the exact products, then uipow_rounded() when a product *)
(* is not a normal double                                                   *)
uipow_nonempty(k) == Then({Frame(k, Local(Up) \o Do("KEEP"))}, SseKept(k))

(* pow(I, n): x^n, or 1/x^-n *)
pow(k) == Then(uipow_nonempty(k), SseKept(k))

(* pow(I, J) for a base above 0: pow() at the corners, or exp(J*log(I)) *)
pow_itv(k) == MathLib(k) \union Then(Then(log(k), SseArith(k)), MathLib(k))

near_roots(k) == {NearestFrame(k, Now(Near) \o Do("KEEP"))}

nth_root(k) ==
  {<< >>} \union
  {Frame(k, p \o Local(Up) \o Do("KEEP")) : p \in near_roots(k + 1)}

(* An interval plus a constant divided by [pi], or divided by it plus one:    *)
(* two operators of the SSE2 intervals, or of the others                    *)
Quotient(k) == {f \o f : f \in {SseFrame(k, Now(Up)), Frame(k, Now(Up))}}

(* The comparisons of doubles whose operands are rounded, as r - l < pi_dn:   *)
(* "told", the directions in which they tell the truth.                     *)
tan(k, told) ==
  LET enter == <<Ins("ENTER", k)>>
      leave == <<Ins("LEAVE", k)>>
      wide == enter \o Frame(k + 1, Local(Up) \o Do("KEEP")) \o Do("use")
      pole == {wide \o q \o q : q \in Quotient(k + 1)}
  IN {enter \o leave, wide \o leave}
     \union Then(pole, {leave})
     \union {p \o Local(told) \o NearestFrame(k + 1, Do("use") \o Now(Near))
               \o Do("KEEP") \o leave : p \in pole}

cos_or_sin(k, told) ==
  {<< >>,
   \* On one piece
   Frame(k, Now(Up) \o NearestFrame(k + 1, Now(Near)) \o Do("KEEP")),
   \* Both extrema: wider than 2 pi, or the divisions rounded inward tell
   Frame(k, Now(Up) \o Now(Up)),
   \* The signs of the derivative tell
   Frame(k, Now(Up) \o Now(Up) \o Local(told)
            \o NearestFrame(k + 1, Do("use") \o Now(Near)) \o Do("KEEP"))}

(* acos_rel(), asin_rel(), atan_rel(): the image of a single double, or the  *)
(* pieces the quotients of the bounds give, k_pi_plus() rounding upward     *)
periodic_rel(k, told) ==
  LET pieces == {q \o Local(Up) \o q \o Local(Up) : q \in Quotient(k + 1)}
  IN cos_or_sin(k, told) \union {Frame(k, p \o Do("KEEP")) : p \in pieces}

trig_rel(k, told) == Then(MathLib(k), periodic_rel(k, told))

(* gaol_enclose_number(): strtod() and exact comparisons of integers *)
gaol_enclose_number(k) == {PreserveFrame(k, Do("round_nearest") \o Now(Near))}

(* A bound written: by the C library in the direction asked, or by its       *)
(* magnitude rounded to nearest, moved to the side asked                    *)
bound_to_text(down) ==
  {(IF down THEN Do("round_downward") ELSE << >>)
     \o Now({IF down THEN "down" ELSE "up"}) \o Do("round_upward"),
   Do("round_nearest") \o Now(Near) \o Do("round_upward")}

(* What operator<< runs once it has set the direction, by format: nothing    *)
(* rounded (empty, hexa), both bounds (bounds, agreeing), the center, or it *)
(* and the half of the width                                                *)
Written ==
  {<< >>, Do("round_nearest") \o Now(Near), Do("round_nearest") \o Now(Near) \o Now(Near)}
    \union Then(bound_to_text(TRUE), bound_to_text(FALSE))

operator_out(k) ==
  {PreserveFrame(k, Do("round_upward") \o body) : body \in Written}

(* operator<< left by an exception of the stream, when it writes the result  *)
(* of a body: GAOL_RND_RESTORE() does not run                               *)
operator_out_throws(k) ==
  {<<Ins("PRESERVE", k), Ins("round_upward", 0)>> \o body : body \in Written}

(* ipow_up() and ipow_dn() of gaol_double_op_*.h: the last product is only   *)
(* used after GAOL_RND_LEAVE(), and is not kept                             *)
ipow(k) == {Frame(k, Local(Up))}

(* gaol::init(), the first time and again; nothing with                      *)
(* GAOL_PRESERVE_ROUNDING                                                   *)
init == IF Preserve THEN {<< >>}
        ELSE {Do("round_nearest") \o Do("round_upward"), Do("round_upward")}

-----------------------------------------------------------------------------
(* All the paths.  A difference compared to a double tells the truth in      *)
(* every direction: rounding is monotonic, and a sum that is not below a    *)
(* double is not rounded below it.                                          *)
Operations(told) ==
  SseArith(0) \union FpuArith(0) \union SseKept(0) \union Kept(0) \union log(0)
    \union MathLib(0) \union DoubleOp(0) \union midpoint(0) \union mid_rad(0)
    \union sqrt(0) \union sqrt_rel(0) \union uipow_nonempty(0) \union pow(0)
    \union pow_itv(0) \union nth_root(0) \union tan(0, told)
    \union cos_or_sin(0, told) \union trig_rel(0, told)
    \union gaol_enclose_number(0) \union operator_out(0) \union init

(* ipow_up() and ipow_dn() are right where GAOL_RND_LEAVE() is nothing *)
GaolPaths == Operations(Dirs) \union (IF Preserve THEN {} ELSE ipow(0))

ThrownPaths == operator_out_throws(0)

GaolSlots == 0 .. 2
=============================================================================
