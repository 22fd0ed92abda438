------------------------------ MODULE MCParser ------------------------------
(* The parser for TLC, and what the texts it reads mean. *)
EXTENDS Parser, ExprEval

(* All the forms of intervals; functions of expressions and of intervals;     *)
(* powers within products, with exponents that may throw; operators and       *)
(* brackets                                                                   *)
Kind(tokens, length) == [tokens |-> tokens, length |-> length]
Literals == Kind({"n", "-", "[", "]", "comma", "pow(", "nth_root(", ")", "<", ">"}, 6)
Functions == Kind({"n", "u", "-", "cos(", "pow(", "comma", ")"}, 6)
Powers == Kind({"n", "*", "cos(", "pow(", ")", "comma"}, 9)
Arithmetic == Kind({"n", "u", "-", "*", "[", "]", "(", ")"}, 7)
Roots == Kind({"n", "-", "nth_root(", ")", "comma"}, 8)
MCTexts == {Literals, Functions, Powers, Arithmetic}
MCRoots == {Roots}

---------------------------------------------------------------------------
(* What the documentation makes of a text of numbers, brackets and operators *)
Opening == {"[", "("}
Closing == {"]", ")"}
Nesting(t, i) == Cardinality({j \in 1..i - 1 : t[j] \in Opening})
                 - Cardinality({j \in 1..i - 1 : t[j] \in Closing})

(* The operators between operands, outside the brackets *)
Infix(t) == {i \in 2..Len(t) : /\ t[i] \in Ops /\ Nesting(t, i) = 0
                               /\ t[i - 1] \notin Ops}
(* The last one that binds the least is the last one to be done *)
Outermost(t) ==
  LET loosest == {i \in Infix(t) : \A j \in Infix(t) : Prec[t[i]] <= Prec[t[j]]}
  IN CHOOSE i \in loosest : \A j \in loosest : j <= i

RECURSIVE Meaning(_)
Meaning(t) ==
  IF Infix(t) # {}
    THEN <<Op[t[Outermost(t)]], Meaning(SubSeq(t, 1, Outermost(t) - 1)),
                           Meaning(SubSeq(t, Outermost(t) + 1, Len(t)))>>
  ELSE IF t = <<"[", "]">> THEN <<"[]">>
  ELSE IF t[1] = "-" THEN <<"neg", Meaning(Tail(t))>>
  ELSE IF t[1] \in Opening THEN Meaning(SubSeq(t, 2, Len(t) - 1))
  ELSE <<t[1]>>

(* A term of the parser without the marks of the literals in it *)
RECURSIVE Plain(_)
Plain(v) ==
  IF v[1] \in {"bare", "[e]"} THEN Plain(v[2])
  ELSE IF Len(v) = 1 THEN v
  ELSE [i \in DOMAIN v |-> IF i = 1 THEN v[1] ELSE Plain(v[i])]

(* The expressions without brackets in a term *)
RECURSIVE Bares(_)
Bares(v) ==
  IF v[1] = "bare" THEN {v[2]}
  ELSE UNION {Bares(v[i]) : i \in 2..Len(v)}

(* An accepted text in which an expression of several operands has brackets,  *)
(* or is the whole text, has the value the precedence and the associativity   *)
(* of the operators give it, whichever of the two levels of the grammar each  *)
(* of its operators was reduced at.                                           *)
PrecedenceIsKept ==
  (/\ outcome = "true" /\ ToSet(text) \subseteq Arithmetic.tokens
   /\ result[1] = "bare" \/ Bares(result) \subseteq {<<"n">>}) => Plain(result) = Meaning(text)

(* gaol_parser.h: "false if the input could not be parsed into a valid        *)
(* interval and true otherwise". A text with a literal that has no value is   *)
(* not accepted.                                                              *)
AcceptedIsRead == outcome = "true" => ~unread
=============================================================================
