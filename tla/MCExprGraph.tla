---------------------------- MODULE MCExprGraph ----------------------------
EXTENDS ExprGraph, ExprEval, TLC

CONSTANTS a1, a2, a3, library
MCHandle == {a1, a2, a3}
MCHolder == MCHandle \cup {library}

Symmetry == Permutations(Node)

(* The expression of each object, read through the nodes *)
Values == INSTANCE ExprValues WITH
  None <- NoNode,
  term <- [a \in Handle |-> IF Exists(a) THEN Term(heap, root(a)) ELSE NoNode]

(* Objects of class expression behave as values: whatever is shared, copied, *)
(* assigned or deleted, an expression stays what was written.               *)
ExpressionsAreValues == Values!Spec

(* evaluate_expr() gives the expression written, its operands in order, or   *)
(* fails if a null expression is in it; evaluate_left_right() gives two in    *)
(* turn with one visitor. One cell of the stack is enough, and it is read    *)
(* empty only in an evaluation that fails.                                   *)
EvaluationIsOfTheExpression ==
  LET Defined(a) == ~HasNull(heap, root(a))
      Value(a) == Term(heap, root(a))
      Expressions == {a \in Handle : Exists(a)}
  IN \A a \in Expressions :
       LET v == accept(heap, root(a), NewVisitor) IN
       /\ evaluate_expr(heap, root(a)) = IF Defined(a) THEN Value(a) ELSE NoValue
       /\ v.highest <= 1
       /\ v.lowest < 0 => v.error
       /\ \A b \in Expressions :
            evaluate_left_right(heap, root(a), root(b)) =
              IF Defined(a) /\ Defined(b) THEN <<Value(a), Value(b)>> ELSE NoValue
============================================================================
