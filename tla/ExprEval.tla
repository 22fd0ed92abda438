----------------------------- MODULE ExprEval ------------------------------
(***************************************************************************)
(* The evaluation of expressions: the visitor expr_eval and its stack      *)
(* eval_stack. The value of a node is written as a term, so that what the  *)
(* visitor computes tells its operands and their order apart.              *)
(***************************************************************************)
EXTENDS ExprNodes

CONSTANT StackSize   \* SZ of eval_stack

(* `lowest` and `highest` record how far next_pos went: pop() of an empty   *)
(* stack makes lowest -1                                                    *)
NewVisitor == [the_stack |-> [i \in 0..StackSize - 1 |-> Unset],
               next_pos |-> 0, error |-> FALSE, lowest |-> 0, highest |-> 0]

(* Mutant: the next position is moved before the cell is written *)
pushAfter(v, e) ==
  [v EXCEPT !.the_stack = [i \in DOMAIN @ |-> IF i = v.next_pos + 1 THEN e ELSE @[i]],
            !.next_pos = @ + 1,
            !.highest = IF v.next_pos + 1 > @ THEN v.next_pos + 1 ELSE @]
push(v, e) ==
  [v EXCEPT !.the_stack = [i \in DOMAIN @ |-> IF i = v.next_pos THEN e ELSE @[i]],
            !.next_pos = @ + 1,
            !.highest = IF v.next_pos + 1 > @ THEN v.next_pos + 1 ELSE @]

popped(v) == IF v.next_pos = 0 THEN v.the_stack[0] ELSE v.the_stack[v.next_pos - 1]
pop(v) == IF v.next_pos = 0 THEN [v EXCEPT !.lowest = -1]
                            ELSE [v EXCEPT !.next_pos = @ - 1]

RECURSIVE accept(_, _, _)
accept(h, n, v) ==
  LET k == h.kind[n] IN
  CASE k = "null" -> [v EXCEPT !.error = TRUE]
    [] k \in Leaf -> push(v, <<k>>)
    [] k \in Unary ->
         LET u == accept(h, h.ptr[<<n, "left">>], v) IN push(pop(u), <<k, popped(u)>>)
    [] k \in Binary ->
         LET l == accept(h, h.ptr[<<n, "left">>], v)
             r == accept(h, h.ptr[<<n, "right">>], pop(l))
         IN push(pop(r), <<k, popped(l), popped(r)>>)

(* evaluate_expr(e, itv): NoValue is false, and itv left as it was *)
evaluate_expr(h, n) ==
  LET v == accept(h, n, NewVisitor) IN
  IF v.error THEN NoValue ELSE popped(v)

(* evaluate_left_right(el, er, itv): one visitor for both, and the second is *)
(* not visited when the first failed                                         *)
evaluate_left_right(h, nl, nr) ==
  LET l == accept(h, nl, NewVisitor)
      r == accept(h, nr, pop(l))
  IN IF l.error \/ r.error THEN NoValue ELSE <<popped(l), popped(r)>>

---------------------------------------------------------------------------
(* What a node denotes: the expression written with it *)
RECURSIVE Term(_, _)
Term(h, n) ==
  LET k == h.kind[n] IN
  IF k \in Unary THEN <<k, Term(h, h.ptr[<<n, "left">>])>>
  ELSE IF k \in Binary THEN <<k, Term(h, h.ptr[<<n, "left">>]), Term(h, h.ptr[<<n, "right">>])>>
  ELSE <<k>>

RECURSIVE HasLabel(_, _, _)
HasLabel(h, n, k) ==
  \/ h.kind[n] = k
  \/ \E d \in Side : h.ptr[<<n, d>>] # NoNode /\ HasLabel(h, h.ptr[<<n, d>>], k)
HasNull(h, n) == HasLabel(h, n, "null")
============================================================================
