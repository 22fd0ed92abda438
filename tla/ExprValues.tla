---------------------------- MODULE ExprValues -----------------------------
(***************************************************************************)
(* What the class expression promises: its objects are values. Each holds  *)
(* an expression, which no operation on another object changes, whatever   *)
(* nodes the two share.                                                    *)
(***************************************************************************)
CONSTANTS Handle, Leaf, Unary, Binary, None

VARIABLE term   \* the expression each object holds, None if there is no such object

Init == term = [a \in Handle |-> None]

Created(a, t) == term[a] = None /\ term' = [term EXCEPT ![a] = t]
Assigned(a, t) == term[a] # None /\ term' = [term EXCEPT ![a] = t]

Create(a) ==
  \/ \E k \in Leaf \cup {"null"} : Created(a, <<k>>)
  \/ \E b \in Handle : /\ term[b] # None
                       /\ \/ Created(a, term[b])
                          \/ \E k \in Unary : Created(a, <<k, term[b]>>)
  \/ \E b, c \in Handle, k \in Binary :
       /\ term[b] # None /\ term[c] # None
       /\ Created(a, <<k, term[b], term[c]>>)

(* operator= and, of two values, operator+= and its like *)
Assign(a) ==
  \E b \in Handle : /\ term[b] # None
                    /\ \/ Assigned(a, term[b])
                       \/ \E k \in Binary : Assigned(a, <<k, term[a], term[b]>>)

Destroy(a) == Assigned(a, None)

Next == \E a \in Handle : Create(a) \/ Assign(a) \/ Destroy(a)

Spec == Init /\ [][Next]_term
============================================================================
