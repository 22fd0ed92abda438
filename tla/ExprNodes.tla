----------------------------- MODULE ExprNodes -----------------------------
(***************************************************************************)
(* The nodes of expressions and their reference counts (gaol_expression).  *)
(* A heap is a record: the label of each node, or Free; the node each slot *)
(* points to; the counts; and the destructors in progress, innermost last. *)
(* A slot is anything that may refer to a node: a holder outside the heap  *)
(* (an expression, the library, the parser) or a member of a node.         *)
(***************************************************************************)
EXTENDS Integers, Sequences, FiniteSets

CONSTANTS Node,      \* addresses of nodes
          NoNode,    \* the value of a slot that holds no node
          Holder,    \* slots outside the nodes
          Leaf,      \* labels of the nodes that have no member node
          Unary,     \* labels of the nodes that have one: -, cos, pow by an int...
          Binary,    \* labels of the nodes that have two: + - * / pow atan2
          RefMod     \* the counts are unsigned: 2^32 of them

Side == {"left", "right"}
Slot == Holder \cup (Node \X Side)

ASSUME NodesAssumption == NoNode \notin Node
ASSUME HoldersAssumption == Holder \cap (Node \X Side) = {}
ASSUME LabelsAssumption == {"null", "free"} \cap (Leaf \cup Unary \cup Binary) = {}
ASSUME CountsAssumption == /\ IsFiniteSet(Slot)
                           /\ RefMod \in Nat
                           /\ Cardinality(Slot) < RefMod

Label == Leaf \cup Unary \cup Binary \cup {"null"}
Free == "free"

Heap == [kind  : [Node -> Label \cup {Free}],
         ptr   : [Slot -> Node \cup {NoNode}],
         refs  : [Node -> 0..RefMod - 1],
         dying : Seq(Node)]

EmptyHeap == [kind  |-> [n \in Node |-> Free],
              ptr   |-> [s \in Slot |-> NoNode],
              refs  |-> [n \in Node |-> 0],
              dying |-> <<>>]

(* interval(), which no expression of the model is, and the outcome of an     *)
(* evaluation that fails                                                      *)
Unset == <<"interval()">>
NoValue == <<"no value">>

Users(h, n) == {s \in Slot : h.ptr[s] = n}
FreeNodes(h) == {n \in Node : h.kind[n] = Free}

---------------------------------------------------------------------------
(* Slot s, which held nothing, comes to hold node n. *)
inc_refcount(h, s, n) ==
  [kind  |-> h.kind,
   ptr   |-> [h.ptr EXCEPT ![s] = n],
   refs  |-> [h.refs EXCEPT ![n] = (@ + 1) % RefMod],
   dying |-> h.dying]

(* The same without the count *)
SetUncounted(h, s, n) == [kind  |-> h.kind,
                          ptr   |-> [h.ptr EXCEPT ![s] = n],
                          refs  |-> h.refs,
                          dying |-> h.dying]

(* A count raised for a slot that is set later: what operator= does first *)
RaiseCount(h, n) == [kind  |-> h.kind,
                     ptr   |-> h.ptr,
                     refs  |-> [h.refs EXCEPT ![n] = (@ + 1) % RefMod],
                     dying |-> h.dying]

(* Mutants: the count lowered twice; the node deleted one reference late *)
dec_refcountTwice(h, s) ==
  LET n == h.ptr[s] IN
  [h EXCEPT !.ptr[s] = NoNode, !.refs[n] = @ - 2,
            !.dying = IF h.refs[n] <= 2 THEN Append(@, n) ELSE @]
dec_refcountLate(h, s) ==
  LET n == h.ptr[s] IN
  [h EXCEPT !.ptr[s] = NoNode, !.refs[n] = (@ - 1) % RefMod,
            !.dying = IF h.refs[n] = 0 THEN Append(@, n) ELSE @]

(* Slot s gives up its node, whose destructor starts if it was the last *)
dec_refcount(h, s) ==
  LET n == h.ptr[s]
      left == (h.refs[n] - 1) % RefMod
  IN [kind  |-> h.kind,
      ptr   |-> [h.ptr EXCEPT ![s] = NoNode],
      refs  |-> [h.refs EXCEPT ![n] = left],
      dying |-> IF left = 0 THEN Append(h.dying, n) ELSE h.dying]

(* Slot `to` takes over the node of slot `from` *)
Move(h, from, to) == [h EXCEPT !.ptr[to] = h.ptr[from], !.ptr[from] = NoNode]

---------------------------------------------------------------------------
(* The constructors of nodes, at an address n that operator new gives *)
NewLeaf(h, n, k) == [kind  |-> [h.kind EXCEPT ![n] = k],
                     ptr   |-> h.ptr,
                     refs  |-> [h.refs EXCEPT ![n] = 0],
                     dying |-> h.dying]
NewUnary(h, n, k, e) == inc_refcount(NewLeaf(h, n, k), <<n, "left">>, e)
(* Mutant: the right member not counted *)
NewBinaryUncounted(h, n, k, el, er) ==
  SetUncounted(NewUnary(h, n, k, el), <<n, "right">>, er)
NewBinary(h, n, k, el, er) ==
  inc_refcount(NewUnary(h, n, k, el), <<n, "right">>, er)

(* clone(): a node of the same class with the same members *)
Cloned(h, n, m) ==
  LET el == h.ptr[<<m, "left">>]
      er == h.ptr[<<m, "right">>]
  IN CASE el = NoNode -> NewLeaf(h, n, h.kind[m])
       [] el # NoNode /\ er = NoNode -> NewUnary(h, n, h.kind[m], el)
       [] OTHER -> NewBinary(h, n, h.kind[m], el, er)

(* The innermost destructor in progress: it gives up its members, the left  *)
(* one first, each of which may start a destructor of its own, then returns *)
Innermost(h) == h.dying[Len(h.dying)]

Destructor(h) ==
  LET n == Innermost(h) IN
  CASE h.ptr[<<n, "left">>] # NoNode -> dec_refcount(h, <<n, "left">>)
    [] h.ptr[<<n, "left">>] = NoNode /\ h.ptr[<<n, "right">>] # NoNode ->
         dec_refcount(h, <<n, "right">>)
    [] OTHER -> [kind  |-> [h.kind EXCEPT ![n] = Free],
                 ptr   |-> h.ptr,
                 refs  |-> h.refs,
                 dying |-> SubSeq(h.dying, 1, Len(h.dying) - 1)]

---------------------------------------------------------------------------
(* What the counts are for. Each is a predicate of a heap. *)

(* The count of a node is the number of slots that refer to it. *)
Counted(h) == \A n \in Node : h.refs[n] = Cardinality(Users(h, n))

(* No slot refers to a node that was freed. *)
Backed(h) == \A s \in Slot : h.ptr[s] # NoNode => h.ptr[s] \notin FreeNodes(h)

(* A node with no reference left is being destroyed, once. *)
Destroyed(h) ==
  /\ {h.dying[i] : i \in 1..Len(h.dying)}
       = {n \in Node : h.kind[n] # Free /\ h.refs[n] = 0}
  /\ \A i, j \in 1..Len(h.dying) : h.dying[i] = h.dying[j] => i = j

(* A node that was freed, and a null node, refer to nothing. *)
Bare(h) == \A n \in Node, d \in Side :
             h.kind[n] \in {Free, "null"} => h.ptr[<<n, d>>] = NoNode

(* A node is made after its members, and refers to no other node later: of   *)
(* any nodes in use, there is one that is a member of none of them.          *)
Acyclic(h) == \A S \in SUBSET (Node \ FreeNodes(h)) :
                S # {} => \E n \in S : \A m \in S, d \in Side : h.ptr[<<m, d>>] # n
============================================================================
