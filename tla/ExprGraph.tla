----------------------------- MODULE ExprGraph -----------------------------
(***************************************************************************)
(* A program that uses the class expression: objects that share the nodes  *)
(* of expressions, created, copied, combined, assigned and destroyed in    *)
(* any order, between init() and cleanup().                                *)
(***************************************************************************)
EXTENDS ExprNodes

CONSTANTS Handle,    \* the objects of class expression of the program
          Library    \* the slot of the_null_expr

ASSUME GraphAssumption == /\ Holder = Handle \cup {Library}
                          /\ Library \notin Handle

VARIABLES heap,
          phase   \* "raw", then "ready" after init(), "cleaned" after cleanup()
vars == <<heap, phase>>

root(a) == heap.ptr[a]
Exists(a) == root(a) # NoNode
the_null_expr == root(Library)

(* One thread: an operation starts when the destructors of the last have ended *)
Idle == phase = "ready" /\ heap.dying = <<>>

Init == heap = EmptyHeap /\ phase = "raw"

(* Mutants: the old root is released before the new one is counted *)
AssignReleasedFirst(a, b) ==
  /\ Idle /\ Exists(a) /\ Exists(b)
  /\ LET e_root == root(b)
     IN heap' = inc_refcount(dec_refcount(heap, a), a, e_root)
  /\ UNCHANGED phase

(* cleanup() while expressions still refer to the null one *)
cleanupEarly ==
  /\ Idle
  /\ heap' = [heap EXCEPT !.kind[the_null_expr] = Free,
                          !.refs[the_null_expr] = 0,
                          !.ptr[Library] = NoNode]
  /\ phase' = "cleaned"

---------------------------------------------------------------------------
init ==
  /\ phase = "raw"
  /\ \E n \in FreeNodes(heap) :
       heap' = inc_refcount(NewLeaf(heap, n, "null"), Library, n)
  /\ phase' = "ready"

(* expression(): the null expression *)
MakeNull(a) ==
  /\ Idle /\ ~Exists(a)
  /\ heap' = inc_refcount(heap, a, the_null_expr)
  /\ UNCHANGED phase

(* expression(double), expression(const interval&) *)
MakeLeaf(a, k) ==
  /\ Idle /\ ~Exists(a)
  /\ \E n \in FreeNodes(heap) : heap' = inc_refcount(NewLeaf(heap, n, k), a, n)
  /\ UNCHANGED phase

(* expression(const expression&) *)
Copy(a, b) ==
  /\ Idle /\ ~Exists(a) /\ Exists(b)
  /\ heap' = inc_refcount(heap, a, root(b))
  /\ UNCHANGED phase

(* operator-(e), cos(e), pow(e, n)...: expression(const expr_node&) of a new node *)
MakeUnary(a, k, b) ==
  /\ Idle /\ ~Exists(a) /\ Exists(b)
  /\ \E n \in FreeNodes(heap) :
       heap' = inc_refcount(NewUnary(heap, n, k, root(b)), a, n)
  /\ UNCHANGED phase

(* operator+(el, er), operator-, operator*, operator/, pow(e1, e2), atan2(e1, e2) *)
MakeBinary(a, k, b, c) ==
  /\ Idle /\ ~Exists(a) /\ Exists(b) /\ Exists(c)
  /\ \E n \in FreeNodes(heap) :
       heap' = inc_refcount(NewBinary(heap, n, k, root(b), root(c)), a, n)
  /\ UNCHANGED phase

(* expression(const expr_node&) of what clone() makes of a root *)
Clone(a, b) ==
  /\ Idle /\ ~Exists(a) /\ Exists(b)
  /\ \E n \in FreeNodes(heap) : heap' = inc_refcount(Cloned(heap, n, root(b)), a, n)
  /\ UNCHANGED phase

(* ~expression() *)
Destroy(a) ==
  /\ Idle /\ Exists(a)
  /\ heap' = dec_refcount(heap, a)
  /\ UNCHANGED phase

(* operator=: the new root is counted before the old one is given up. The   *)
(* member is set after the destructor of the old root, which does not read  *)
(* it: a and the reference it takes are shown together.                     *)
Assign(a, b) ==
  /\ Idle /\ Exists(a) /\ Exists(b)
  /\ LET e_root == root(b)
     IN heap' = SetUncounted(dec_refcount(RaiseCount(heap, e_root), a), a, e_root)
  /\ UNCHANGED phase

(* operator+=, -=, *=: the new node counts the old root, whose count was    *)
(* lowered first, and the new root is not counted at all.                   *)
CompoundAssign(a, k, b) ==
  /\ Idle /\ Exists(a) /\ Exists(b)
  /\ LET lowered == [heap EXCEPT !.refs[root(a)] = (@ - 1) % RefMod] IN
     \E n \in FreeNodes(heap) :
       heap' = SetUncounted(NewBinary(lowered, n, k, root(a), root(b)), a, n)
  /\ UNCHANGED phase

(* The destructors run to their end before anything else *)
Destruct ==
  /\ heap.dying # <<>>
  /\ heap' = Destructor(heap)
  /\ UNCHANGED phase

(* cleanup(), to be called at the end of a program: it deletes the null node  *)
(* without a look at its count, and no expression is used after it            *)
cleanup ==
  /\ Idle /\ \A a \in Handle : ~Exists(a)
  /\ heap' = [heap EXCEPT !.kind[the_null_expr] = Free,
                          !.refs[the_null_expr] = 0,
                          !.ptr[Library] = NoNode]
  /\ phase' = "cleaned"

(* init() and cleanup() called again return false *)
CalledAgain == phase \in {"ready", "cleaned"} /\ UNCHANGED vars

Next ==
  \/ init \/ cleanup \/ CalledAgain \/ Destruct
  \/ \E a \in Handle :
       \/ MakeNull(a) \/ Destroy(a)
       \/ \E k \in Leaf : MakeLeaf(a, k)
       \/ \E b \in Handle : \/ Copy(a, b)
                            \/ Clone(a, b)
                            \/ Assign(a, b)
                            \/ \E k \in Unary : MakeUnary(a, k, b)
       \/ \E b, c \in Handle, k \in Binary : MakeBinary(a, k, b, c)

(* The programs that use no compound assignment: the library uses none itself *)
Spec == Init /\ [][Next]_vars

(* Every program *)
CompoundSpec ==
  Init /\ [][Next \/ \E a, b \in Handle, k \in Binary : CompoundAssign(a, k, b)]_vars

---------------------------------------------------------------------------
TypeOK == heap \in Heap /\ phase \in {"raw", "ready", "cleaned"}

(* A count is the number of references, whatever was copied, assigned or    *)
(* destroyed (gaol_expression.h: "Number of references (for garbage          *)
(* collection)").                                                           *)
CountsAreReferences == phase # "cleaned" => Counted(heap)

(* Every expression, and every member of a node, refers to a node that was  *)
(* not deleted: no operation of the class uses freed memory.                *)
NothingDangles == phase # "cleaned" => Backed(heap)

(* A node no slot refers to is being deleted, by exactly one destructor: none *)
(* is lost and none is deleted twice.                                       *)
NoneLostNorDeletedTwice == phase # "cleaned" => Destroyed(heap)

(* What cleanup() deletes without looking at its count is in use by the     *)
(* library only, and it leaves no node behind.                              *)
CleanupLeavesNothing ==
  [][phase = "ready" /\ phase' = "cleaned" =>
       /\ heap.refs[the_null_expr] = 1
       /\ FreeNodes(heap)' = Node]_vars

(* The inductive invariant of the proof *)
IInv ==
  /\ TypeOK
  /\ phase = "raw" => heap = EmptyHeap
  /\ phase = "ready" =>
       /\ Counted(heap) /\ Backed(heap) /\ Destroyed(heap) /\ Bare(heap)
       /\ Acyclic(heap)
       /\ Exists(Library) /\ heap.kind[the_null_expr] = "null"
  /\ phase = "cleaned" => heap.dying = <<>>
============================================================================
