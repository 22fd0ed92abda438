----------------------------- MODULE ExprProof -----------------------------
(***************************************************************************)
(* For any number of expressions and of nodes, and any labels: each        *)
(* operation of a program on expressions keeps the invariant of the heap,  *)
(* by the lemmas of HeapProof.                                             *)
(***************************************************************************)
EXTENDS ExprGraph, HeapProof

---------------------------------------------------------------------------
(* What the operations of a program start from: a good heap, no cycle of     *)
(* members, and the null expression in the library's hands                  *)
Ready == phase = "ready" /\ Good(heap) /\ Acyclic(heap) /\ Exists(Library) /\ heap.kind[the_null_expr] = "null"

(* Between init() and cleanup() the strengthening is what the operations start from. *)
LEMMA ReadyIsIInv ==
  ASSUME IInv, phase = "ready"
  PROVE  Ready
  BY DEF IInv, TypeOK, Ready, Good, Sound

(* A step that ends in a ready state keeps the invariant. *)
LEMMA ReadyKeepsIInv ==
  ASSUME Ready'
  PROVE  IInv'
  BY DEF IInv, TypeOK, Ready, Good, Sound

(* The holders of a ready state refer to nodes in use, the library to a null one. *)
LEMMA HeldNodes ==
  ASSUME Ready, NEW a \in Holder, Exists(a)
  PROVE  /\ root(a) \in Node /\ heap.kind[root(a)] # Free
         /\ heap.refs[root(a)] \in Nat /\ heap.refs[root(a)] > 0
<1>1. a \in Slot /\ Sound(heap) /\ heap.ptr[a] # NoNode
  BY HoldersAreSlots DEF Ready, Good, Exists, root
<1>2. /\ heap.ptr[a] \in Node /\ heap.kind[heap.ptr[a]] # Free
      /\ heap.refs[heap.ptr[a]] \in Nat /\ heap.refs[heap.ptr[a]] > 0
  BY ONLY <1>1, Referenced
<1> QED BY <1>2 DEF root

(* The objects of the program and the library hold nodes from outside. *)
LEMMA HandlesAreHolders == Handle \subseteq Holder /\ Library \in Holder /\ Library \notin Handle
  BY GraphAssumption

(* A heap good after the step, that moved no slot of the library and left    *)
(* the label of the nodes in use, is ready.                                 *)
LEMMA StaysReady ==
  ASSUME Ready, phase' = "ready", Good(heap)', Acyclic(heap)',
         heap'.ptr[Library] = heap.ptr[Library],
         heap'.kind[the_null_expr] = heap.kind[the_null_expr]
  PROVE  Ready'
  BY DEF Ready, Exists, root, the_null_expr

(* init() makes the null expression. *)
LEMMA InitStep ==
  ASSUME IInv, init
  PROVE  Ready'
<1>1. heap = EmptyHeap /\ phase' = "ready"
  BY DEF IInv, init
<1>2. PICK n \in FreeNodes(heap) :
        heap' = inc_refcount(NewLeaf(heap, n, "null"), Library, n)
  BY DEF init
<1>3. Good(heap) /\ Acyclic(heap) /\ Library \in Holder /\ heap.ptr[Library] = NoNode
  <2>1. Good(EmptyHeap)
    BY EmptyHeapIsGood
  <2>2. Acyclic(EmptyHeap) /\ EmptyHeap.ptr[Library] = NoNode
    BY HandlesAreHolders, HoldersAreSlots DEF EmptyHeap, Acyclic, FreeNodes
  <2> QED BY <1>1, <2>1, <2>2, HandlesAreHolders
<1>4. "null" \in Label /\ n \in Node /\ n # NoNode
      /\ heap.kind \in [Node -> Label \cup {Free}]
  BY <1>3, NodesAssumption DEF Good, Sound, Heap, Label, FreeNodes
<1>5. Grows(heap, heap', Library, n) /\ heap'.kind = [heap.kind EXCEPT ![n] = "null"]
  BY <1>2, <1>3, <1>4, LeafGrows
<1> QED BY <1>1, <1>4, <1>5 DEF Grows, Ready, Exists, root, the_null_expr

(* expression(), expression(const expression&): one more user of a node in use. *)
LEMMA TakeStep ==
  ASSUME Ready, phase' = "ready", NEW a \in Handle, ~Exists(a),
         NEW b \in Holder, Exists(b), heap' = inc_refcount(heap, a, root(b))
  PROVE  Ready'
<1>1. /\ Good(heap) /\ Acyclic(heap) /\ heap.ptr[a] = NoNode /\ heap.ptr[b] # NoNode
      /\ a \in Holder /\ a # Library /\ Library \in Holder
  BY HandlesAreHolders DEF Ready, Exists, root
<1>2. Grows(heap, heap', a, root(b))
  <2>1. heap' = inc_refcount(heap, a, heap.ptr[b])
    BY DEF root
  <2>2. Grows(heap, heap', a, heap.ptr[b])
    BY ONLY <1>1, <2>1, b \in Holder, TakeGrows
  <2> QED BY <2>2 DEF root
<1>3. the_null_expr \in Node /\ heap.kind[the_null_expr] # Free
  BY <1>1, HeldNodes DEF Ready, the_null_expr
<1> QED BY <1>1, <1>2, <1>3, StaysReady DEF Grows

(* An object created with a node just made, whose constructor counted nodes in use. *)
LEMMA MakeStep ==
  ASSUME Ready, phase' = "ready", NEW a \in Handle, ~Exists(a),
         NEW n \in FreeNodes(heap), NEW k \in Label, NEW f, Sound(f),
         f.kind = [heap.kind EXCEPT ![n] = k], f.dying = heap.dying, f.refs[n] = 0,
         \A b \in Holder : f.ptr[b] = heap.ptr[b],
         \A m \in Node : m # n => (f.refs[m] = 0 <=> heap.refs[m] = 0),
         \A m \in Node \ {n}, d \in Side : f.ptr[<<m, d>>] = heap.ptr[<<m, d>>],
         \A d \in Side : f.ptr[<<n, d>>] # n,
         heap' = inc_refcount(f, a, n)
  PROVE  Ready'
<1>1. /\ Good(heap) /\ Acyclic(heap) /\ heap.ptr[a] = NoNode
      /\ a \in Holder /\ a # Library /\ Library \in Holder
  BY HandlesAreHolders DEF Ready, Exists, root
<1>2. LET g == inc_refcount(f, a, n) IN
      Grows(heap, g, a, n) /\ g.kind = [heap.kind EXCEPT ![n] = k]
  BY <1>1, NodeGrows
<1>3. Grows(heap, heap', a, n)
  BY <1>2
<1>4. the_null_expr \in Node /\ heap.kind[the_null_expr] # Free
  BY <1>1, HeldNodes DEF Ready, the_null_expr
<1> QED BY <1>1, <1>3, <1>4, StaysReady DEF Grows

(* ~expression(): one user less, and the destructor of a node without users. *)
LEMMA DestroyStep ==
  ASSUME Ready, NEW a \in Handle, Exists(a)
  PROVE  LET g == dec_refcount(heap, a) IN
         /\ Good(g) /\ Acyclic(g) /\ g.kind = heap.kind
         /\ g.ptr = [heap.ptr EXCEPT ![a] = NoNode]
         /\ g.refs = [heap.refs EXCEPT ![root(a)] = @ - 1]
<1>1. /\ Good(heap) /\ Acyclic(heap) /\ Sound(heap) /\ heap.ptr[a] # NoNode
      /\ a \in Slot /\ a \in Holder
  BY HandlesAreHolders, HoldersAreSlots DEF Ready, Good, Exists, root
<1>2. Good(dec_refcount(heap, a)) /\ Acyclic(dec_refcount(heap, a))
  <2>1. Shrinks(heap, dec_refcount(heap, a), a)
    BY ONLY <1>1, DecShrinks
  <2> QED BY <2>1 DEF Shrinks
<1>3. LET g == dec_refcount(heap, a) IN
      /\ g.kind = heap.kind /\ g.ptr = [heap.ptr EXCEPT ![a] = NoNode]
      /\ g.refs = [heap.refs EXCEPT ![heap.ptr[a]] = @ - 1]
  BY ONLY <1>1, DecKeeps
<1> QED BY <1>2, <1>3 DEF root

(* A count raised and then lowered is what it was, even where it wraps. *)
LEMMA UpAndDown ==
  ASSUME NEW x \in Nat, NEW m \in Nat, x < m
  PROVE  (((x + 1) % m) - 1) % m = x
<1>1. CASE x + 1 = m
  <2>1. (x + 1) % m = 0
    BY <1>1
  <2>2. (0 - 1) % m = m - 1
    BY <1>1
  <2> QED BY <1>1, <2>1, <2>2
<1>2. CASE x + 1 < m
  <2>1. (x + 1) % m = x + 1
    BY <1>2, ModSmall
  <2>2. ((x + 1) % m) - 1 = x
    BY <2>1
  <2> QED BY <2>2, ModSmall
<1> QED BY <1>1, <1>2

(* Two counts of different nodes may be changed in either order. *)
LEMMA OtherOrder ==
  ASSUME NEW S, NEW f, f = [z \in S |-> f[z]], NEW x, NEW y, x # y, NEW u, NEW v
  PROVE  [[f EXCEPT ![x] = u] EXCEPT ![y] = v] = [[f EXCEPT ![y] = v] EXCEPT ![x] = u]
  OBVIOUS

(* operator=: of an object to itself, or to one with the same node, it       *)
(* changes nothing; otherwise the new node is in use whatever becomes of    *)
(* the old one.                                                             *)
LEMMA AssignStep ==
  ASSUME Ready, phase' = "ready", NEW a \in Handle, NEW b \in Handle, Assign(a, b)
  PROVE  Ready'
<1> DEFINE n == root(a)
           e == root(b)
           c == RaiseCount(heap, e)
           d == dec_refcount(c, a)
           left == (c.refs[n] - 1) % RefMod
<1>1. Exists(a) /\ Exists(b)
  BY DEF Assign
<1>2. /\ n \in Node /\ heap.kind[n] # Free /\ heap.refs[n] \in Nat /\ heap.refs[n] > 0
      /\ e \in Node /\ heap.kind[e] # Free /\ heap.refs[e] \in Nat /\ heap.refs[e] > 0
  BY <1>1, HandlesAreHolders, HeldNodes
<1>3. /\ Good(heap) /\ heap \in Heap
      /\ heap.ptr \in [Slot -> Node \cup {NoNode}] /\ heap.refs \in [Node -> 0..RefMod - 1]
      /\ heap = [kind |-> heap.kind, ptr |-> heap.ptr, refs |-> heap.refs, dying |-> heap.dying]
      /\ RefMod \in Nat /\ RefMod > 0
  <2>1. Good(heap) /\ heap \in Heap
    BY DEF Ready, Good, Sound
  <2>2. Cardinality(Slot) \in Nat
    BY CountsAssumption, FS_CardinalityType
  <2> QED BY <2>1, <2>2, CountsAssumption DEF Heap
<1>4. a \in Slot /\ a \in Holder /\ a # Library /\ Library \in Slot
  BY HandlesAreHolders, HoldersAreSlots
<1>5. /\ heap'.kind = heap.kind
      /\ heap'.ptr = [heap.ptr EXCEPT ![a] = e]
      /\ heap'.refs = [[heap.refs EXCEPT ![e] = (heap.refs[e] + 1) % RefMod] EXCEPT ![n] = left]
      /\ heap'.dying = IF left = 0 THEN Append(heap.dying, n) ELSE heap.dying
      /\ heap' = [kind |-> heap'.kind, ptr |-> heap'.ptr,
                  refs |-> heap'.refs, dying |-> heap'.dying]
  <2>1. /\ c.kind = heap.kind /\ c.ptr = heap.ptr /\ c.dying = heap.dying
        /\ c.refs = [heap.refs EXCEPT ![e] = (heap.refs[e] + 1) % RefMod]
        /\ c.ptr[a] = n
    BY DEF RaiseCount, root
  <2>2. /\ d.kind = heap.kind /\ d.ptr = [heap.ptr EXCEPT ![a] = NoNode]
        /\ d.refs = [c.refs EXCEPT ![n] = left]
        /\ d.dying = IF left = 0 THEN Append(heap.dying, n) ELSE heap.dying
    BY <2>1 DEF dec_refcount
  <2>3. heap' = SetUncounted(d, a, e)
    BY DEF Assign
  <2> HIDE DEF d
  <2>4. /\ heap'.kind = d.kind /\ heap'.ptr = [d.ptr EXCEPT ![a] = e]
        /\ heap'.refs = d.refs /\ heap'.dying = d.dying
        /\ heap' = [kind |-> heap'.kind, ptr |-> heap'.ptr,
                    refs |-> heap'.refs, dying |-> heap'.dying]
    BY <2>3 DEF SetUncounted
  <2>5. [d.ptr EXCEPT ![a] = e] = [heap.ptr EXCEPT ![a] = e]
    BY <2>2, <1>3, <1>4
  <2> QED BY <2>1, <2>2, <2>4, <2>5
<1>6. CASE n = e
  <2>1. c.refs[n] = (heap.refs[n] + 1) % RefMod
    BY <1>2, <1>3, <1>6 DEF RaiseCount
  <2>2. heap.refs[n] < RefMod
    BY <1>2, <1>3
  <2>3. left = heap.refs[n]
    <3>1. left = (((heap.refs[n] + 1) % RefMod) - 1) % RefMod
      BY <2>1
    <3> QED BY ONLY <3>1, <2>2, <1>2, <1>3, UpAndDown
  <2> HIDE DEF left
  <2>4. heap'.refs = heap.refs /\ heap'.dying = heap.dying /\ heap'.ptr = heap.ptr
    BY <2>3, <1>2, <1>3, <1>4, <1>5, <1>6 DEF root
  <2>5. heap' = heap
    BY <2>4, <1>3, <1>5
  <2> QED BY <2>5, <1>3, StaysReady DEF Ready
<1>7. CASE n # e
  <2> DEFINE g == dec_refcount(heap, a)
  <2>1. /\ Good(g) /\ g.kind = heap.kind
        /\ g.ptr = [heap.ptr EXCEPT ![a] = NoNode]
        /\ g.refs = [heap.refs EXCEPT ![n] = @ - 1]
    BY <1>1, DestroyStep
  <2>2. left = (heap.refs[n] - 1) % RefMod
    BY <1>2, <1>3, <1>7 DEF RaiseCount
  <2>3. /\ g.refs = [heap.refs EXCEPT ![n] = left]
        /\ g.dying = IF left = 0 THEN Append(heap.dying, n) ELSE heap.dying
    BY <2>2 DEF dec_refcount, root
  <2> HIDE DEF g, left
  <2>4. g.ptr[a] = NoNode /\ g.kind[e] # Free /\ g.refs[e] = heap.refs[e]
    BY <2>1, <1>2, <1>3, <1>4, <1>7
  <2>5. LET i == inc_refcount(g, a, e) IN
        Good(i) /\ i.kind = g.kind /\ i.ptr = [g.ptr EXCEPT ![a] = e]
    <3>1. /\ Good(g) /\ a \in Holder /\ g.ptr[a] = NoNode
          /\ e \in Node /\ g.kind[e] # Free /\ g.refs[e] > 0
      BY <2>1, <2>4, <1>2, <1>4
    <3> HIDE DEF e
    <3> QED BY ONLY <3>1, TakeKeeps
  <2>6. heap' = inc_refcount(g, a, e)
    <3> DEFINE i == inc_refcount(g, a, e)
    <3>1. /\ i.kind = g.kind /\ i.ptr = [g.ptr EXCEPT ![a] = e]
          /\ i.refs = [g.refs EXCEPT ![e] = (g.refs[e] + 1) % RefMod] /\ i.dying = g.dying
          /\ i = [kind |-> i.kind, ptr |-> i.ptr, refs |-> i.refs, dying |-> i.dying]
      BY DEF inc_refcount
    <3> HIDE DEF i
    <3>2. i.ptr = heap'.ptr
      BY <3>1, <2>1, <1>3, <1>4, <1>5
    <3>3. i.refs = heap'.refs
      <4> DEFINE more == (heap.refs[e] + 1) % RefMod
      <4>1. heap.refs = [z \in Node |-> heap.refs[z]]
        BY <1>3
      <4>2. [[heap.refs EXCEPT ![e] = more] EXCEPT ![n] = left]
              = [[heap.refs EXCEPT ![n] = left] EXCEPT ![e] = more]
        BY ONLY <4>1, <1>7, OtherOrder
      <4> QED BY <3>1, <2>3, <2>4, <4>2, <1>5
    <3>4. i.kind = heap'.kind /\ i.dying = heap'.dying
      BY <3>1, <2>1, <2>3, <1>5
    <3>5. i = heap'
      BY <3>1, <3>2, <3>3, <3>4, <1>5
    <3> QED BY <3>5 DEF i
  <2>7. Good(heap')
    BY <2>5, <2>6
  <2>8. Acyclic(heap')
    <3>1. \A m \in Node, x \in Side : <<m, x>> \in Slot /\ <<m, x>> # a
      BY <1>4, HoldersAreSlots DEF Slot
    <3>2. /\ \A m \in Node : heap.kind[m] = Free => heap'.kind[m] = Free
          /\ \A m \in Node, x \in Side : heap'.ptr[<<m, x>>] \in {heap.ptr[<<m, x>>], NoNode}
      BY <3>1, <1>3, <1>4, <1>5
    <3>3. Acyclic(heap)
      BY DEF Ready
    <3> QED BY ONLY <3>2, <3>3, LessIsAcyclic
  <2> QED BY <2>7, <2>8, <1>3, <1>4, <1>5, StaysReady
<1> QED BY <1>6, <1>7

(* An object created with a new node that counts the node e *)
LEMMA UnaryNodeStep ==
  ASSUME Ready, phase' = "ready", NEW a \in Handle, ~Exists(a),
         NEW n \in FreeNodes(heap), NEW k \in Label \ {"null"},
         NEW e \in Node, heap.kind[e] # Free, heap.refs[e] > 0,
         heap' = inc_refcount(NewUnary(heap, n, k, e), a, n)
  PROVE  Ready'
<1> DEFINE f == NewUnary(heap, n, k, e)
<1>1. Sound(heap) /\ heap.refs \in [Node -> 0..RefMod - 1] /\ k \in Label
  BY DEF Ready, Good, Sound, Heap
<1>2. /\ Sound(f) /\ f.kind = [heap.kind EXCEPT ![n] = k]
      /\ f.ptr = [heap.ptr EXCEPT ![<<n, "left">>] = e]
      /\ f.refs = [heap.refs EXCEPT ![e] = @ + 1]
      /\ f.dying = heap.dying /\ heap.refs[n] = 0 /\ n # e
  BY ONLY <1>1, NewUnaryKeeps, n \in FreeNodes(heap), k \in Label \ {"null"},
          e \in Node, heap.kind[e] # Free
<1>3. heap' = inc_refcount(f, a, n)
  OBVIOUS
<1> HIDE DEF f
<1>4. n \in Node /\ heap.ptr \in [Slot -> Node \cup {NoNode}]
  BY <1>1 DEF FreeNodes, Sound, Heap
<1>5. f.refs[n] = 0 /\ \A m \in Node : m # n => (f.refs[m] = 0 <=> heap.refs[m] = 0)
  BY <1>1, <1>2, <1>4
<1>6. \A h \in Holder : f.ptr[h] = heap.ptr[h]
  <2>1. \A h \in Holder : h \in Slot /\ h # <<n, "left">>
    BY <1>4, HoldersAreSlots DEF Side
  <2> QED BY <2>1, <1>2, <1>4
<1>7. /\ \A m \in Node \ {n}, d \in Side : f.ptr[<<m, d>>] = heap.ptr[<<m, d>>]
      /\ \A d \in Side : f.ptr[<<n, d>>] # n
  <2>1. \A m \in Node, d \in Side : <<m, d>> \in Slot
    BY DEF Slot
  <2>2. heap.kind[n] = Free /\ n # NoNode
    BY <1>4, NodesAssumption DEF FreeNodes
  <2>3. \A d \in Side : heap.ptr[<<n, d>>] = NoNode
    BY <2>2, <1>1, <1>4 DEF Sound, Bare
  <2> QED BY <2>1, <2>2, <2>3, <1>2, <1>4 DEF Side
<1> QED BY ONLY Ready, phase' = "ready", a \in Handle, ~Exists(a), n \in FreeNodes(heap),
            <1>1, <1>2, <1>3, <1>5, <1>6, <1>7, MakeStep

(* The same with two nodes, which may be the same *)
LEMMA BinaryNodeStep ==
  ASSUME Ready, phase' = "ready", NEW a \in Handle, ~Exists(a),
         NEW n \in FreeNodes(heap), NEW k \in Label \ {"null"},
         NEW el \in Node, heap.kind[el] # Free, heap.refs[el] > 0,
         NEW er \in Node, heap.kind[er] # Free, heap.refs[er] > 0,
         heap' = inc_refcount(NewBinary(heap, n, k, el, er), a, n)
  PROVE  Ready'
<1> DEFINE f == NewBinary(heap, n, k, el, er)
<1>1. Sound(heap) /\ heap.refs \in [Node -> 0..RefMod - 1] /\ k \in Label
  BY DEF Ready, Good, Sound, Heap
<1>2. /\ Sound(f) /\ f.kind = [heap.kind EXCEPT ![n] = k]
      /\ f.ptr = [heap.ptr EXCEPT ![<<n, "left">>] = el, ![<<n, "right">>] = er]
      /\ f.refs = [[heap.refs EXCEPT ![el] = @ + 1] EXCEPT ![er] = @ + 1]
      /\ f.dying = heap.dying /\ heap.refs[n] = 0 /\ n # el /\ n # er
  BY ONLY <1>1, NewBinaryKeeps, n \in FreeNodes(heap), k \in Label \ {"null"},
          el \in Node, heap.kind[el] # Free, er \in Node, heap.kind[er] # Free
<1>3. heap' = inc_refcount(f, a, n)
  OBVIOUS
<1> HIDE DEF f
<1>4. n \in Node /\ heap.ptr \in [Slot -> Node \cup {NoNode}]
  BY <1>1 DEF FreeNodes, Sound, Heap
<1>5. f.refs[n] = 0 /\ \A m \in Node : m # n => (f.refs[m] = 0 <=> heap.refs[m] = 0)
  BY <1>1, <1>2, <1>4
<1>6. \A h \in Holder : f.ptr[h] = heap.ptr[h]
  <2>1. \A h \in Holder : h \in Slot /\ h # <<n, "left">> /\ h # <<n, "right">>
    BY <1>4, HoldersAreSlots DEF Side
  <2> QED BY <2>1, <1>2, <1>4
<1>7. /\ \A m \in Node \ {n}, d \in Side : f.ptr[<<m, d>>] = heap.ptr[<<m, d>>]
      /\ \A d \in Side : f.ptr[<<n, d>>] # n
  <2>1. \A m \in Node, d \in Side : <<m, d>> \in Slot
    BY DEF Slot
  <2>2. heap.kind[n] = Free /\ n # NoNode
    BY <1>4, NodesAssumption DEF FreeNodes
  <2>3. \A d \in Side : heap.ptr[<<n, d>>] = NoNode
    BY <2>2, <1>1, <1>4 DEF Sound, Bare
  <2> QED BY <2>1, <2>2, <2>3, <1>2, <1>4 DEF Side
<1> QED BY ONLY Ready, phase' = "ready", a \in Handle, ~Exists(a), n \in FreeNodes(heap),
            <1>1, <1>2, <1>3, <1>5, <1>6, <1>7, MakeStep

(* The same with no other node *)
LEMMA LeafNodeStep ==
  ASSUME Ready, phase' = "ready", NEW a \in Handle, ~Exists(a),
         NEW n \in FreeNodes(heap), NEW k \in Label,
         heap' = inc_refcount(NewLeaf(heap, n, k), a, n)
  PROVE  Ready'
<1> DEFINE f == NewLeaf(heap, n, k)
<1>1. Sound(heap)
  BY DEF Ready, Good
<1>2. /\ Sound(f) /\ f.kind = [heap.kind EXCEPT ![n] = k]
      /\ f.ptr = heap.ptr /\ f.refs = heap.refs /\ f.dying = heap.dying
      /\ heap.refs[n] = 0
  BY ONLY <1>1, NewLeafKeeps, n \in FreeNodes(heap), k \in Label
<1>3. heap' = inc_refcount(f, a, n)
  OBVIOUS
<1> HIDE DEF f
<1>4. /\ f.refs[n] = 0 /\ \A h \in Holder : f.ptr[h] = heap.ptr[h]
      /\ \A m \in Node : m # n => (f.refs[m] = 0 <=> heap.refs[m] = 0)
      /\ \A m \in Node \ {n}, d \in Side : f.ptr[<<m, d>>] = heap.ptr[<<m, d>>]
  BY <1>2
<1>5. \A d \in Side : f.ptr[<<n, d>>] # n
  BY <1>1, <1>2, NodesAssumption DEF FreeNodes, Sound, Bare
<1> QED BY ONLY Ready, phase' = "ready", a \in Handle, ~Exists(a), n \in FreeNodes(heap),
            k \in Label, <1>2, <1>3, <1>4, <1>5, MakeStep

(* operator-(e), cos(e)...: a node that counts the node of its argument *)
LEMMA MakeUnaryStep ==
  ASSUME Ready, phase' = "ready", NEW a \in Handle, NEW b \in Handle, NEW k \in Unary,
         MakeUnary(a, k, b)
  PROVE  Ready'
<1>1. PICK n \in FreeNodes(heap) :
        heap' = inc_refcount(NewUnary(heap, n, k, root(b)), a, n)
  BY DEF MakeUnary
<1>2. root(b) \in Node /\ heap.kind[root(b)] # Free /\ heap.refs[root(b)] > 0 /\ ~Exists(a)
  BY HandlesAreHolders, HeldNodes DEF MakeUnary
<1>3. k \in Label \ {"null"}
  BY LabelsAssumption DEF Label
<1> QED BY <1>1, <1>2, <1>3, UnaryNodeStep

(* operator+(el, er)...: a node that counts the nodes of its two arguments *)
LEMMA MakeBinaryStep ==
  ASSUME Ready, phase' = "ready", NEW a \in Handle, NEW b \in Handle, NEW c \in Handle,
         NEW k \in Binary, MakeBinary(a, k, b, c)
  PROVE  Ready'
<1>1. PICK n \in FreeNodes(heap) :
        heap' = inc_refcount(NewBinary(heap, n, k, root(b), root(c)), a, n)
  BY DEF MakeBinary
<1>2. /\ root(b) \in Node /\ heap.kind[root(b)] # Free /\ heap.refs[root(b)] > 0
      /\ root(c) \in Node /\ heap.kind[root(c)] # Free /\ heap.refs[root(c)] > 0
      /\ ~Exists(a)
  BY HandlesAreHolders, HeldNodes DEF MakeBinary
<1>3. k \in Label \ {"null"}
  BY LabelsAssumption DEF Label
<1> QED BY <1>1, <1>2, <1>3, BinaryNodeStep

(* expression(double), expression(const interval&) *)
LEMMA MakeLeafStep ==
  ASSUME Ready, phase' = "ready", NEW a \in Handle, NEW k \in Leaf, MakeLeaf(a, k)
  PROVE  Ready'
<1>1. PICK n \in FreeNodes(heap) : heap' = inc_refcount(NewLeaf(heap, n, k), a, n)
  BY DEF MakeLeaf
<1>2. k \in Label /\ ~Exists(a)
  BY DEF Label, MakeLeaf
<1> QED BY <1>1, <1>2, LeafNodeStep

(* clone(): a node that counts the members of another *)
LEMMA CloneStep ==
  ASSUME Ready, phase' = "ready", NEW a \in Handle, NEW b \in Handle, Clone(a, b)
  PROVE  Ready'
<1> DEFINE m == root(b)
           k == heap.kind[m]
           el == heap.ptr[<<m, "left">>]
           er == heap.ptr[<<m, "right">>]
<1>1. PICK n \in FreeNodes(heap) : heap' = inc_refcount(Cloned(heap, n, m), a, n)
  BY DEF Clone
<1>2. ~Exists(a) /\ m \in Node /\ k \in Label
  BY HandlesAreHolders, HeldNodes DEF Clone, Ready, Good, Sound, Heap
<1>3. Sound(heap) /\ <<m, "left">> \in Slot /\ <<m, "right">> \in Slot
  BY <1>2 DEF Ready, Good, Slot, Side
<1>4. el # NoNode => /\ el \in Node /\ heap.kind[el] # Free /\ heap.refs[el] > 0
                     /\ k \in Label \ {"null"}
  <2> SUFFICES ASSUME el # NoNode
               PROVE  /\ el \in Node /\ heap.kind[el] # Free /\ heap.refs[el] > 0
                      /\ k \in Label \ {"null"}
    OBVIOUS
  <2>1. el \in Node /\ heap.kind[el] # Free /\ heap.refs[el] > 0
    <3> DEFINE s == <<m, "left">>
    <3>1. s \in Slot /\ heap.ptr[s] # NoNode
      BY <1>3
    <3> HIDE DEF s
    <3>2. heap.ptr[s] \in Node /\ heap.kind[heap.ptr[s]] # Free /\ heap.refs[heap.ptr[s]] > 0
      BY ONLY <1>3, <3>1, Referenced
    <3> QED BY <3>2 DEF s
  <2>2. k # "null"
    BY <1>2, <1>3 DEF Sound, Bare, Side
  <2> QED BY <2>1, <2>2, <1>2
<1>5. er # NoNode => er \in Node /\ heap.kind[er] # Free /\ heap.refs[er] > 0
  <2> SUFFICES ASSUME er # NoNode
               PROVE  er \in Node /\ heap.kind[er] # Free /\ heap.refs[er] > 0
    OBVIOUS
  <2> DEFINE s == <<m, "right">>
  <2>1. s \in Slot /\ heap.ptr[s] # NoNode
    BY <1>3
  <2> HIDE DEF s
  <2>2. heap.ptr[s] \in Node /\ heap.kind[heap.ptr[s]] # Free /\ heap.refs[heap.ptr[s]] > 0
    BY ONLY <1>3, <2>1, Referenced
  <2> QED BY <2>2 DEF s
<1> HIDE DEF m
<1>6. CASE el = NoNode
  <2>1. heap' = inc_refcount(NewLeaf(heap, n, k), a, n)
    BY <1>1, <1>6 DEF Cloned
  <2> HIDE DEF k
  <2> QED BY <2>1, <1>2, LeafNodeStep
<1>7. CASE el # NoNode /\ er = NoNode
  <2>1. heap' = inc_refcount(NewUnary(heap, n, k, el), a, n)
    BY <1>1, <1>7 DEF Cloned
  <2> HIDE DEF k, el, er
  <2> QED BY <2>1, <1>2, <1>4, <1>7, UnaryNodeStep
<1>8. CASE el # NoNode /\ er # NoNode
  <2>1. heap' = inc_refcount(NewBinary(heap, n, k, el, er), a, n)
    BY <1>1, <1>8 DEF Cloned
  <2> HIDE DEF k, el, er
  <2> QED BY <2>1, <1>2, <1>4, <1>5, <1>8, BinaryNodeStep
<1> QED BY <1>6, <1>7, <1>8

(* A destructor's step: what it frees, the library does not hold. *)
LEMMA DestructStep ==
  ASSUME Ready, phase' = "ready", Destruct
  PROVE  Ready'
<1>1. Good(heap) /\ heap.dying # <<>> /\ heap' = Destructor(heap)
  BY DEF Ready, Destruct
<1>2. /\ Good(heap')
      /\ \A a \in Holder : heap'.ptr[a] = heap.ptr[a]
      /\ \A m \in Node : heap.refs[m] > 0 => heap'.kind[m] = heap.kind[m]
  BY <1>1, DestructorKeeps
<1>3. the_null_expr \in Node /\ heap.refs[the_null_expr] > 0
  BY HandlesAreHolders, HeldNodes DEF Ready, the_null_expr
<1>4. Acyclic(heap')
  BY <1>1, DestructorIsAcyclic DEF Ready
<1> QED BY <1>2, <1>3, <1>4, HandlesAreHolders, StaysReady

(* ~expression() as a step *)
LEMMA DestroyKeepsReady ==
  ASSUME Ready, phase' = "ready", NEW a \in Handle, Destroy(a)
  PROVE  Ready'
<1>1. Exists(a) /\ heap' = dec_refcount(heap, a) /\ a # Library /\ Library \in Slot
  BY HandlesAreHolders, HoldersAreSlots DEF Destroy
<1>2. /\ Good(heap') /\ Acyclic(heap') /\ heap'.kind = heap.kind
      /\ heap'.ptr = [heap.ptr EXCEPT ![a] = NoNode]
  BY <1>1, DestroyStep
<1>3. heap.ptr \in [Slot -> Node \cup {NoNode}]
  BY DEF Ready, Good, Sound, Heap
<1> QED BY <1>1, <1>2, <1>3, StaysReady

(* cleanup() ends the use of the heap, with no destructor in progress. *)
LEMMA CleanupStep ==
  ASSUME Ready, cleanup
  PROVE  IInv'
<1>1. the_null_expr \in Node
  BY HandlesAreHolders, HeldNodes DEF Ready, the_null_expr
<1>2. /\ heap \in Heap /\ RefMod \in Nat /\ RefMod > 0 /\ heap.dying = <<>>
  <2>1. Cardinality(Slot) \in Nat
    BY CountsAssumption, FS_CardinalityType
  <2> QED BY <2>1, CountsAssumption DEF Ready, Good, Sound, cleanup, Idle
<1>3. heap' = [heap EXCEPT !.kind[the_null_expr] = Free,
                           !.refs[the_null_expr] = 0,
                           !.ptr[Library] = NoNode] /\ phase' = "cleaned"
  BY DEF cleanup
<1>4. heap' \in Heap /\ heap'.dying = <<>>
  <2>1. /\ heap'.kind = [heap.kind EXCEPT ![the_null_expr] = Free]
        /\ heap'.refs = [heap.refs EXCEPT ![the_null_expr] = 0]
        /\ heap'.ptr = [heap.ptr EXCEPT ![Library] = NoNode]
        /\ heap'.dying = heap.dying
        /\ heap' = [kind |-> heap'.kind, ptr |-> heap'.ptr,
                    refs |-> heap'.refs, dying |-> heap'.dying]
    BY <1>2, <1>3 DEF Heap
  <2>2. /\ heap.kind \in [Node -> Label \cup {Free}] /\ heap.dying \in Seq(Node)
        /\ heap.refs \in [Node -> 0..RefMod - 1] /\ heap.ptr \in [Slot -> Node \cup {NoNode}]
    BY <1>2 DEF Heap
  <2>3. heap'.kind \in [Node -> Label \cup {Free}]
    BY <2>1, <2>2
  <2>4. heap'.refs \in [Node -> 0..RefMod - 1]
    <3>1. 0 \in 0..RefMod - 1
      BY <1>2
    <3> QED BY <3>1, <2>1, <2>2
  <2>5. heap'.ptr \in [Slot -> Node \cup {NoNode}]
    BY <2>1, <2>2
  <2> QED BY <2>1, <2>2, <2>3, <2>4, <2>5, <1>2 DEF Heap
<1> QED BY <1>3, <1>4 DEF IInv, TypeOK

(* The strengthening holds initially. *)
LEMMA InitIInv == Init => IInv
<1> SUFFICES ASSUME Init PROVE IInv
  OBVIOUS
<1>1. heap = EmptyHeap /\ phase = "raw" /\ EmptyHeap \in Heap
  BY EmptyHeapIsGood DEF Init, Good, Sound
<1> QED BY <1>1 DEF IInv, TypeOK

(* Every step of the program keeps it. *)
LEMMA NextIInv == IInv /\ [Next]_vars => IInv'
<1> SUFFICES ASSUME IInv, [Next]_vars PROVE IInv'
  OBVIOUS
<1>1. ASSUME phase = "ready", Ready' PROVE IInv'
  BY <1>1, ReadyKeepsIInv
<1>2. CASE UNCHANGED vars
  <2>1. heap' = heap /\ phase' = phase
    BY <1>2 DEF vars
  <2> QED BY <2>1 DEF IInv, TypeOK, Exists, root, the_null_expr
<1>3. CASE init
  BY <1>3, InitStep, ReadyKeepsIInv
<1>4. CASE cleanup
  <2>1. Ready
    BY <1>4, ReadyIsIInv DEF cleanup, Idle
  <2> QED BY <1>4, <2>1, CleanupStep
<1>5. CASE Destruct
  <2>1. phase = "ready"
    BY <1>5 DEF Destruct, IInv, TypeOK, EmptyHeap
  <2>2. Ready /\ phase' = "ready"
    BY <1>5, <2>1, ReadyIsIInv DEF Destruct
  <2> QED BY <1>5, <2>2, DestructStep, ReadyKeepsIInv
<1>6. ASSUME NEW a \in Handle,
             \/ MakeNull(a) \/ Destroy(a)
             \/ \E k \in Leaf : MakeLeaf(a, k)
             \/ \E b \in Handle : \/ Copy(a, b)
                                  \/ Clone(a, b)
                                  \/ Assign(a, b)
                                  \/ \E k \in Unary : MakeUnary(a, k, b)
             \/ \E b, c \in Handle, k \in Binary : MakeBinary(a, k, b, c)
      PROVE  Ready'
  <2>1. Ready /\ phase' = "ready"
    <3>1. Idle /\ phase' = phase
      BY <1>6 DEF MakeNull, Destroy, MakeLeaf, Copy, Clone, Assign, MakeUnary, MakeBinary
    <3> QED BY <3>1, ReadyIsIInv DEF Idle
  <2>2. CASE MakeNull(a)
    <3>1. /\ ~Exists(a) /\ heap' = inc_refcount(heap, a, root(Library))
          /\ Library \in Holder /\ Exists(Library)
      BY <2>1, <2>2, HandlesAreHolders DEF MakeNull, the_null_expr, Ready
    <3> QED BY <2>1, <3>1, TakeStep
  <2>3. CASE Destroy(a)
    BY <2>1, <2>3, DestroyKeepsReady
  <2>4. ASSUME NEW k \in Leaf, MakeLeaf(a, k) PROVE Ready'
    BY <2>1, <2>4, MakeLeafStep
  <2>5. ASSUME NEW b \in Handle, Copy(a, b) PROVE Ready'
    <3>1. ~Exists(a) /\ b \in Holder /\ Exists(b) /\ heap' = inc_refcount(heap, a, root(b))
      BY <2>5, HandlesAreHolders DEF Copy
    <3> QED BY <2>1, <3>1, TakeStep
  <2>6. ASSUME NEW b \in Handle, Assign(a, b) PROVE Ready'
    BY <2>1, <2>6, AssignStep
  <2>7. ASSUME NEW b \in Handle, NEW k \in Unary, MakeUnary(a, k, b) PROVE Ready'
    BY <2>1, <2>7, MakeUnaryStep
  <2>8. ASSUME NEW b \in Handle, NEW c \in Handle, NEW k \in Binary, MakeBinary(a, k, b, c)
        PROVE  Ready'
    BY <2>1, <2>8, MakeBinaryStep
  <2>9. ASSUME NEW b \in Handle, Clone(a, b) PROVE Ready'
    BY <2>1, <2>9, CloneStep
  <2> QED BY <1>6, <2>2, <2>3, <2>4, <2>5, <2>6, <2>7, <2>8, <2>9
<1>7. CASE CalledAgain
  BY <1>2, <1>7 DEF CalledAgain
<1> QED BY <1>2, <1>3, <1>4, <1>5, <1>6, <1>7, ReadyKeepsIInv DEF Next

(* What the invariant says of the counts *)
LEMMA IInvImplies ==
  IInv => TypeOK /\ CountsAreReferences /\ NothingDangles /\ NoneLostNorDeletedTwice
<1> SUFFICES ASSUME IInv
             PROVE  TypeOK /\ CountsAreReferences /\ NothingDangles /\ NoneLostNorDeletedTwice
  OBVIOUS
<1>1. phase \in {"raw", "ready"} => Good(heap)
  <2>1. phase = "raw" => Good(heap)
    BY EmptyHeapIsGood DEF IInv
  <2>2. phase = "ready" => Good(heap)
    BY ReadyIsIInv DEF Ready
  <2> QED BY <2>1, <2>2
<1> QED BY <1>1 DEF IInv, TypeOK, CountsAreReferences, NothingDangles, NoneLostNorDeletedTwice,
                    Good, Sound

---------------------------------------------------------------------------
(* Whatever the objects and the order of their uses, the variables keep their types. *)
THEOREM TypeCorrect == Spec => []TypeOK
<1>1. Spec => []IInv
  BY InitIInv, NextIInv, PTL DEF Spec
<1>2. IInv => TypeOK
  BY IInvImplies
<1> QED BY <1>1, <1>2, PTL

(* The count of a node is always the number of the slots that refer to it:   *)
(* unsigned counts do not wrap and no use of the class misses one.          *)
THEOREM CountsCorrect == Spec => []CountsAreReferences
<1>1. Spec => []IInv
  BY InitIInv, NextIInv, PTL DEF Spec
<1>2. IInv => CountsAreReferences
  BY IInvImplies
<1> QED BY <1>1, <1>2, PTL

(* No expression and no member of a node ever refers to a freed node. *)
THEOREM NoUseAfterFree == Spec => []NothingDangles
<1>1. Spec => []IInv
  BY InitIInv, NextIInv, PTL DEF Spec
<1>2. IInv => NothingDangles
  BY IInvImplies
<1> QED BY <1>1, <1>2, PTL

(* A node no slot refers to is being deleted, by one destructor. *)
THEOREM NoLeakNoDoubleDelete == Spec => []NoneLostNorDeletedTwice
<1>1. Spec => []IInv
  BY InitIInv, NextIInv, PTL DEF Spec
<1>2. IInv => NoneLostNorDeletedTwice
  BY IInvImplies
<1> QED BY <1>1, <1>2, PTL

(* cleanup() deletes a null node that the library alone refers to, though it *)
(* does not look at its count, and no node is left after it: those of the     *)
(* expressions that the program destroyed were all deleted.                  *)
THEOREM CleanupDeletesTheLast == Spec => CleanupLeavesNothing
<1>1. Spec => []IInv
  BY InitIInv, NextIInv, PTL DEF Spec
<1>2. ASSUME IInv, Next, phase = "ready", phase' = "cleaned"
      PROVE  heap.refs[the_null_expr] = 1 /\ FreeNodes(heap)' = Node
  <2>1. cleanup
    BY <1>2 DEF Next, init, CalledAgain, vars, Destruct, MakeNull, Destroy, MakeLeaf, Copy,
                Clone, Assign, MakeUnary, MakeBinary
  <2>2. Ready /\ heap.dying = <<>>
    BY <1>2, <2>1, ReadyIsIInv DEF cleanup, Idle
  <2>3. \A a \in Holder \ {Library} : heap.ptr[a] = NoNode
    BY <2>1, GraphAssumption DEF cleanup, Exists, root
  <2>4. /\ {n \in Node : heap.kind[n] # Free} = {the_null_expr}
        /\ heap.refs[the_null_expr] = 1
    <3>1. /\ Good(heap) /\ Acyclic(heap) /\ Library \in Holder
          /\ heap.ptr[Library] # NoNode /\ heap.kind[heap.ptr[Library]] = "null"
      BY <2>2, HandlesAreHolders DEF Ready, Exists, root, the_null_expr
    <3>2. {n \in Node : heap.kind[n] # Free} = {heap.ptr[Library]} /\ heap.refs[heap.ptr[Library]] = 1
      BY ONLY <3>1, <2>2, <2>3, OnlyNullIsLeft
    <3> QED BY <3>2 DEF the_null_expr, root
  <2>5. heap \in Heap /\ heap' = [heap EXCEPT !.kind[the_null_expr] = Free,
                                              !.refs[the_null_expr] = 0,
                                              !.ptr[Library] = NoNode]
    BY <2>1, <2>2 DEF cleanup, Ready, Good, Sound
  <2>6. \A n \in Node : heap'.kind[n] = Free
    <3>1. heap.kind \in [Node -> Label \cup {Free}]
      BY <2>5 DEF Heap
    <3>2. heap'.kind = [heap.kind EXCEPT ![the_null_expr] = Free]
      BY <2>5 DEF Heap
    <3> QED BY <3>1, <3>2, <2>4
  <2> QED BY <2>4, <2>6 DEF FreeNodes
<1>3. IInv /\ [Next]_vars => [phase = "ready" /\ phase' = "cleaned" =>
                                 /\ heap.refs[the_null_expr] = 1
                                 /\ FreeNodes(heap)' = Node]_vars
  BY <1>2
<1> QED BY <1>1, <1>3, PTL DEF Spec, CleanupLeavesNothing
============================================================================
