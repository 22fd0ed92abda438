----------------------------- MODULE HeapProof -----------------------------
(***************************************************************************)
(* For any number of nodes and of holders, and any labels: the counts are  *)
(* the numbers of references, nothing refers to a freed node, and a node   *)
(* without a reference is being deleted, once. The invariant of the heap   *)
(* is kept by each primitive that the operations on expressions and the    *)
(* actions of the parser are built from.                                   *)
(***************************************************************************)
EXTENDS ExprNodes, FiniteSetTheorems, TLAPS

(* A heap the operations keep, without what `dying` says *)
Sound(h) == h \in Heap /\ Counted(h) /\ Backed(h) /\ Bare(h)
Good(h) == Sound(h) /\ Destroyed(h)

(* A slot that may take a node: outside the nodes, or a member of a node of *)
(* an expression                                                            *)
MayHold(h, s) ==
  \A m \in Node, d \in Side : s = <<m, d>> => h.kind[m] \notin {Free, "null"}

(* The set of the users of a node is finite, and too small for a count to wrap. *)
LEMMA UsersFinite ==
  ASSUME NEW h, NEW n
  PROVE  /\ IsFiniteSet(Users(h, n))
         /\ Cardinality(Users(h, n)) \in Nat
         /\ Cardinality(Users(h, n)) < RefMod
<1>1. Users(h, n) \in SUBSET Slot
  BY DEF Users
<1>2. IsFiniteSet(Slot) /\ RefMod \in Nat /\ Cardinality(Slot) < RefMod
  BY CountsAssumption
<1>3. IsFiniteSet(Users(h, n)) /\ Cardinality(Users(h, n)) <= Cardinality(Slot)
  BY <1>1, <1>2, FS_Subset
<1>4. Cardinality(Users(h, n)) \in Nat /\ Cardinality(Slot) \in Nat
  BY <1>2, <1>3, FS_CardinalityType
<1> QED BY <1>2, <1>3, <1>4

(* A number below the modulus is its own remainder. *)
LEMMA ModSmall ==
  ASSUME NEW x \in Nat, NEW m \in Nat, x < m
  PROVE  x % m = x
  OBVIOUS

(* A slot that holds a node makes its count positive, and the node is not free. *)
LEMMA Referenced ==
  ASSUME NEW h, Sound(h), NEW s \in Slot, h.ptr[s] # NoNode
  PROVE  /\ h.ptr[s] \in Node
         /\ h.refs[h.ptr[s]] \in Nat
         /\ h.refs[h.ptr[s]] > 0
         /\ h.kind[h.ptr[s]] # Free
<1> DEFINE n == h.ptr[s]
<1>1. h.ptr \in [Slot -> Node \cup {NoNode}] /\ h.refs \in [Node -> 0..RefMod - 1]
  BY DEF Sound, Heap
<1>2. n \in Node
  BY <1>1
<1>3. h.refs[n] = Cardinality(Users(h, n))
  BY <1>2 DEF Sound, Counted
<1>4. s \in Users(h, n) /\ IsFiniteSet(Users(h, n)) /\ Cardinality(Users(h, n)) \in Nat
  BY UsersFinite DEF Users
<1>5. Cardinality(Users(h, n)) # 0
  BY <1>4, FS_EmptySet
<1>6. h.kind[n] # Free
  BY <1>2 DEF Sound, Backed, FreeNodes
<1> QED BY <1>2, <1>3, <1>4, <1>5, <1>6

(* Counting a node that is not free, in a slot that was empty, keeps the heap sound. *)
LEMMA IncKeeps ==
  ASSUME NEW h, Sound(h), NEW s \in Slot, NEW n \in Node,
         h.ptr[s] = NoNode, h.kind[n] # Free,
         MayHold(h, s)
  PROVE  LET g == inc_refcount(h, s, n) IN
         /\ Sound(g)
         /\ g.kind = h.kind /\ g.dying = h.dying
         /\ g.ptr = [h.ptr EXCEPT ![s] = n]
         /\ g.refs = [h.refs EXCEPT ![n] = @ + 1]
<1> DEFINE g == inc_refcount(h, s, n)
<1>1. h \in Heap
  BY DEF Sound
<1>2. /\ h.ptr \in [Slot -> Node \cup {NoNode}]
      /\ h.refs \in [Node -> 0..RefMod - 1]
      /\ h.kind \in [Node -> Label \cup {Free}]
      /\ h.dying \in Seq(Node)
  BY <1>1 DEF Heap
<1>3. /\ g.kind = h.kind /\ g.dying = h.dying
      /\ g.ptr = [h.ptr EXCEPT ![s] = n]
      /\ g.refs = [h.refs EXCEPT ![n] = (h.refs[n] + 1) % RefMod]
      /\ g = [kind |-> g.kind, ptr |-> g.ptr, refs |-> g.refs, dying |-> g.dying]
  BY DEF inc_refcount
<1> HIDE DEF g
<1>4. /\ Cardinality(Users(g, n)) = Cardinality(Users(h, n)) + 1
      /\ \A m \in Node \ {n} : Users(g, m) = Users(h, m)
  <2>1. Users(g, n) = Users(h, n) \cup {s} /\ s \notin Users(h, n)
    BY <1>2, <1>3, NodesAssumption DEF Users
  <2>2. \A m \in Node \ {n} : Users(g, m) = Users(h, m)
    BY <1>2, <1>3, NodesAssumption DEF Users
  <2>3. IsFiniteSet(Users(h, n))
    BY UsersFinite
  <2>4. Cardinality(Users(h, n) \cup {s}) = Cardinality(Users(h, n)) + 1
    BY <2>1, <2>3, FS_AddElement
  <2> QED BY <2>1, <2>2, <2>4
<1>5. /\ Cardinality(Users(g, n)) \in Nat /\ Cardinality(Users(g, n)) < RefMod
      /\ RefMod \in Nat
  BY UsersFinite, CountsAssumption
<1>6. h.refs[n] = Cardinality(Users(h, n)) /\ h.refs[n] \in Nat
  BY <1>2, UsersFinite DEF Sound, Counted
<1>7. (h.refs[n] + 1) % RefMod = h.refs[n] + 1 /\ h.refs[n] + 1 \in 0..RefMod - 1
  BY <1>4, <1>5, <1>6, ModSmall
<1>8. g.refs = [h.refs EXCEPT ![n] = @ + 1]
  BY <1>3, <1>7
<1>9. g \in Heap
  <2>1. g.refs \in [Node -> 0..RefMod - 1]
    BY <1>2, <1>3, <1>7
  <2>2. g.ptr \in [Slot -> Node \cup {NoNode}]
    BY <1>2, <1>3
  <2> QED BY <1>2, <1>3, <2>1, <2>2 DEF Heap
<1>10. Counted(g)
  <2> SUFFICES ASSUME NEW m \in Node PROVE g.refs[m] = Cardinality(Users(g, m))
    BY DEF Counted
  <2>1. CASE m = n
    BY <2>1, <1>2, <1>4, <1>6, <1>8
  <2>2. CASE m # n
    BY <2>2, <1>2, <1>4, <1>8 DEF Sound, Counted
  <2> QED BY <2>1, <2>2
<1>11. Backed(g)
  BY <1>2, <1>3 DEF Sound, Backed, FreeNodes
<1>12. Bare(g)
  <2> SUFFICES ASSUME NEW m \in Node, NEW d \in Side, g.kind[m] \in {Free, "null"}
               PROVE  g.ptr[<<m, d>>] = NoNode
    BY DEF Bare
  <2>1. <<m, d>> \in Slot /\ <<m, d>> # s
    BY <1>3 DEF Slot, MayHold
  <2>2. h.ptr[<<m, d>>] = NoNode
    BY <1>3 DEF Sound, Bare
  <2> QED BY <1>2, <1>3, <2>1, <2>2
<1> QED BY <1>3, <1>8, <1>9, <1>10, <1>11, <1>12 DEF Sound, g

(* A slot that gives up its node keeps the heap sound, and starts the        *)
(* destructor of a node exactly when it was the last to refer to it.        *)
LEMMA DecKeeps ==
  ASSUME NEW h, Sound(h), NEW s \in Slot, h.ptr[s] # NoNode
  PROVE  LET n == h.ptr[s]
             g == dec_refcount(h, s) IN
         /\ Sound(g)
         /\ g.kind = h.kind
         /\ g.ptr = [h.ptr EXCEPT ![s] = NoNode]
         /\ g.refs = [h.refs EXCEPT ![n] = @ - 1]
         /\ g.dying = IF h.refs[n] = 1 THEN Append(h.dying, n) ELSE h.dying
<1> DEFINE n == h.ptr[s]
           g == dec_refcount(h, s)
           left == (h.refs[n] - 1) % RefMod
           dying == IF left = 0 THEN Append(h.dying, n) ELSE h.dying
<1>1. h \in Heap
  BY DEF Sound
<1>2. /\ h.ptr \in [Slot -> Node \cup {NoNode}]
      /\ h.refs \in [Node -> 0..RefMod - 1]
      /\ h.kind \in [Node -> Label \cup {Free}]
      /\ h.dying \in Seq(Node)
  BY <1>1 DEF Heap
<1>3. n \in Node /\ h.refs[n] \in Nat /\ h.refs[n] > 0
  BY Referenced
<1>4. /\ g.kind = h.kind /\ g.dying = dying
      /\ g.ptr = [h.ptr EXCEPT ![s] = NoNode]
      /\ g.refs = [h.refs EXCEPT ![n] = left]
      /\ g = [kind |-> g.kind, ptr |-> g.ptr, refs |-> g.refs, dying |-> g.dying]
  BY DEF dec_refcount
<1> HIDE DEF g
<1>5. /\ Cardinality(Users(g, n)) = Cardinality(Users(h, n)) - 1
      /\ \A m \in Node \ {n} : Users(g, m) = Users(h, m)
  <2>1. Users(g, n) = Users(h, n) \ {s} /\ s \in Users(h, n)
    BY <1>2, <1>3, <1>4, NodesAssumption DEF Users
  <2>2. \A m \in Node \ {n} : Users(g, m) = Users(h, m)
    BY <1>2, <1>3, <1>4, NodesAssumption DEF Users
  <2>3. IsFiniteSet(Users(h, n))
    BY UsersFinite
  <2>4. Cardinality(Users(h, n) \ {s}) = Cardinality(Users(h, n)) - 1
    BY <2>1, <2>3, FS_RemoveElement
  <2> QED BY <2>1, <2>2, <2>4
<1>6. RefMod \in Nat /\ h.refs[n] < RefMod
  BY <1>2, <1>3, CountsAssumption
<1>7. left = h.refs[n] - 1 /\ left \in 0..RefMod - 1
  BY <1>3, <1>6, ModSmall
<1>8. g.refs = [h.refs EXCEPT ![n] = @ - 1]
  BY <1>4, <1>7
<1>9. dying \in Seq(Node) /\ dying = IF h.refs[n] = 1 THEN Append(h.dying, n) ELSE h.dying
  BY <1>2, <1>3, <1>7
<1>10. g \in Heap
  BY <1>2, <1>3, <1>4, <1>7, <1>9 DEF Heap
<1>11. Counted(g)
  <2> SUFFICES ASSUME NEW m \in Node PROVE g.refs[m] = Cardinality(Users(g, m))
    BY DEF Counted
  <2>1. CASE m = n
    BY <2>1, <1>2, <1>3, <1>5, <1>8 DEF Sound, Counted
  <2>2. CASE m # n
    BY <2>2, <1>2, <1>5, <1>8 DEF Sound, Counted
  <2> QED BY <2>1, <2>2
<1>12. Backed(g)
  BY <1>2, <1>4 DEF Sound, Backed, FreeNodes
<1>13. Bare(g)
  <2> SUFFICES ASSUME NEW m \in Node, NEW d \in Side, g.kind[m] \in {Free, "null"}
               PROVE  g.ptr[<<m, d>>] = NoNode
    BY DEF Bare
  <2>1. <<m, d>> \in Slot
    BY DEF Slot
  <2>2. h.ptr[<<m, d>>] = NoNode
    BY <1>4 DEF Sound, Bare
  <2> QED BY <1>2, <1>4, <2>1, <2>2
<1> QED BY <1>4, <1>8, <1>9, <1>10, <1>11, <1>12, <1>13 DEF Sound, g

(* operator new and the constructor of expr_node: a node with no user *)
LEMMA NewLeafKeeps ==
  ASSUME NEW h, Sound(h), NEW n \in FreeNodes(h), NEW k \in Label
  PROVE  LET g == NewLeaf(h, n, k) IN
         /\ Sound(g)
         /\ g.kind = [h.kind EXCEPT ![n] = k]
         /\ g.ptr = h.ptr /\ g.refs = h.refs /\ g.dying = h.dying
         /\ h.refs[n] = 0
<1> DEFINE g == NewLeaf(h, n, k)
<1>1. h \in Heap /\ n \in Node /\ h.kind[n] = Free
  BY DEF Sound, FreeNodes
<1>2. /\ h.ptr \in [Slot -> Node \cup {NoNode}]
      /\ h.refs \in [Node -> 0..RefMod - 1]
      /\ h.kind \in [Node -> Label \cup {Free}]
      /\ h.dying \in Seq(Node)
  BY <1>1 DEF Heap
<1>3. Users(h, n) = {}
  BY <1>1, <1>2, NodesAssumption DEF Users, Sound, Backed, FreeNodes
<1>4. h.refs[n] = 0
  BY <1>1, <1>3, FS_EmptySet DEF Sound, Counted
<1>5. /\ g.kind = [h.kind EXCEPT ![n] = k] /\ g.dying = h.dying
      /\ g.ptr = h.ptr
      /\ g.refs = [h.refs EXCEPT ![n] = 0]
      /\ g = [kind |-> g.kind, ptr |-> g.ptr, refs |-> g.refs, dying |-> g.dying]
  BY DEF NewLeaf
<1> HIDE DEF g
<1>6. g.refs = h.refs
  BY <1>1, <1>2, <1>4, <1>5
<1>7. g \in Heap
  BY <1>2, <1>5, <1>6 DEF Heap
<1>8. Counted(g)
  BY <1>5, <1>6 DEF Counted, Sound, Users
<1>9. Backed(g)
  <2>1. FreeNodes(g) \subseteq FreeNodes(h)
    <3>1. k # Free
      BY LabelsAssumption DEF Label, Free
    <3> QED BY <3>1, <1>1, <1>2, <1>5 DEF FreeNodes
  <2> QED BY <2>1, <1>5 DEF Backed, Sound
<1>10. Bare(g)
  BY <1>1, <1>2, <1>5 DEF Bare, Sound
<1> QED BY <1>4, <1>5, <1>6, <1>7, <1>8, <1>9, <1>10 DEF Sound, g

(* An object of the program, or the library, is no member of a node. *)
LEMMA HoldersAreSlots ==
  ASSUME NEW a \in Holder
  PROVE  /\ a \in Slot /\ \A m \in Node, d \in Side : a # <<m, d>>
         /\ \A h : MayHold(h, a)
  BY HoldersAssumption DEF Slot, MayHold

(* A node just made, with one member: it counts the member and has no user. *)
LEMMA NewUnaryKeeps ==
  ASSUME NEW h, Sound(h), NEW n \in FreeNodes(h), NEW k \in Label \ {"null"},
         NEW e \in Node, h.kind[e] # Free
  PROVE  LET g == NewUnary(h, n, k, e) IN
         /\ Sound(g)
         /\ g.kind = [h.kind EXCEPT ![n] = k]
         /\ g.ptr = [h.ptr EXCEPT ![<<n, "left">>] = e]
         /\ g.refs = [h.refs EXCEPT ![e] = @ + 1]
         /\ g.dying = h.dying
         /\ h.refs[n] = 0 /\ n # e
<1> DEFINE f == NewLeaf(h, n, k)
           s == <<n, "left">>
<1>1. k \in Label /\ k \notin {Free, "null"}
  <2>1. Free \notin Label
    BY LabelsAssumption DEF Label, Free
  <2> QED BY <2>1
<1>2. /\ Sound(f) /\ f.kind = [h.kind EXCEPT ![n] = k]
      /\ f.ptr = h.ptr /\ f.refs = h.refs /\ f.dying = h.dying /\ h.refs[n] = 0
  BY <1>1, NewLeafKeeps
<1>3. n \in Node /\ h.kind[n] = Free /\ n # e /\ h.kind \in [Node -> Label \cup {Free}]
  BY DEF FreeNodes, Sound, Heap
<1>4. s \in Slot /\ h.ptr[s] = NoNode
  BY <1>3 DEF Slot, Side, Sound, Bare
<1>5. f.kind[e] # Free /\ f.ptr[s] = NoNode
  BY <1>2, <1>3, <1>4
<1>6. MayHold(f, s)
  <2>1. f.kind[n] = k
    BY <1>2, <1>3
  <2>2. \A m \in Node, d \in Side : s = <<m, d>> => m = n
    OBVIOUS
  <2> QED BY <1>1, <2>1, <2>2 DEF MayHold
<1> HIDE DEF f, s
<1> DEFINE g == inc_refcount(f, s, e)
<1>7. /\ Sound(g) /\ g.kind = f.kind /\ g.dying = f.dying
      /\ g.ptr = [f.ptr EXCEPT ![s] = e] /\ g.refs = [f.refs EXCEPT ![e] = @ + 1]
  <2>1. Sound(f) /\ s \in Slot /\ f.ptr[s] = NoNode /\ f.kind[e] # Free
    BY <1>2, <1>4, <1>5
  <2> QED BY ONLY <2>1, <1>6, IncKeeps, e \in Node
<1> QED BY <1>2, <1>3, <1>7 DEF NewUnary, f, s

(* The same with two members. *)
LEMMA NewBinaryKeeps ==
  ASSUME NEW h, Sound(h), NEW n \in FreeNodes(h), NEW k \in Label \ {"null"},
         NEW el \in Node, h.kind[el] # Free, NEW er \in Node, h.kind[er] # Free
  PROVE  LET g == NewBinary(h, n, k, el, er) IN
         /\ Sound(g)
         /\ g.kind = [h.kind EXCEPT ![n] = k]
         /\ g.ptr = [h.ptr EXCEPT ![<<n, "left">>] = el, ![<<n, "right">>] = er]
         /\ g.refs = [[h.refs EXCEPT ![el] = @ + 1] EXCEPT ![er] = @ + 1]
         /\ g.dying = h.dying
         /\ h.refs[n] = 0 /\ n # el /\ n # er
<1> DEFINE f == NewUnary(h, n, k, el)
           s == <<n, "right">>
<1>1. k \notin {Free, "null"}
  <2>1. Free \notin Label
    BY LabelsAssumption DEF Label, Free
  <2> QED BY <2>1
<1>2. /\ Sound(f) /\ f.kind = [h.kind EXCEPT ![n] = k]
      /\ f.ptr = [h.ptr EXCEPT ![<<n, "left">>] = el]
      /\ f.refs = [h.refs EXCEPT ![el] = @ + 1]
      /\ f.dying = h.dying /\ h.refs[n] = 0 /\ n # el
  BY NewUnaryKeeps
<1>3. /\ n \in Node /\ h.kind[n] = Free /\ n # er
      /\ h.kind \in [Node -> Label \cup {Free}] /\ h.ptr \in [Slot -> Node \cup {NoNode}]
  BY DEF FreeNodes, Sound, Heap
<1>4. s \in Slot /\ s # <<n, "left">> /\ f.ptr[s] = NoNode
  BY <1>2, <1>3 DEF Slot, Side, Sound, Bare
<1>5. f.kind[er] # Free
  BY <1>2, <1>3
<1>6. MayHold(f, s)
  <2>1. f.kind[n] = k
    BY <1>2, <1>3
  <2>2. \A m \in Node, d \in Side : s = <<m, d>> => m = n
    OBVIOUS
  <2> QED BY <1>1, <2>1, <2>2 DEF MayHold
<1> HIDE DEF f, s
<1> DEFINE g == inc_refcount(f, s, er)
<1>7. /\ Sound(g) /\ g.kind = f.kind /\ g.dying = f.dying
      /\ g.ptr = [f.ptr EXCEPT ![s] = er] /\ g.refs = [f.refs EXCEPT ![er] = @ + 1]
  <2>1. Sound(f) /\ s \in Slot /\ f.ptr[s] = NoNode /\ f.kind[er] # Free
    BY <1>2, <1>4, <1>5
  <2> QED BY ONLY <2>1, <1>6, IncKeeps, er \in Node
<1> QED BY <1>2, <1>3, <1>7 DEF NewBinary, f, s

(* Destructors are started and none forgotten when a slot gives up its node. *)
LEMMA DecDestroys ==
  ASSUME NEW h, Good(h), NEW s \in Slot, h.ptr[s] # NoNode
  PROVE  Good(dec_refcount(h, s))
<1> DEFINE n == h.ptr[s]
           g == dec_refcount(h, s)
           zero(x) == {m \in Node : x.kind[m] # Free /\ x.refs[m] = 0}
<1>1. Sound(h)
  BY DEF Good
<1>2. /\ Sound(g) /\ g.kind = h.kind
      /\ g.refs = [h.refs EXCEPT ![n] = @ - 1]
      /\ g.dying = IF h.refs[n] = 1 THEN Append(h.dying, n) ELSE h.dying
  BY <1>1, DecKeeps
<1>3. n \in Node /\ h.refs[n] \in Nat /\ h.refs[n] > 0 /\ h.kind[n] # Free
  BY <1>1, Referenced
<1>4. h.refs \in [Node -> 0..RefMod - 1] /\ h.dying \in Seq(Node)
  BY <1>1 DEF Sound, Heap
<1>5. /\ {h.dying[i] : i \in 1..Len(h.dying)} = zero(h)
      /\ \A i, j \in 1..Len(h.dying) : h.dying[i] = h.dying[j] => i = j
  BY DEF Good, Destroyed
<1> HIDE DEF g, n
<1>6. CASE h.refs[n] = 1
  <2>1. zero(g) = zero(h) \cup {n} /\ n \notin zero(h)
    BY <1>2, <1>3, <1>4, <1>6
  <2>2. /\ Len(g.dying) = Len(h.dying) + 1 /\ Len(h.dying) \in Nat
        /\ \A i \in 1..Len(h.dying) : g.dying[i] = h.dying[i]
        /\ g.dying[Len(h.dying) + 1] = n
    BY <1>2, <1>3, <1>4, <1>6
  <2>3. {g.dying[i] : i \in 1..Len(g.dying)}
          = {h.dying[i] : i \in 1..Len(h.dying)} \cup {n}
    BY <2>2
  <2>4. \A i \in 1..Len(h.dying) : h.dying[i] # n
    BY <2>1, <1>5
  <2>5. \A i, j \in 1..Len(g.dying) : g.dying[i] = g.dying[j] => i = j
    BY <2>2, <2>4, <1>5
  <2> QED BY <2>1, <2>3, <2>5, <1>2, <1>5 DEF Good, Destroyed, g
<1>7. CASE h.refs[n] # 1
  <2>1. zero(g) = zero(h)
    BY <1>2, <1>3, <1>4, <1>7
  <2> QED BY <2>1, <1>2, <1>5, <1>7 DEF Good, Destroyed, g
<1> QED BY <1>6, <1>7

(* No destructor is started or forgotten when a heap changes in other ways. *)
LEMMA SameDestructors ==
  ASSUME NEW h, NEW g, Good(h), Sound(g), g.dying = h.dying,
         \A m \in Node : (g.kind[m] # Free /\ g.refs[m] = 0)
                           <=> (h.kind[m] # Free /\ h.refs[m] = 0)
  PROVE  Good(g)
<1>1. {m \in Node : g.kind[m] # Free /\ g.refs[m] = 0}
        = {m \in Node : h.kind[m] # Free /\ h.refs[m] = 0}
  OBVIOUS
<1> QED BY <1>1 DEF Good, Destroyed

(* A step of the innermost destructor keeps the heap good, moves no slot    *)
(* outside the nodes, and keeps the label of every node in use.             *)
LEMMA DestructorKeeps ==
  ASSUME NEW h, Good(h), h.dying # <<>>
  PROVE  LET g == Destructor(h) IN
         /\ Good(g)
         /\ \A a \in Holder : g.ptr[a] = h.ptr[a]
         /\ \A m \in Node : h.refs[m] > 0 => g.kind[m] = h.kind[m]
<1> DEFINE g == Destructor(h)
           n == Innermost(h)
           last == Len(h.dying)
<1>1. Sound(h) /\ Destroyed(h)
  BY DEF Good
<1>2. /\ h.ptr \in [Slot -> Node \cup {NoNode}]
      /\ h.refs \in [Node -> 0..RefMod - 1]
      /\ h.kind \in [Node -> Label \cup {Free}]
      /\ h.dying \in Seq(Node)
  BY <1>1 DEF Sound, Heap
<1>3. last \in Nat /\ last > 0 /\ n = h.dying[last] /\ n \in Node
  BY <1>2 DEF Innermost
<1>4. h.kind[n] # Free /\ h.refs[n] = 0
  BY <1>1, <1>3 DEF Destroyed
<1>5. <<n, "left">> \in Slot /\ <<n, "right">> \in Slot
  BY <1>3 DEF Slot, Side
<1>6. \A a \in Holder : a # <<n, "left">> /\ a # <<n, "right">> /\ a \in Slot
  BY <1>3, HoldersAreSlots DEF Side
<1> HIDE DEF n, last
<1>7. ASSUME NEW d \in {"left", "right"}, h.ptr[<<n, d>>] # NoNode,
             g = dec_refcount(h, <<n, d>>)
      PROVE  /\ Good(g)
             /\ \A a \in Holder : g.ptr[a] = h.ptr[a]
             /\ \A m \in Node : h.refs[m] > 0 => g.kind[m] = h.kind[m]
  <2>1. <<n, d>> \in Slot
    BY <1>5
  <2> DEFINE s == <<n, d>>
  <2>2. s \in Slot /\ h.ptr[s] # NoNode /\ g = dec_refcount(h, s)
    BY <1>7, <2>1
  <2> HIDE DEF s
  <2>3. Good(dec_refcount(h, s))
    BY ONLY <2>2, DecDestroys, Good(h)
  <2>4. /\ dec_refcount(h, s).kind = h.kind
        /\ dec_refcount(h, s).ptr = [h.ptr EXCEPT ![s] = NoNode]
    BY ONLY <2>2, <1>1, DecKeeps
  <2>5. \A a \in Holder : a # s /\ a \in Slot
    BY <1>6 DEF s
  <2>6. \A a \in Holder : dec_refcount(h, s).ptr[a] = h.ptr[a]
    BY <2>4, <2>5, <1>2
  <2> QED BY <2>2, <2>3, <2>4, <2>6
<1>8. CASE h.ptr[<<n, "left">>] # NoNode
  <2>1. g = dec_refcount(h, <<n, "left">>)
    BY <1>8 DEF Destructor, n
  <2> QED BY <2>1, <1>7, <1>8
<1>9. CASE h.ptr[<<n, "left">>] = NoNode /\ h.ptr[<<n, "right">>] # NoNode
  <2>1. g = dec_refcount(h, <<n, "right">>)
    BY <1>9 DEF Destructor, n
  <2> QED BY <2>1, <1>7, <1>9
<1>10. CASE h.ptr[<<n, "left">>] = NoNode /\ h.ptr[<<n, "right">>] = NoNode
  <2>1. /\ g.kind = [h.kind EXCEPT ![n] = Free]
        /\ g.ptr = h.ptr /\ g.refs = h.refs
        /\ g.dying = SubSeq(h.dying, 1, last - 1)
        /\ g = [kind |-> g.kind, ptr |-> g.ptr, refs |-> g.refs, dying |-> g.dying]
    BY <1>10 DEF Destructor, n, last
  <2> HIDE DEF g
  <2>2. /\ g.dying \in Seq(Node) /\ Len(g.dying) = last - 1
        /\ \A i \in 1..last - 1 : g.dying[i] = h.dying[i]
    BY <1>2, <1>3, <2>1 DEF last
  <2>3. g \in Heap
    BY <1>2, <2>1, <2>2 DEF Heap, Free
  <2>4. Users(h, n) = {}
    <3>1. h.refs[n] = Cardinality(Users(h, n))
      BY <1>1, <1>3 DEF Sound, Counted
    <3> QED BY <3>1, <1>4, UsersFinite, FS_EmptySet
  <2>5. Counted(g)
    BY <1>1, <2>1 DEF Sound, Counted, Users
  <2>6. Backed(g)
    <3>1. \A s \in Slot : h.ptr[s] # n
      BY <2>4 DEF Users
    <3>2. FreeNodes(g) = FreeNodes(h) \cup {n}
      BY <1>2, <1>3, <2>1 DEF FreeNodes
    <3> QED BY <1>1, <2>1, <3>1, <3>2 DEF Sound, Backed
  <2>7. Bare(g)
    BY <1>1, <1>2, <1>10, <2>1 DEF Sound, Bare, Side
  <2>8. Destroyed(g)
    <3>1. {m \in Node : g.kind[m] # Free /\ g.refs[m] = 0}
            = {m \in Node : h.kind[m] # Free /\ h.refs[m] = 0} \ {n}
      BY <1>2, <1>3, <2>1
    <3>2. {h.dying[i] : i \in 1..last}
            = {m \in Node : h.kind[m] # Free /\ h.refs[m] = 0}
      BY <1>1 DEF Destroyed, last
    <3>3. \A i, j \in 1..last : h.dying[i] = h.dying[j] => i = j
      BY <1>1 DEF Destroyed, last
    <3>4. {g.dying[i] : i \in 1..last - 1} = {h.dying[i] : i \in 1..last} \ {n}
      <4>1. \A i \in 1..last - 1 : i \in 1..last /\ g.dying[i] = h.dying[i] /\ h.dying[i] # n
        BY <2>2, <3>3, <1>3
      <4>2. \A i \in 1..last : h.dying[i] # n => i \in 1..last - 1
        BY <1>3
      <4> QED BY <4>1, <4>2
    <3>5. \A i, j \in 1..last - 1 : g.dying[i] = g.dying[j] => i = j
      <4>1. \A i \in 1..last - 1 : i \in 1..last /\ g.dying[i] = h.dying[i]
        BY <2>2, <1>3
      <4> QED BY <4>1, <3>3
    <3>6. 1..Len(g.dying) = 1..last - 1
      BY <2>2
    <3> QED BY <3>1, <3>2, <3>4, <3>5, <3>6 DEF Destroyed
  <2>9. \A m \in Node : h.refs[m] > 0 => g.kind[m] = h.kind[m]
    BY <1>2, <1>4, <2>1
  <2> QED BY <2>1, <2>3, <2>5, <2>6, <2>7, <2>8, <2>9 DEF Good, Sound, g
<1> QED BY <1>8, <1>9, <1>10

(* An object that takes a node in use, and nothing else, keeps the heap good. *)
LEMMA TakeKeeps ==
  ASSUME NEW h, Good(h), NEW a \in Holder, h.ptr[a] = NoNode,
         NEW n \in Node, h.kind[n] # Free, h.refs[n] > 0
  PROVE  LET g == inc_refcount(h, a, n) IN
         /\ Good(g) /\ g.kind = h.kind /\ g.ptr = [h.ptr EXCEPT ![a] = n]
<1> DEFINE g == inc_refcount(h, a, n)
<1>1. Sound(h) /\ a \in Slot /\ MayHold(h, a)
  BY HoldersAreSlots DEF Good
<1>2. /\ Sound(g) /\ g.kind = h.kind /\ g.dying = h.dying
      /\ g.ptr = [h.ptr EXCEPT ![a] = n] /\ g.refs = [h.refs EXCEPT ![n] = @ + 1]
  BY ONLY <1>1, IncKeeps, n \in Node, h.ptr[a] = NoNode, h.kind[n] # Free
<1> HIDE DEF g
<1>3. h.refs \in [Node -> 0..RefMod - 1]
  BY <1>1 DEF Sound, Heap
<1>4. \A m \in Node : g.refs[m] = 0 <=> h.refs[m] = 0
  BY <1>2, <1>3
<1>5. Good(g)
  BY <1>2, <1>4, SameDestructors
<1> QED BY <1>2, <1>5 DEF g

(* An object that takes a node just made keeps the heap good, whatever other *)
(* nodes in use the constructor of the node counted.                        *)
LEMMA TakeNewKeeps ==
  ASSUME NEW h, Good(h), NEW a \in Holder, h.ptr[a] = NoNode,
         NEW n \in FreeNodes(h), NEW k \in Label, NEW f, Sound(f),
         f.kind = [h.kind EXCEPT ![n] = k], f.dying = h.dying, f.refs[n] = 0,
         \A b \in Holder : f.ptr[b] = h.ptr[b],
         \A m \in Node : m # n => (f.refs[m] = 0 <=> h.refs[m] = 0)
  PROVE  LET g == inc_refcount(f, a, n) IN
         /\ Good(g)
         /\ g.kind = [h.kind EXCEPT ![n] = k]
         /\ g.ptr = [f.ptr EXCEPT ![a] = n]
<1> DEFINE g == inc_refcount(f, a, n)
<1>1. a \in Slot /\ MayHold(f, a) /\ f.ptr[a] = NoNode
  BY HoldersAreSlots
<1>2. n \in Node /\ h.kind[n] = Free /\ h.kind \in [Node -> Label \cup {Free}] /\ k # Free
  BY LabelsAssumption DEF FreeNodes, Good, Sound, Heap, Label, Free
<1>3. f.kind[n] # Free
  BY <1>2
<1>4. /\ Sound(g) /\ g.kind = f.kind /\ g.dying = f.dying
      /\ g.ptr = [f.ptr EXCEPT ![a] = n] /\ g.refs = [f.refs EXCEPT ![n] = @ + 1]
  BY ONLY <1>1, <1>2, <1>3, IncKeeps, Sound(f)
<1> HIDE DEF g
<1>5. f.refs \in [Node -> 0..RefMod - 1]
  BY DEF Sound, Heap
<1>6. ASSUME NEW m \in Node
      PROVE  (g.kind[m] # Free /\ g.refs[m] = 0) <=> (h.kind[m] # Free /\ h.refs[m] = 0)
  <2>1. CASE m = n
    <3>1. g.refs[m] = 1
      BY <2>1, <1>4, <1>5
    <3> QED BY <3>1, <2>1, <1>2
  <2>2. CASE m # n
    <3>1. g.refs[m] = f.refs[m] /\ g.kind[m] = h.kind[m]
      BY <2>2, <1>2, <1>4, <1>5
    <3> QED BY <3>1, <2>2
  <2> QED BY <2>1, <2>2
<1>7. Good(g)
  <2>1. g.dying = h.dying
    BY <1>4
  <2> QED BY ONLY <2>1, <1>4, <1>6, SameDestructors, Good(h)
<1> QED BY <1>4, <1>7 DEF g

(* Before init() nothing is counted and nothing refers to anything. *)
LEMMA EmptyHeapIsGood == Good(EmptyHeap)
<1> DEFINE h == EmptyHeap
<1>1. /\ h.kind = [n \in Node |-> Free] /\ h.ptr = [s \in Slot |-> NoNode]
      /\ h.refs = [n \in Node |-> 0] /\ h.dying = <<>>
      /\ h = [kind |-> h.kind, ptr |-> h.ptr, refs |-> h.refs, dying |-> h.dying]
  BY DEF EmptyHeap
<1> HIDE DEF h
<1>2. RefMod \in Nat /\ RefMod > 0
  <2>1. Cardinality(Slot) \in Nat
    BY CountsAssumption, FS_CardinalityType
  <2> QED BY <2>1, CountsAssumption
<1>3. h \in Heap
  <2>1. h.refs \in [Node -> 0..RefMod - 1]
    BY <1>1, <1>2
  <2>2. h.kind \in [Node -> Label \cup {Free}] /\ h.ptr \in [Slot -> Node \cup {NoNode}]
    BY <1>1
  <2>3. h.dying \in Seq(Node)
    BY <1>1
  <2> QED BY <1>1, <2>1, <2>2, <2>3 DEF Heap
<1>4. Counted(h)
  <2>1. \A n \in Node : Users(h, n) = {}
    BY <1>1, NodesAssumption DEF Users
  <2> QED BY <1>1, <2>1, FS_EmptySet DEF Counted
<1>5. Backed(h) /\ Bare(h)
  <2>1. \A n \in Node, d \in Side : <<n, d>> \in Slot
    BY DEF Slot
  <2>2. Backed(h)
    BY <1>1 DEF Backed
  <2>3. Bare(h)
    BY <1>1, <2>1 DEF Bare
  <2> QED BY <2>2, <2>3
<1>6. Destroyed(h)
  <2>1. Len(h.dying) = 0
    BY <1>1
  <2>2. {n \in Node : h.kind[n] # Free /\ h.refs[n] = 0} = {}
    BY <1>1
  <2> QED BY <2>1, <2>2 DEF Destroyed
<1> QED BY <1>3, <1>4, <1>5, <1>6 DEF Good, Sound, h

---------------------------------------------------------------------------
(* Heap g is h and one more thing: holder a, that held nothing, holds node n. *)
(* The other holders and the nodes in use are as they were.                  *)
Grows(h, g, a, n) ==
  /\ Good(g) /\ Acyclic(g)
  /\ n \in Node /\ g.ptr[a] = n
  /\ \A b \in Holder \ {a} : g.ptr[b] = h.ptr[b]
  /\ \A m \in Node : h.kind[m] # Free => g.kind[m] = h.kind[m]

(* A node just made is a member of none: the heap stays acyclic. *)
LEMMA NewIsAcyclic ==
  ASSUME NEW h, Sound(h), Acyclic(h), NEW n \in FreeNodes(h), NEW k \in Label, NEW g,
         g.kind = [h.kind EXCEPT ![n] = k],
         \A m \in Node \ {n}, d \in Side : g.ptr[<<m, d>>] = h.ptr[<<m, d>>],
         \A d \in Side : g.ptr[<<n, d>>] # n
  PROVE  Acyclic(g)
<1>1. /\ n \in Node /\ h.kind[n] = Free /\ n # NoNode
      /\ h.kind \in [Node -> Label \cup {Free}]
  BY NodesAssumption DEF FreeNodes, Sound, Heap
<1>2. \A m \in Node, d \in Side : h.ptr[<<m, d>>] # n
  <2>1. \A m \in Node, d \in Side : <<m, d>> \in Slot
    BY DEF Slot
  <2> QED BY <1>1, <2>1 DEF Sound, Backed, FreeNodes
<1>3. Node \ FreeNodes(g) \subseteq (Node \ FreeNodes(h)) \cup {n}
  BY <1>1 DEF FreeNodes
<1> SUFFICES ASSUME NEW S \in SUBSET (Node \ FreeNodes(g)), S # {}
             PROVE  \E x \in S : \A m \in S, d \in Side : g.ptr[<<m, d>>] # x
  BY DEF Acyclic
<1>4. CASE n \in S
  <2>1. \A m \in S, d \in Side : g.ptr[<<m, d>>] # n
    BY <1>2, <1>3
  <2> QED BY <2>1, <1>4
<1>5. CASE n \notin S
  <2>1. S \in SUBSET (Node \ FreeNodes(h))
    BY <1>3, <1>5
  <2>2. PICK x \in S : \A m \in S, d \in Side : h.ptr[<<m, d>>] # x
    BY <2>1 DEF Acyclic
  <2>3. \A m \in S : m \in Node \ {n}
    BY <1>5
  <2> QED BY <2>2, <2>3
<1> QED BY <1>4, <1>5

(* Giving up members, and freeing nodes, keep the heap acyclic. *)
LEMMA LessIsAcyclic ==
  ASSUME NEW h, Acyclic(h), NEW g,
         \A m \in Node : h.kind[m] = Free => g.kind[m] = Free,
         \A m \in Node, d \in Side : g.ptr[<<m, d>>] \in {h.ptr[<<m, d>>], NoNode}
  PROVE  Acyclic(g)
<1>1. Node \ FreeNodes(g) \subseteq Node \ FreeNodes(h)
  BY DEF FreeNodes
<1> SUFFICES ASSUME NEW S \in SUBSET (Node \ FreeNodes(g)), S # {}
             PROVE  \E x \in S : \A m \in S, d \in Side : g.ptr[<<m, d>>] # x
  BY DEF Acyclic
<1>2. PICK x \in S : \A m \in S, d \in Side : h.ptr[<<m, d>>] # x
  BY <1>1 DEF Acyclic
<1>3. x \in Node /\ x # NoNode /\ S \subseteq Node
  BY NodesAssumption
<1> QED BY <1>2, <1>3

(* A holder that takes a node another one holds *)
LEMMA TakeGrows ==
  ASSUME NEW h, Good(h), Acyclic(h), NEW a \in Holder, h.ptr[a] = NoNode,
         NEW b \in Holder, h.ptr[b] # NoNode
  PROVE  Grows(h, inc_refcount(h, a, h.ptr[b]), a, h.ptr[b])
<1> DEFINE n == h.ptr[b]
           g == inc_refcount(h, a, n)
<1>1. b \in Slot /\ a \in Slot /\ Sound(h) /\ h.ptr \in [Slot -> Node \cup {NoNode}]
  BY HoldersAreSlots DEF Good, Sound, Heap
<1>2. n \in Node /\ h.kind[n] # Free /\ h.refs[n] > 0
  BY ONLY <1>1, Referenced, h.ptr[b] # NoNode
<1> HIDE DEF n
<1>3. Good(g) /\ g.kind = h.kind /\ g.ptr = [h.ptr EXCEPT ![a] = n]
  BY ONLY <1>2, TakeKeeps, Good(h), a \in Holder, h.ptr[a] = NoNode
<1> HIDE DEF g
<1>4. /\ g.ptr[a] = n /\ \A c \in Holder \ {a} : g.ptr[c] = h.ptr[c]
      /\ \A m \in Node, d \in Side : g.ptr[<<m, d>>] = h.ptr[<<m, d>>]
  <2>1. \A m \in Node, d \in Side : <<m, d>> \in Slot /\ <<m, d>> # a
    BY HoldersAreSlots DEF Slot
  <2> QED BY <1>1, <1>3, <2>1, HoldersAreSlots
<1>5. Acyclic(g)
  <2>1. \A m \in Node : h.kind[m] = Free => g.kind[m] = Free
    BY <1>3
  <2>2. \A m \in Node, d \in Side : g.ptr[<<m, d>>] \in {h.ptr[<<m, d>>], NoNode}
    BY <1>4
  <2> QED BY ONLY <2>1, <2>2, LessIsAcyclic, Acyclic(h)
<1> QED BY <1>2, <1>3, <1>4, <1>5 DEF Grows, g, n

(* A holder that takes a node just made without members *)
LEMMA LeafGrows ==
  ASSUME NEW h, Good(h), Acyclic(h), NEW a \in Holder, h.ptr[a] = NoNode,
         NEW n \in FreeNodes(h), NEW k \in Label
  PROVE  LET g == inc_refcount(NewLeaf(h, n, k), a, n) IN
         Grows(h, g, a, n) /\ g.kind = [h.kind EXCEPT ![n] = k]
<1> DEFINE f == NewLeaf(h, n, k)
           g == inc_refcount(f, a, n)
<1>1. /\ Sound(h) /\ h.ptr \in [Slot -> Node \cup {NoNode}]
      /\ n \in Node /\ h.kind[n] = Free /\ h.kind \in [Node -> Label \cup {Free}]
      /\ a \in Slot
  BY HoldersAreSlots DEF Good, Sound, Heap, FreeNodes
<1>2. /\ Sound(f) /\ f.kind = [h.kind EXCEPT ![n] = k]
      /\ f.ptr = h.ptr /\ f.refs = h.refs /\ f.dying = h.dying /\ h.refs[n] = 0
  BY ONLY <1>1, n \in FreeNodes(h), k \in Label, NewLeafKeeps
<1> HIDE DEF f
<1>3. /\ f.refs[n] = 0 /\ \A b \in Holder : f.ptr[b] = h.ptr[b]
      /\ \A m \in Node : m # n => (f.refs[m] = 0 <=> h.refs[m] = 0)
  BY <1>2
<1>4. Good(g) /\ g.kind = [h.kind EXCEPT ![n] = k] /\ g.ptr = [f.ptr EXCEPT ![a] = n]
  BY <1>2, <1>3, TakeNewKeeps
<1> HIDE DEF g
<1>5. \A m \in Node, d \in Side : <<m, d>> \in Slot /\ <<m, d>> # a
  BY HoldersAreSlots DEF Slot
<1>6. /\ g.ptr[a] = n /\ \A b \in Holder \ {a} : g.ptr[b] = h.ptr[b]
      /\ \A m \in Node, d \in Side : g.ptr[<<m, d>>] = h.ptr[<<m, d>>]
  BY <1>1, <1>2, <1>4, <1>5, HoldersAreSlots
<1>7. \A d \in Side : g.ptr[<<n, d>>] # n
  BY <1>1, <1>6, NodesAssumption DEF Sound, Bare
<1>8. Acyclic(g)
  <2>1. \A m \in Node \ {n}, d \in Side : g.ptr[<<m, d>>] = h.ptr[<<m, d>>]
    BY <1>6
  <2>2. Sound(h) /\ g.kind = [h.kind EXCEPT ![n] = k]
    BY <1>1, <1>4
  <2> QED BY ONLY <2>1, <2>2, <1>7, NewIsAcyclic, Acyclic(h),
                  n \in FreeNodes(h), k \in Label
<1>9. \A m \in Node : h.kind[m] # Free => g.kind[m] = h.kind[m]
  BY <1>1, <1>4
<1> QED BY <1>1, <1>4, <1>6, <1>8, <1>9 DEF Grows, f, g

(* The node that holder b holds is in use, and another one than a free node. *)
LEMMA HeldIsUsed ==
  ASSUME NEW h, Good(h), NEW b \in Holder, h.ptr[b] # NoNode
  PROVE  /\ h.ptr[b] \in Node /\ h.kind[h.ptr[b]] # Free
         /\ h.refs[h.ptr[b]] \in Nat /\ h.refs[h.ptr[b]] > 0
<1>1. Sound(h) /\ b \in Slot
  BY HoldersAreSlots DEF Good
<1> QED BY ONLY <1>1, Referenced, h.ptr[b] # NoNode

(* A holder that takes a node just made, whose members holders hold *)
LEMMA NodeGrows ==
  ASSUME NEW h, Good(h), Acyclic(h), NEW a \in Holder, h.ptr[a] = NoNode,
         NEW n \in FreeNodes(h), NEW k \in Label, NEW f, Sound(f),
         f.kind = [h.kind EXCEPT ![n] = k], f.dying = h.dying, f.refs[n] = 0,
         \A b \in Holder : f.ptr[b] = h.ptr[b],
         \A m \in Node : m # n => (f.refs[m] = 0 <=> h.refs[m] = 0),
         \A m \in Node \ {n}, d \in Side : f.ptr[<<m, d>>] = h.ptr[<<m, d>>],
         \A d \in Side : f.ptr[<<n, d>>] # n
  PROVE  LET g == inc_refcount(f, a, n) IN
         Grows(h, g, a, n) /\ g.kind = [h.kind EXCEPT ![n] = k]
<1> DEFINE g == inc_refcount(f, a, n)
<1>1. /\ Sound(h) /\ f.ptr \in [Slot -> Node \cup {NoNode}]
      /\ n \in Node /\ h.kind[n] = Free /\ h.kind \in [Node -> Label \cup {Free}]
  BY DEF Good, Sound, Heap, FreeNodes
<1>2. Good(g) /\ g.kind = [h.kind EXCEPT ![n] = k] /\ g.ptr = [f.ptr EXCEPT ![a] = n]
  BY TakeNewKeeps
<1> HIDE DEF g
<1>3. \A m \in Node, d \in Side : <<m, d>> \in Slot /\ <<m, d>> # a
  BY HoldersAreSlots DEF Slot
<1>4. /\ g.ptr[a] = n /\ \A b \in Holder \ {a} : g.ptr[b] = h.ptr[b]
      /\ \A m \in Node, d \in Side : g.ptr[<<m, d>>] = f.ptr[<<m, d>>]
  BY <1>1, <1>2, <1>3, HoldersAreSlots
<1>5. Acyclic(g)
  <2>1. \A m \in Node \ {n}, d \in Side : g.ptr[<<m, d>>] = h.ptr[<<m, d>>]
    BY <1>4
  <2>2. \A d \in Side : g.ptr[<<n, d>>] # n
    BY <1>1, <1>4
  <2>3. Sound(h) /\ g.kind = [h.kind EXCEPT ![n] = k]
    BY <1>1, <1>2
  <2> QED BY ONLY <2>1, <2>2, <2>3, NewIsAcyclic, Acyclic(h),
                  n \in FreeNodes(h), k \in Label
<1>6. \A m \in Node : h.kind[m] # Free => g.kind[m] = h.kind[m]
  BY <1>1, <1>2
<1> QED BY <1>1, <1>2, <1>4, <1>5, <1>6 DEF Grows, g

LEMMA UnaryGrows ==
  ASSUME NEW h, Good(h), Acyclic(h), NEW a \in Holder, h.ptr[a] = NoNode,
         NEW n \in FreeNodes(h), NEW k \in Label \ {"null"},
         NEW b \in Holder, h.ptr[b] # NoNode
  PROVE  Grows(h, inc_refcount(NewUnary(h, n, k, h.ptr[b]), a, n), a, n)
<1> DEFINE e == h.ptr[b]
           f == NewUnary(h, n, k, e)
<1>1. /\ Sound(h) /\ h.refs \in [Node -> 0..RefMod - 1] /\ k \in Label
      /\ h.ptr \in [Slot -> Node \cup {NoNode}] /\ n \in Node /\ h.kind[n] = Free
  BY DEF Good, Sound, Heap, FreeNodes
<1>2. e \in Node /\ h.kind[e] # Free /\ h.refs[e] \in Nat /\ h.refs[e] > 0
  BY HeldIsUsed
<1> HIDE DEF e
<1>3. /\ Sound(f) /\ f.kind = [h.kind EXCEPT ![n] = k]
      /\ f.ptr = [h.ptr EXCEPT ![<<n, "left">>] = e]
      /\ f.refs = [h.refs EXCEPT ![e] = @ + 1]
      /\ f.dying = h.dying /\ h.refs[n] = 0 /\ n # e
  BY ONLY <1>1, <1>2, NewUnaryKeeps, n \in FreeNodes(h), k \in Label \ {"null"}
<1> HIDE DEF f
<1>4. \A m \in Node, d \in Side : <<m, d>> \in Slot
  BY DEF Slot
<1>5. /\ f.refs[n] = 0
      /\ \A m \in Node : m # n => (f.refs[m] = 0 <=> h.refs[m] = 0)
  BY <1>1, <1>2, <1>3
<1>6. \A c \in Holder : f.ptr[c] = h.ptr[c]
  <2>1. \A c \in Holder : c # <<n, "left">> /\ c \in Slot
    BY <1>1, HoldersAreSlots DEF Side
  <2> QED BY <2>1, <1>1, <1>3
<1>7. \A m \in Node \ {n}, d \in Side : f.ptr[<<m, d>>] = h.ptr[<<m, d>>]
  BY <1>1, <1>3, <1>4
<1>8. \A d \in Side : f.ptr[<<n, d>>] # n
  <2>1. \A d \in Side : h.ptr[<<n, d>>] = NoNode
    BY <1>1 DEF Sound, Bare
  <2>2. <<n, "left">> \in Slot /\ <<n, "right">> \in Slot /\ n # NoNode
    BY <1>1, <1>4, NodesAssumption DEF Side
  <2>3. f.ptr[<<n, "left">>] = e /\ f.ptr[<<n, "right">>] = NoNode
    BY <2>1, <2>2, <1>1, <1>3 DEF Side
  <2> QED BY <2>2, <2>3, <1>3 DEF Side
<1>9. Grows(h, inc_refcount(f, a, n), a, n)
  BY <1>1, <1>3, <1>5, <1>6, <1>7, <1>8, NodeGrows
<1> QED BY <1>9 DEF f, e

LEMMA BinaryGrows ==
  ASSUME NEW h, Good(h), Acyclic(h), NEW a \in Holder, h.ptr[a] = NoNode,
         NEW n \in FreeNodes(h), NEW k \in Label \ {"null"},
         NEW b \in Holder, h.ptr[b] # NoNode, NEW c \in Holder, h.ptr[c] # NoNode
  PROVE  Grows(h, inc_refcount(NewBinary(h, n, k, h.ptr[b], h.ptr[c]), a, n), a, n)
<1> DEFINE el == h.ptr[b]
           er == h.ptr[c]
           f == NewBinary(h, n, k, el, er)
<1>1. /\ Sound(h) /\ h.refs \in [Node -> 0..RefMod - 1] /\ k \in Label
      /\ h.ptr \in [Slot -> Node \cup {NoNode}] /\ n \in Node /\ h.kind[n] = Free
  BY DEF Good, Sound, Heap, FreeNodes
<1>2. /\ el \in Node /\ h.kind[el] # Free /\ h.refs[el] \in Nat /\ h.refs[el] > 0
      /\ er \in Node /\ h.kind[er] # Free /\ h.refs[er] \in Nat /\ h.refs[er] > 0
  BY HeldIsUsed
<1> HIDE DEF el, er
<1>3. /\ Sound(f) /\ f.kind = [h.kind EXCEPT ![n] = k]
      /\ f.ptr = [h.ptr EXCEPT ![<<n, "left">>] = el, ![<<n, "right">>] = er]
      /\ f.refs = [[h.refs EXCEPT ![el] = @ + 1] EXCEPT ![er] = @ + 1]
      /\ f.dying = h.dying /\ h.refs[n] = 0 /\ n # el /\ n # er
  BY ONLY <1>1, <1>2, NewBinaryKeeps, n \in FreeNodes(h), k \in Label \ {"null"}
<1> HIDE DEF f
<1>4. \A m \in Node, d \in Side : <<m, d>> \in Slot
  BY DEF Slot
<1>5. /\ f.refs[n] = 0
      /\ \A m \in Node : m # n => (f.refs[m] = 0 <=> h.refs[m] = 0)
  BY <1>1, <1>2, <1>3
<1>6. \A x \in Holder : f.ptr[x] = h.ptr[x]
  <2>1. \A x \in Holder : x # <<n, "left">> /\ x # <<n, "right">> /\ x \in Slot
    BY <1>1, HoldersAreSlots DEF Side
  <2> QED BY <2>1, <1>1, <1>3
<1>7. \A m \in Node \ {n}, d \in Side : f.ptr[<<m, d>>] = h.ptr[<<m, d>>]
  BY <1>1, <1>3, <1>4
<1>8. \A d \in Side : f.ptr[<<n, d>>] # n
  <2>1. <<n, "left">> \in Slot /\ <<n, "right">> \in Slot /\ n # NoNode
    BY <1>1, <1>4, NodesAssumption DEF Side
  <2>2. f.ptr[<<n, "left">>] = el /\ f.ptr[<<n, "right">>] = er
    BY <2>1, <1>1, <1>3
  <2> QED BY <2>2, <1>3 DEF Side
<1>9. Grows(h, inc_refcount(f, a, n), a, n)
  BY <1>1, <1>3, <1>5, <1>6, <1>7, <1>8, NodeGrows
<1> QED BY <1>9 DEF f, el, er

(* Heap g is h and one thing less: holder a gave up its node. *)
Shrinks(h, g, a) ==
  /\ Good(g) /\ Acyclic(g)
  /\ g.ptr[a] = NoNode /\ \A b \in Holder \ {a} : g.ptr[b] = h.ptr[b]
  /\ g.kind = h.kind

LEMMA DecShrinks ==
  ASSUME NEW h, Good(h), Acyclic(h), NEW a \in Holder, h.ptr[a] # NoNode
  PROVE  Shrinks(h, dec_refcount(h, a), a)
<1> DEFINE g == dec_refcount(h, a)
<1>1. a \in Slot /\ Sound(h) /\ h.ptr \in [Slot -> Node \cup {NoNode}]
  BY HoldersAreSlots DEF Good, Sound, Heap
<1>2. Good(g)
  BY ONLY <1>1, DecDestroys, Good(h), h.ptr[a] # NoNode
<1>3. g.kind = h.kind /\ g.ptr = [h.ptr EXCEPT ![a] = NoNode]
  BY ONLY <1>1, DecKeeps, h.ptr[a] # NoNode
<1> HIDE DEF g
<1>4. \A m \in Node, d \in Side : <<m, d>> \in Slot /\ <<m, d>> # a
  BY HoldersAreSlots DEF Slot
<1>5. Acyclic(g)
  <2>1. \A m \in Node : h.kind[m] = Free => g.kind[m] = Free
    BY <1>3
  <2>2. \A m \in Node, d \in Side : g.ptr[<<m, d>>] \in {h.ptr[<<m, d>>], NoNode}
    BY <1>1, <1>3, <1>4
  <2> QED BY ONLY <2>1, <2>2, LessIsAcyclic, Acyclic(h)
<1>6. g.ptr[a] = NoNode /\ \A b \in Holder \ {a} : g.ptr[b] = h.ptr[b]
  BY <1>1, <1>3, HoldersAreSlots
<1> QED BY <1>2, <1>3, <1>5, <1>6 DEF Shrinks, g

(* A step of a destructor makes no node a member of another. *)
LEMMA DestructorIsAcyclic ==
  ASSUME NEW h, Good(h), Acyclic(h), h.dying # <<>>
  PROVE  Acyclic(Destructor(h))
<1> DEFINE g == Destructor(h)
           n == Innermost(h)
<1>1. /\ Sound(h) /\ h.ptr \in [Slot -> Node \cup {NoNode}]
      /\ h.dying \in Seq(Node) /\ h.kind \in [Node -> Label \cup {Free}]
  BY DEF Good, Sound, Heap
<1>2. n \in Node
  BY <1>1 DEF Innermost
<1>3. \A d \in Side : <<n, d>> \in Slot
  BY <1>2 DEF Slot
<1> HIDE DEF n
<1>4. ASSUME NEW d \in Side, h.ptr[<<n, d>>] # NoNode, g = dec_refcount(h, <<n, d>>)
      PROVE  g.kind = h.kind /\ g.ptr = [h.ptr EXCEPT ![<<n, d>>] = NoNode]
  BY <1>4 DEF dec_refcount
<1>5. /\ \A m \in Node : h.kind[m] = Free => g.kind[m] = Free
      /\ \A s \in Slot : g.ptr[s] \in {h.ptr[s], NoNode}
  <2>1. CASE h.ptr[<<n, "left">>] # NoNode
    <3>1. g = dec_refcount(h, <<n, "left">>)
      BY <2>1 DEF Destructor, n
    <3> HIDE DEF g
    <3> QED BY <2>1, <3>1, <1>1, <1>4 DEF Side
  <2>2. CASE h.ptr[<<n, "left">>] = NoNode /\ h.ptr[<<n, "right">>] # NoNode
    <3>1. g = dec_refcount(h, <<n, "right">>)
      BY <2>2 DEF Destructor, n
    <3> HIDE DEF g
    <3> QED BY <2>2, <3>1, <1>1, <1>4 DEF Side
  <2>3. CASE h.ptr[<<n, "left">>] = NoNode /\ h.ptr[<<n, "right">>] = NoNode
    <3>1. g.kind = [h.kind EXCEPT ![n] = Free] /\ g.ptr = h.ptr
      BY <2>3 DEF Destructor, n
    <3> HIDE DEF g
    <3> QED BY <3>1, <1>1, <1>2
  <2> QED BY <2>1, <2>2, <2>3
<1> HIDE DEF g
<1>6. \A m \in Node, d \in Side : g.ptr[<<m, d>>] \in {h.ptr[<<m, d>>], NoNode}
  BY <1>5 DEF Slot
<1>7. Acyclic(g)
  BY ONLY <1>5, <1>6, LessIsAcyclic, Acyclic(h)
<1> QED BY <1>7 DEF g

(* A holder that takes over the node of another *)
LEMMA MoveKeeps ==
  ASSUME NEW h, Good(h), Acyclic(h), NEW a \in Holder, h.ptr[a] # NoNode,
         NEW b \in Holder, h.ptr[b] = NoNode
  PROVE  LET g == Move(h, a, b) IN
         /\ Good(g) /\ Acyclic(g) /\ g.kind = h.kind /\ g.dying = h.dying
         /\ g.ptr[a] = NoNode /\ g.ptr[b] = h.ptr[a]
         /\ \A c \in Holder \ {a, b} : g.ptr[c] = h.ptr[c]
<1> DEFINE g == Move(h, a, b)
           n == h.ptr[a]
<1>1. /\ Sound(h) /\ Destroyed(h) /\ a \in Slot /\ b \in Slot /\ a # b
      /\ h.ptr \in [Slot -> Node \cup {NoNode}] /\ h.kind \in [Node -> Label \cup {Free}]
      /\ h.refs \in [Node -> 0..RefMod - 1] /\ h.dying \in Seq(Node)
      /\ h = [kind |-> h.kind, ptr |-> h.ptr, refs |-> h.refs, dying |-> h.dying]
  BY HoldersAreSlots DEF Good, Sound, Heap
<1>2. n \in Node /\ h.kind[n] # Free
  BY HeldIsUsed
<1>3. /\ g.kind = h.kind /\ g.refs = h.refs /\ g.dying = h.dying
      /\ g.ptr = [[h.ptr EXCEPT ![b] = n] EXCEPT ![a] = NoNode]
      /\ g = [kind |-> g.kind, ptr |-> g.ptr, refs |-> g.refs, dying |-> g.dying]
  <2>1. g = [[h EXCEPT !.ptr = [h.ptr EXCEPT ![b] = n]]
               EXCEPT !.ptr = [[h.ptr EXCEPT ![b] = n] EXCEPT ![a] = NoNode]]
    BY <1>1 DEF Move
  <2> QED BY <2>1, <1>1
<1> HIDE DEF g, n
<1>4. /\ g.ptr[a] = NoNode /\ g.ptr[b] = n
      /\ \A s \in Slot \ {a, b} : g.ptr[s] = h.ptr[s]
      /\ g.ptr \in [Slot -> Node \cup {NoNode}]
  BY <1>1, <1>2, <1>3
<1>5. \A m \in Node, d \in Side : <<m, d>> \in Slot \ {a, b}
  BY HoldersAreSlots DEF Slot
<1>6. g \in Heap
  BY <1>1, <1>3, <1>4 DEF Heap
<1>7. Counted(g)
  <2> SUFFICES ASSUME NEW m \in Node PROVE g.refs[m] = Cardinality(Users(g, m))
    BY DEF Counted
  <2>1. h.refs[m] = Cardinality(Users(h, m)) /\ m # NoNode
    BY <1>1, NodesAssumption DEF Sound, Counted
  <2>2. CASE m = n
    <3>1. /\ Users(g, m) = (Users(h, m) \ {a}) \cup {b}
          /\ a \in Users(h, m) /\ b \notin Users(h, m)
      <4>1. h.ptr[a] = m /\ h.ptr[b] # m
        BY <2>1, <2>2 DEF n
      <4> QED BY <4>1, <1>1, <1>4, <2>1, <2>2 DEF Users
    <3>2. IsFiniteSet(Users(h, m)) /\ Cardinality(Users(h, m)) \in Nat
      BY UsersFinite
    <3>3. /\ IsFiniteSet(Users(h, m) \ {a})
          /\ Cardinality(Users(h, m) \ {a}) = Cardinality(Users(h, m)) - 1
      BY <3>1, <3>2, FS_RemoveElement
    <3>4. Cardinality((Users(h, m) \ {a}) \cup {b}) = Cardinality(Users(h, m) \ {a}) + 1
      BY <3>1, <3>3, FS_AddElement
    <3> QED BY <3>1, <3>2, <3>3, <3>4, <2>1, <1>3
  <2>3. CASE m # n
    <3>1. Users(g, m) = Users(h, m)
      <4>1. h.ptr[a] # m /\ h.ptr[b] # m /\ g.ptr[a] # m /\ g.ptr[b] # m
        BY <2>1, <2>3, <1>4 DEF n
      <4> QED BY <4>1, <1>4 DEF Users
    <3> QED BY <3>1, <2>1, <1>3
  <2> QED BY <2>2, <2>3
<1>8. Backed(g)
  BY <1>1, <1>2, <1>3, <1>4 DEF Sound, Backed, FreeNodes
<1>9. Bare(g)
  BY <1>1, <1>3, <1>4, <1>5 DEF Sound, Bare
<1>10. Destroyed(g)
  BY <1>1, <1>3 DEF Destroyed
<1>11. Acyclic(g)
  <2>1. \A m \in Node : h.kind[m] = Free => g.kind[m] = Free
    BY <1>3
  <2>2. \A m \in Node, d \in Side : g.ptr[<<m, d>>] \in {h.ptr[<<m, d>>], NoNode}
    BY <1>4, <1>5
  <2> QED BY ONLY <2>1, <2>2, LessIsAcyclic, Acyclic(h)
<1>12. \A c \in Holder \ {a, b} : g.ptr[c] = h.ptr[c]
  BY <1>4, HoldersAreSlots
<1> QED BY <1>3, <1>4, <1>6, <1>7, <1>8, <1>9, <1>10, <1>11, <1>12 DEF Good, Sound, g, n

(* Where one holder is left, of a null node, no other node is: of others, one *)
(* would be a member of none, and have no user.                              *)
LEMMA OnlyNullIsLeft ==
  ASSUME NEW h, Good(h), Acyclic(h), h.dying = <<>>,
         NEW b \in Holder, h.ptr[b] # NoNode, h.kind[h.ptr[b]] = "null",
         \A a \in Holder \ {b} : h.ptr[a] = NoNode
  PROVE  {n \in Node : h.kind[n] # Free} = {h.ptr[b]} /\ h.refs[h.ptr[b]] = 1
<1> DEFINE null == h.ptr[b]
           S == {n \in Node : h.kind[n] # Free} \ {null}
<1>1. null \in Node /\ h.kind[null] # Free
  BY HeldIsUsed
<1>2. \A m \in Node, d \in Side : h.kind[m] \in {Free, "null"} => h.ptr[<<m, d>>] = NoNode
  BY DEF Good, Sound, Bare
<1>3. \A n \in Node : h.kind[n] # Free => h.refs[n] # 0
  <2>1. {h.dying[i] : i \in 1..Len(h.dying)} = {}
    OBVIOUS
  <2>2. {n \in Node : h.kind[n] # Free /\ h.refs[n] = 0} = {}
    BY <2>1 DEF Good, Destroyed
  <2> QED BY <2>2
<1>4. \A n \in Node : h.refs[n] = Cardinality(Users(h, n))
  BY DEF Good, Sound, Counted
<1>5. S = {}
  <2> SUFFICES ASSUME S # {} PROVE FALSE
    OBVIOUS
  <2>1. PICK n \in S : \A m \in S, d \in Side : h.ptr[<<m, d>>] # n
    <3>1. S \in SUBSET (Node \ FreeNodes(h))
      BY DEF FreeNodes
    <3> HIDE DEF S
    <3> QED BY <3>1 DEF Acyclic
  <2>2. n \in Node /\ h.kind[n] # Free /\ n # null /\ n # NoNode
    BY NodesAssumption
  <2>3. Users(h, n) # {}
    BY <2>2, <1>3, <1>4, FS_EmptySet
  <2>4. PICK s \in Slot : h.ptr[s] = n
    BY <2>3 DEF Users
  <2>5. CASE s \in Holder
    BY <2>2, <2>4, <2>5
  <2>6. CASE s \in Node \X Side
    <3>1. PICK m \in Node, d \in Side : s = <<m, d>>
      BY <2>6
    <3>2. h.kind[m] # Free /\ m # null
      BY <3>1, <2>2, <2>4, <1>2
    <3> QED BY <3>1, <3>2, <2>1, <2>4
  <2> QED BY <2>4, <2>5, <2>6 DEF Slot
<1>6. Users(h, null) = {b}
  <2>1. b \in Users(h, null)
    BY DEF Users, Slot
  <2>2. ASSUME NEW s \in Users(h, null) PROVE s = b
    <3>1. s \in Slot /\ h.ptr[s] = null
      BY <2>2 DEF Users
    <3>2. CASE s \in Holder
      BY <3>1, <3>2
    <3>3. CASE s \in Node \X Side
      <4>1. PICK m \in Node, d \in Side : s = <<m, d>>
        BY <3>3
      <4>2. h.kind[m] # Free /\ m # null
        BY <4>1, <3>1, <1>2
      <4> QED BY <4>1, <4>2, <1>5
    <3> QED BY <3>1, <3>2, <3>3 DEF Slot
  <2> QED BY <2>1, <2>2
<1>7. h.refs[null] = 1
  BY <1>1, <1>4, <1>6, FS_Singleton
<1> QED BY <1>1, <1>5, <1>7
============================================================================
