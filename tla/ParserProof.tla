---------------------------- MODULE ParserProof ----------------------------
(***************************************************************************)
(* For any texts, any bound on the stack and any evaluation of the nodes:  *)
(* the parser holds one reference to each node on its stack and to each    *)
(* one it has still to release, leaves nothing behind when it returns, and *)
(* throws the exception it kept.                                           *)
(***************************************************************************)
EXTENDS Parser, HeapProof, SequenceTheorems

---------------------------------------------------------------------------
(* The slots of the parser *)
Held(h) == {s \in Holder : h.ptr[s] # NoNode}
Symbols(s) == {Position(i) : i \in Expressions(s)}
Slots(s) == {s[i] : i \in 1..Len(s)}

(* The positions of the stack, the library and the variables are different slots. *)
LEMMA SlotsDiffer ==
  /\ \A i : Position(i) # Library /\ \A x \in {"$$", "one", "e", "el", "er"} : Position(i) # Local(x)
  /\ \A i, j : Position(i) = Position(j) => i = j
  /\ \A x, y : Local(x) = Local(y) => x = y
  /\ \A x \in {"$$", "one", "e", "el", "er"} : Local(x) # Library /\ Local(x) \in Holder
  /\ Library \in Holder
  /\ \A i \in 1..MaxTokens : Position(i) \in Holder
BY ParserHolders DEF ParserHolder, Position, Local, Library

(* The operands and the labels of the nodes the actions make *)
LEMMA LabelsMade ==
  /\ "n" \in Label /\ "null" \in Label
  /\ {"neg", "cos", "nth_root", "pow_n", "sub", "mul", "div", "pow"} \subseteq Label \ {"null"}
BY ParserLabels, LabelsAssumption DEF Label

---------------------------------------------------------------------------
(* The stack *)

(* A sequence is one of its own elements. *)
LEMMA OfItsElements ==
  ASSUME NEW S, NEW s \in Seq(S)
  PROVE  /\ s \in Seq(ToSet(s)) /\ Len(s) \in Nat /\ DOMAIN s = 1..Len(s)
         /\ \A i \in 1..Len(s) : s[i] \in S
<1>1. Len(s) \in Nat /\ DOMAIN s = 1..Len(s) /\ \A i \in 1..Len(s) : s[i] \in S
  BY LenProperties, ElementOfSeq
<1>2. ToSet(s) = Range(s)
  BY DEF ToSet, Range
<1> QED BY <1>1, <1>2, SeqOfRange

(* A sequence is one of a set that has its elements. *)
LEMMA OfASet ==
  ASSUME NEW S, NEW s \in Seq(S), NEW T, \A i \in 1..Len(s) : s[i] \in T
  PROVE  s \in Seq(T)
<1>1. Len(s) \in Nat /\ s \in [1..Len(s) -> S]
  BY LenProperties
<1>2. s \in [1..Len(s) -> T]
  BY <1>1
<1> QED BY <1>1, <1>2, SeqDef

(* A stack without its k symbols at the top *)
LEMMA CutIsLeveled ==
  ASSUME NEW s, Leveled(s), NEW k \in 0..Len(s)
  PROVE  LET t == SubSeq(s, 1, Len(s) - k) IN
         /\ Leveled(t) /\ Len(t) = Len(s) - k /\ Len(s) \in Nat
         /\ \A i \in 1..Len(s) - k : t[i] = s[i]
         /\ Expressions(t) = {i \in Expressions(s) : i <= Len(s) - k}
<1> DEFINE l == Len(s) - k
           t == SubSeq(s, 1, l)
           S == ToSet(s)
<1>1. /\ s \in Seq(S) /\ Len(s) \in Nat /\ DOMAIN s = 1..Len(s)
      /\ \A i \in 1..Len(s) : s[i] \in S
  BY OfItsElements DEF Leveled
<1>2. l \in Nat /\ l <= Len(s) /\ l \in Int
  BY <1>1
<1> HIDE DEF l, S
<1>3. \A i \in 1..l : s[i] \in S
  BY <1>1, <1>2
<1>4. /\ t \in Seq(S)
      /\ Len(t) = IF 1 <= l THEN l - 1 + 1 ELSE 0
      /\ \A i \in 1..l - 1 + 1 : t[i] = s[1 + i - 1]
  BY <1>2, <1>3, SubSeqProperties
<1> HIDE DEF t
<1>5. Len(t) = l /\ \A i \in 1..l : t[i] = s[i]
  BY <1>2, <1>4
<1>6. t \in Seq(ToSet(t)) /\ DOMAIN t = 1..l
  BY <1>4, <1>5, OfItsElements
<1>7. Leveled(t)
  <2> SUFFICES ASSUME NEW i \in 1..l
               PROVE  /\ t[i].sym # "bottom"
                      /\ t[i].sym = "expression" => t[i] = Expression
                      /\ t[i].sym \in {"u", "itv_expr_aux"} => t[i].lev = "i"
                      /\ t[i].sym \in Ops => i > 1
                      /\ t[i].lev = "i" \/ t[i].sym \in {"[", "<"}
                           => \A j \in 1..i - 1 : t[j].lev = "i"
    BY <1>5, <1>6 DEF Leveled
  <2>1. i \in 1..Len(s) /\ t[i] = s[i] /\ \A j \in 1..i - 1 : t[j] = s[j]
    BY <1>2, <1>5
  <2> QED BY <2>1 DEF Leveled
<1>8. Expressions(t) = {i \in Expressions(s) : i <= l}
  BY <1>1, <1>2, <1>5, <1>6 DEF Expressions
<1> QED BY <1>1, <1>5, <1>7, <1>8 DEF t, l

(* What a symbol may be put upon *)
MayFollow(e, s) ==
  /\ e.sym # "bottom"
  /\ e.sym = "expression" => e = Expression
  /\ e.sym \in {"u", "itv_expr_aux"} => e.lev = "i"
  /\ e.sym \in Ops => Len(s) > 0
  /\ e.lev = "i" \/ e.sym \in {"[", "<"} => \A j \in 1..Len(s) : s[j].lev = "i"

(* A stack with one more symbol *)
LEMMA GrownIsLeveled ==
  ASSUME NEW s, Leveled(s), NEW e, MayFollow(e, s)
  PROVE  LET t == Append(s, e) IN
         /\ Leveled(t) /\ Len(t) = Len(s) + 1 /\ Len(s) \in Nat
         /\ \A i \in 1..Len(s) : t[i] = s[i]
         /\ t[Len(s) + 1] = e
         /\ Expressions(t) = Expressions(s) \cup (IF e = Expression THEN {Len(s) + 1} ELSE {})
<1> DEFINE t == Append(s, e)
           S == ToSet(s) \cup {e}
           l == Len(s)
<1>1. s \in Seq(ToSet(s)) /\ l \in Nat /\ DOMAIN s = 1..l
  BY OfItsElements DEF Leveled
<1>2. s \in Seq(S) /\ e \in S
  BY <1>1, SeqMonotonic
<1> HIDE DEF S
<1>3. /\ t \in Seq(S) /\ Len(t) = l + 1 /\ t[l + 1] = e
      /\ \A i \in 1..l : t[i] = s[i]
  BY <1>2, AppendProperties
<1> HIDE DEF t
<1>4. t \in Seq(ToSet(t)) /\ DOMAIN t = 1..l + 1
  BY <1>3, OfItsElements
<1>5. Leveled(t)
  <2> SUFFICES ASSUME NEW i \in 1..l + 1
               PROVE  /\ t[i].sym # "bottom"
                      /\ t[i].sym = "expression" => t[i] = Expression
                      /\ t[i].sym \in {"u", "itv_expr_aux"} => t[i].lev = "i"
                      /\ t[i].sym \in Ops => i > 1
                      /\ t[i].lev = "i" \/ t[i].sym \in {"[", "<"}
                           => \A j \in 1..i - 1 : t[j].lev = "i"
    BY <1>3, <1>4 DEF Leveled
  <2>1. \A j \in 1..i - 1 : j \in 1..l /\ t[j] = s[j]
    BY <1>1, <1>3
  <2>2. CASE i = l + 1
    <3>1. t[i] = e /\ 1..i - 1 = 1..l /\ (l > 0 => i > 1)
      BY <2>2, <1>1, <1>3
    <3> QED BY <3>1, <2>1 DEF MayFollow
  <2>3. CASE i # l + 1
    <3>1. i \in 1..l /\ t[i] = s[i]
      BY <2>3, <1>1, <1>3
    <3> QED BY <3>1, <2>1 DEF Leveled
  <2> QED BY <2>2, <2>3
<1>6. Expressions(t) = Expressions(s) \cup (IF e = Expression THEN {l + 1} ELSE {})
  BY <1>1, <1>3, <1>4 DEF Expressions
<1> QED BY <1>1, <1>3, <1>5, <1>6 DEF t, l

(* The symbols the rules look at *)
LEMMA AtIs ==
  ASSUME Leveled(stack), NEW i \in 1..5, At(i).sym # "bottom"
  PROVE  /\ i \in 1..Len(stack) /\ Len(stack) \in Nat
         /\ At(i) = stack[Len(stack) + 1 - i] /\ Len(stack) + 1 - i \in 1..Len(stack)
         /\ SlotOf(i) = Position(Len(stack) + 1 - i)
         /\ At(i).sym = "expression" => Len(stack) + 1 - i \in Expressions(stack)
         /\ At(i) = Expression <=> Len(stack) + 1 - i \in Expressions(stack)
<1>1. Len(stack) \in Nat /\ DOMAIN stack = 1..Len(stack)
  BY OfItsElements DEF Leveled
<1>2. i \in 1..Len(stack) /\ At(i) = stack[Len(stack) + 1 - i]
  BY <1>1 DEF At, Bottom, Tok, Symbol
<1>3. Len(stack) + 1 - i \in 1..Len(stack)
  BY <1>1, <1>2
<1> QED BY <1>1, <1>2, <1>3 DEF SlotOf, Leveled, Expressions

(* An expression of the stack *)
LEMMA ExpressionAt ==
  ASSUME Leveled(stack), NEW i \in 1..5, At(i).sym = "expression"
  PROVE  At(i) = Expression
<1>1. At(i).sym # "bottom"
  OBVIOUS
<1> QED BY <1>1, AtIs

(* The symbols of a rule, from the left *)
LEMMA TopsAre ==
  /\ \A a : TopIs(<<a>>) => At(1).sym = a
  /\ \A a, b : TopIs(<<a, b>>) => At(2).sym = a /\ At(1).sym = b
  /\ \A a, b, c : TopIs(<<a, b, c>>) => At(3).sym = a /\ At(2).sym = b /\ At(1).sym = c
  /\ \A a, b, c, d : TopIs(<<a, b, c, d>>) =>
       At(4).sym = a /\ At(3).sym = b /\ At(2).sym = c /\ At(1).sym = d
  /\ \A a, b, c, d, e : TopIs(<<a, b, c, d, e>>) =>
       At(5).sym = a /\ At(4).sym = b /\ At(3).sym = c /\ At(2).sym = d /\ At(1).sym = e
<1>1. ASSUME NEW a, TopIs(<<a>>) PROVE At(1).sym = a
  <2>1. [i \in 1..1 |-> At(1 + 1 - i).sym][1] = a
    BY <1>1 DEF TopIs
  <2> QED BY <2>1
<1>2. ASSUME NEW a, NEW b, TopIs(<<a, b>>) PROVE At(2).sym = a /\ At(1).sym = b
  <2> DEFINE f == [i \in 1..2 |-> At(2 + 1 - i).sym]
  <2>1. f[1] = a /\ f[2] = b
    BY <1>2 DEF TopIs
  <2> QED BY <2>1
<1>3. ASSUME NEW a, NEW b, NEW c, TopIs(<<a, b, c>>)
      PROVE  At(3).sym = a /\ At(2).sym = b /\ At(1).sym = c
  <2> DEFINE f == [i \in 1..3 |-> At(3 + 1 - i).sym]
  <2>1. f[1] = a /\ f[2] = b /\ f[3] = c
    BY <1>3 DEF TopIs
  <2> QED BY <2>1
<1>4. ASSUME NEW a, NEW b, NEW c, NEW d, TopIs(<<a, b, c, d>>)
      PROVE  At(4).sym = a /\ At(3).sym = b /\ At(2).sym = c /\ At(1).sym = d
  <2> DEFINE f == [i \in 1..4 |-> At(4 + 1 - i).sym]
  <2>1. f[1] = a /\ f[2] = b /\ f[3] = c /\ f[4] = d
    BY <1>4 DEF TopIs
  <2> QED BY <2>1
<1>5. ASSUME NEW a, NEW b, NEW c, NEW d, NEW e, TopIs(<<a, b, c, d, e>>)
      PROVE  At(5).sym = a /\ At(4).sym = b /\ At(3).sym = c /\ At(2).sym = d /\ At(1).sym = e
  <2> DEFINE f == [i \in 1..5 |-> At(5 + 1 - i).sym]
  <2>1. f[1] = a /\ f[2] = b /\ f[3] = c /\ f[4] = d /\ f[5] = e
    BY <1>5 DEF TopIs
  <2> QED BY <2>1
<1> QED BY <1>1, <1>2, <1>3, <1>4, <1>5

---------------------------------------------------------------------------
(* What the rules start from *)
LEMMA PushedFacts ==
  ASSUME IInv, Pushed
  PROVE  /\ phase = "parsing" /\ drops = <<>> /\ heap.dying = <<>>
         /\ heap.ptr[Local("$$")] = NoNode
         /\ Good(heap) /\ Acyclic(heap) /\ Leveled(stack)
         /\ Held(heap) = Symbols(stack) \cup {Library}
         /\ heap.ptr[Library] # NoNode /\ heap.kind[heap.ptr[Library]] = "null"
         /\ Len(stack) \in Nat /\ Len(stack) <= MaxTokens
<1>1. phase = "parsing" /\ drops = <<>> /\ heap.dying = <<>> /\ heap.ptr[Local("$$")] = NoNode
  BY DEF Pushed, Busy
<1>2. Good(heap) /\ Acyclic(heap) /\ Leveled(stack)
  BY DEF IInv, HeapIsKept, Good, Sound
<1>3. Held(heap) = Symbols(stack) \cup {Library}
  <2>1. {drops[i] : i \in 1..Len(drops)} = {}
    BY <1>1
  <2>2. Held(heap) \ {Local("$$")} = {} \cup Symbols(stack) \cup {Library}
    BY <2>1 DEF IInv, HoldersAreKnown, Held, Symbols
  <2> QED BY <2>2, <1>1 DEF Held
<1>4. Len(stack) \in Nat /\ Len(stack) <= MaxTokens
  <2>1. Len(stack) \in Nat
    BY <1>2, OfItsElements DEF Leveled
  <2>2. Len(text) \in Nat /\ MaxTokens \in Nat
    BY LenProperties, ParserTexts DEF IInv, StackIsShort
  <2> QED BY <2>1, <2>2, <1>1 DEF IInv, StackIsShort
<1> QED BY <1>1, <1>2, <1>3, <1>4 DEF IInv, HeapIsKept

(* The position of an expression of the stack holds a node, and no other does. *)
LEMMA ExpressionsAreHeld ==
  ASSUME IInv, Pushed
  PROVE  /\ \A i \in 1..Len(stack) : Position(i) \in Holder
         /\ \A i \in 1..Len(stack) : heap.ptr[Position(i)] # NoNode <=> i \in Expressions(stack)
         /\ \A i \in 1..MaxTokens : i > Len(stack) => heap.ptr[Position(i)] = NoNode
         /\ \A x \in {"$$", "one", "e", "el", "er"} : heap.ptr[Local(x)] = NoNode
<1>1. /\ Held(heap) = Symbols(stack) \cup {Library}
      /\ Len(stack) \in Nat /\ Len(stack) <= MaxTokens /\ Leveled(stack) /\ MaxTokens \in Nat
  BY PushedFacts, ParserTexts
<1>2. Expressions(stack) \subseteq 1..Len(stack)
  BY <1>1, OfItsElements DEF Leveled, Expressions
<1>3. \A i : Position(i) \in Held(heap) <=> i \in Expressions(stack)
  BY <1>1, SlotsDiffer DEF Symbols
<1>4. \A i \in 1..MaxTokens : Position(i) \in Holder
  BY SlotsDiffer
<1>5. \A x \in {"$$", "one", "e", "el", "er"} : Local(x) \notin Held(heap) /\ Local(x) \in Holder
  BY <1>1, SlotsDiffer DEF Symbols
<1> QED BY <1>1, <1>2, <1>3, <1>4, <1>5 DEF Held

(* The positions of the expressions among the k symbols at the top *)
Taken(k) == {Position(i) : i \in {j \in Expressions(stack) : j > Len(stack) - k}}

(* A rule of k symbols that has a node keeps the invariant when it holds the  *)
(* node, and releases the expressions of the rule and its own variables.      *)
LEMMA BuildStep ==
  ASSUME IInv, Pushed, NEW k \in 1..Len(stack), NEW released,
         NEW locals \in SUBSET {Local("one"), Local("e")},
         Good(heap'), Acyclic(heap'),
         Held(heap') = Held(heap) \cup {Local("$$")} \cup locals,
         heap'.ptr[Library] = heap.ptr[Library],
         heap'.kind[heap.ptr[Library]] = "null",
         released \in Seq(Holder), Slots(released) = Taken(k) \cup locals,
         \A i, j \in 1..Len(released) : released[i] = released[j] => i = j,
         stack' = Below(k), drops' = released,
         UNCHANGED <<la, text, phase>>
  PROVE  IInv'
<1>1. /\ phase = "parsing" /\ Leveled(stack) /\ Held(heap) = Symbols(stack) \cup {Library}
      /\ Len(stack) \in Nat /\ heap.ptr[Library] # NoNode
      /\ heap.ptr[Local("$$")] = NoNode
  BY PushedFacts
<1>2. /\ Leveled(stack') /\ Len(stack') = Len(stack) - k
      /\ Expressions(stack') = {i \in Expressions(stack) : i <= Len(stack) - k}
  <2>1. k \in 0..Len(stack)
    BY <1>1
  <2> QED BY <2>1, <1>1, CutIsLeveled DEF Below
<1>3. HeapIsKept'
  BY <1>1 DEF HeapIsKept, Good, Sound
<1>4. Symbols(stack) = Symbols(stack') \cup Taken(k) /\ Symbols(stack') \cap Taken(k) = {}
  <2>1. Expressions(stack) \subseteq 1..Len(stack)
    BY <1>1, OfItsElements DEF Leveled, Expressions
  <2>2. \A i \in Expressions(stack) : i <= Len(stack) - k \/ i > Len(stack) - k
    BY <2>1, <1>1
  <2>3. \A i \in Expressions(stack) : ~(i <= Len(stack) - k /\ i > Len(stack) - k)
    BY <2>1, <1>1
  <2>4. \A i, j : Position(i) = Position(j) => i = j
    BY SlotsDiffer
  <2> QED BY <1>2, <2>2, <2>3, <2>4 DEF Symbols, Taken
<1>5. HoldersAreKnown'
  <2>1. /\ Local("$$") \notin Symbols(stack) \cup {Library} \cup locals
        /\ locals \cap (Symbols(stack) \cup {Library}) = {}
        /\ Library \notin Symbols(stack)
    BY SlotsDiffer DEF Symbols
  <2>2. {s \in Holder : heap'.ptr[s] # NoNode} \ {Local("$$")}
          = Slots(drops') \cup Symbols(stack') \cup {Library}
    <3>1. Held(heap') = {s \in Holder : heap'.ptr[s] # NoNode}
      BY DEF Held
    <3> QED BY <3>1, <2>1, <1>1, <1>4
  <2>3. drops' \in Seq(Holder \ (Symbols(stack') \cup {Library, Local("$$")}))
    <3>1. \A i \in 1..Len(released) :
            released[i] \in Holder \ (Symbols(stack') \cup {Library, Local("$$")})
      <4> SUFFICES ASSUME NEW i \in 1..Len(released)
                   PROVE  released[i] \in Holder \ (Symbols(stack') \cup {Library, Local("$$")})
        OBVIOUS
      <4>1. released[i] \in Slots(released) /\ released[i] \in Holder
        BY ElementOfSeq DEF Slots
      <4> QED BY <4>1, <2>1, <1>4
    <3> DEFINE T == Holder \ (Symbols(stack') \cup {Library, Local("$$")})
    <3>2. \A i \in 1..Len(released) : released[i] \in T
      BY <3>1
    <3> HIDE DEF T
    <3>3. released \in Seq(T)
      BY ONLY <3>2, OfASet, released \in Seq(Holder)
    <3> QED BY <3>3 DEF T
  <2> QED BY <2>2, <2>3 DEF HoldersAreKnown, Symbols, Slots
<1>6. StackIsShort'
  <2>1. Len(text) \in Nat
    BY LenProperties DEF IInv, StackIsShort
  <2> DEFINE ahead == IF la \in {"none", "end"} THEN 0 ELSE 1
             value == IF heap'.ptr[Local("$$")] # NoNode THEN 1 ELSE 0
  <2>2. Len(stack) + 0 + ahead <= Len(text)
    BY <1>1 DEF IInv, StackIsShort
  <2>3. Len(stack') + value + ahead <= Len(text)
    <3>1. value \in {0, 1} /\ ahead \in {0, 1}
      OBVIOUS
    <3> HIDE DEF value, ahead
    <3> QED BY <3>1, <2>1, <2>2, <1>1, <1>2
  <2> QED BY <2>3 DEF IInv, StackIsShort
<1>7. PhasesEnd'
  BY <1>1 DEF PhasesEnd
<1> QED BY <1>2, <1>3, <1>5, <1>6, <1>7 DEF IInv

(* The memory a rule takes, when there is any *)
LEMMA FreshIsFree ==
  ASSUME NEW h, NEW n \in Fresh(h)
  PROVE  n \in FreeNodes(h)
BY DEF Fresh

(* The heap a rule leaves when its value is the one thing added *)
LEMMA GrownHeap ==
  ASSUME IInv, Pushed, NEW n, Grows(heap, heap', Local("$$"), n)
  PROVE  /\ Good(heap') /\ Acyclic(heap')
         /\ Held(heap') = Held(heap) \cup {Local("$$")} \cup {}
         /\ heap'.ptr[Library] = heap.ptr[Library]
         /\ heap'.kind[heap.ptr[Library]] = "null"
<1>1. /\ Local("$$") \in Holder /\ Library \in Holder /\ Library # Local("$$")
  BY SlotsDiffer
<1>2. /\ Good(heap) /\ heap.ptr[Library] # NoNode /\ heap.kind[heap.ptr[Library]] = "null"
  BY PushedFacts
<1>3. heap.ptr[Library] \in Node /\ heap.kind[heap.ptr[Library]] # Free
  BY <1>1, <1>2, HeldIsUsed
<1>4. Held(heap') = Held(heap) \cup {Local("$$")}
  BY <1>1, NodesAssumption DEF Held, Grows
<1> QED BY <1>1, <1>2, <1>3, <1>4 DEF Grows

(* A rule of k symbols whose value is the node n, and the slots it releases *)
LEMMA BuildsKeeps ==
  ASSUME IInv, Pushed, NEW k \in 1..Len(stack), NEW n, NEW h, NEW released,
         Builds(k, h, n, released),
         Grows(heap, inc_refcount(h, Local("$$"), n), Local("$$"), n),
         released \in Seq(Holder), Slots(released) = Taken(k),
         \A i, j \in 1..Len(released) : released[i] = released[j] => i = j
  PROVE  IInv'
<1>1. /\ heap' = inc_refcount(h, Local("$$"), n) /\ stack' = Below(k) /\ drops' = released
      /\ UNCHANGED <<la, text, phase>>
  BY DEF Builds
<1>2. Grows(heap, heap', Local("$$"), n)
  BY <1>1
<1>3. /\ Good(heap') /\ Acyclic(heap')
      /\ Held(heap') = Held(heap) \cup {Local("$$")} \cup {}
      /\ heap'.ptr[Library] = heap.ptr[Library]
      /\ heap'.kind[heap.ptr[Library]] = "null"
  BY <1>2, GrownHeap
<1>4. Slots(released) = Taken(k) \cup {} /\ {} \in SUBSET {Local("one"), Local("e")}
  OBVIOUS
<1> QED BY <1>1, <1>3, <1>4, BuildStep

(* The expressions a rule takes, and their nodes *)
LEMMA OperandHeld ==
  ASSUME IInv, Pushed, NEW i \in 1..5, At(i).sym = "expression"
  PROVE  /\ SlotOf(i) \in Holder /\ heap.ptr[SlotOf(i)] # NoNode
         /\ i \in 1..Len(stack)
         /\ SlotOf(i) = Position(Len(stack) + 1 - i)
         /\ Len(stack) + 1 - i \in Expressions(stack)
<1>1. Leveled(stack)
  BY PushedFacts
<1>2. At(i).sym # "bottom"
  OBVIOUS
<1>3. /\ i \in 1..Len(stack) /\ Len(stack) + 1 - i \in 1..Len(stack)
      /\ SlotOf(i) = Position(Len(stack) + 1 - i)
      /\ Len(stack) + 1 - i \in Expressions(stack)
  BY <1>1, <1>2, AtIs
<1> QED BY <1>3, ExpressionsAreHeld

(* The symbols of a rule are expressions of the stack when they are expressions. *)
LEMMA TakenIs ==
  ASSUME Leveled(stack), NEW k \in 1..5, At(k).sym # "bottom"
  PROVE  /\ k \in 1..Len(stack)
         /\ Taken(k) = {SlotOf(i) : i \in {j \in 1..k : At(j) = Expression}}
<1>1. /\ Len(stack) \in Nat /\ k \in 1..Len(stack) /\ DOMAIN stack = 1..Len(stack)
  BY AtIs, OfItsElements DEF Leveled
<1>2. \A i \in 1..k : /\ At(i) = stack[Len(stack) + 1 - i]
                      /\ Len(stack) + 1 - i \in 1..Len(stack)
                      /\ SlotOf(i) = Position(Len(stack) + 1 - i)
  BY <1>1 DEF At, SlotOf
<1>3. \A j \in Expressions(stack) : j > Len(stack) - k =>
        /\ Len(stack) + 1 - j \in 1..k
        /\ At(Len(stack) + 1 - j) = Expression
        /\ SlotOf(Len(stack) + 1 - j) = Position(j)
  <2> SUFFICES ASSUME NEW j \in Expressions(stack), j > Len(stack) - k
               PROVE  /\ Len(stack) + 1 - j \in 1..k
                      /\ At(Len(stack) + 1 - j) = Expression
                      /\ SlotOf(Len(stack) + 1 - j) = Position(j)
    OBVIOUS
  <2>1. j \in 1..Len(stack) /\ stack[j] = Expression
    BY <1>1 DEF Expressions
  <2>2. Len(stack) + 1 - j \in 1..k /\ Len(stack) + 1 - (Len(stack) + 1 - j) = j
    BY <2>1, <1>1
  <2> QED BY <2>1, <2>2, <1>2
<1>4. \A i \in 1..k : At(i) = Expression =>
        /\ Len(stack) + 1 - i \in Expressions(stack)
        /\ Len(stack) + 1 - i > Len(stack) - k
  BY <1>1, <1>2 DEF Expressions
<1>5. Taken(k) \subseteq {SlotOf(i) : i \in {j \in 1..k : At(j) = Expression}}
  BY <1>3 DEF Taken
<1>6. {SlotOf(i) : i \in {j \in 1..k : At(j) = Expression}} \subseteq Taken(k)
  BY <1>2, <1>4 DEF Taken
<1> QED BY <1>1, <1>5, <1>6

---------------------------------------------------------------------------
(* The rules of expression and function_call *)

LEMMA NumberStep == ASSUME IInv, Number PROVE IInv'
<1>1. Pushed /\ At(1).sym = "n"
  BY TopsAre DEF Number, Ends, Parsing
<1>2. PICK n \in Fresh(heap) : Builds(1, NewLeaf(heap, n, "n"), n, <<>>)
  BY DEF Number
<1>3. Grows(heap, inc_refcount(NewLeaf(heap, n, "n"), Local("$$"), n), Local("$$"), n)
  BY <1>1, PushedFacts, FreshIsFree, LabelsMade, SlotsDiffer, LeafGrows
<1>4. 1 \in 1..Len(stack) /\ Taken(1) = {}
  <2>1. Leveled(stack) /\ At(1).sym # "bottom"
    BY <1>1, PushedFacts
  <2>2. \A j \in 1..1 : At(j) # Expression
    BY <1>1 DEF Expression, Tok, Symbol
  <2> QED BY <2>1, <2>2, TakenIs
<1>5. /\ <<>> \in Seq(Holder) /\ Slots(<<>>) = {}
      /\ \A i, j \in 1..Len(<<>>) : <<>>[i] = <<>>[j] => i = j
  BY DEF Slots
<1> QED BY <1>1, <1>2, <1>3, <1>4, <1>5, BuildsKeeps

(* One slot to release *)
LEMMA OneReleased ==
  ASSUME NEW a \in Holder
  PROVE  /\ <<a>> \in Seq(Holder) /\ Slots(<<a>>) = {a}
         /\ \A i, j \in 1..Len(<<a>>) : <<a>>[i] = <<a>>[j] => i = j
BY DEF Slots

(* Two of them *)
LEMMA TwoReleased ==
  ASSUME NEW a \in Holder, NEW b \in Holder, a # b
  PROVE  /\ <<a, b>> \in Seq(Holder) /\ Slots(<<a, b>>) = {a, b}
         /\ \A i, j \in 1..Len(<<a, b>>) : <<a, b>>[i] = <<a, b>>[j] => i = j
<1> DEFINE s == <<a, b>>
<1>1. Len(s) = 2 /\ s[1] = a /\ s[2] = b /\ s \in Seq(Holder)
  OBVIOUS
<1> HIDE DEF s
<1>2. 1..Len(s) = {1, 2}
  BY <1>1
<1>3. Slots(s) = {a, b} /\ \A i, j \in 1..Len(s) : s[i] = s[j] => i = j
  BY <1>1, <1>2 DEF Slots
<1> QED BY <1>1, <1>3 DEF s

(* A symbol that is no expression *)
LEMMA NoExpression ==
  ASSUME NEW i, At(i).sym # "expression"
  PROVE  At(i) # Expression
BY DEF Expression, Tok, Symbol

LEMMA UnaryMinusStep == ASSUME IInv, UnaryMinus PROVE IInv'
<1>1. Pushed /\ At(1).sym = "expression" /\ At(2) = Tok("neg", "e")
  BY DEF UnaryMinus, Reduces, Parsing, Rule
<1>2. PICK n \in Fresh(heap) :
        Builds(2, NewUnary(heap, n, "neg", NodeOf(1)), n, <<SlotOf(1)>>)
  BY DEF UnaryMinus
<1>3. /\ SlotOf(1) \in Holder /\ heap.ptr[SlotOf(1)] # NoNode
  BY <1>1, OperandHeld
<1>4. Grows(heap, inc_refcount(NewUnary(heap, n, "neg", NodeOf(1)), Local("$$"), n), Local("$$"), n)
  BY <1>1, <1>3, PushedFacts, FreshIsFree, LabelsMade, SlotsDiffer, UnaryGrows DEF NodeOf
<1>5. 2 \in 1..Len(stack) /\ Taken(2) = {SlotOf(1)}
  <2>1. Leveled(stack) /\ At(2).sym = "neg"
    BY <1>1, PushedFacts DEF Tok, Symbol
  <2>2. At(1) = Expression /\ At(2) # Expression
    BY <1>1, <2>1, AtIs, NoExpression
  <2>3. {j \in 1..2 : At(j) = Expression} = {1}
    BY <2>2
  <2>4. 2 \in 1..Len(stack) /\ Taken(2) = {SlotOf(i) : i \in {j \in 1..2 : At(j) = Expression}}
    BY <2>1, TakenIs
  <2> QED BY <2>3, <2>4
<1>6. /\ <<SlotOf(1)>> \in Seq(Holder) /\ Slots(<<SlotOf(1)>>) = {SlotOf(1)}
      /\ \A i, j \in 1..Len(<<SlotOf(1)>>) : <<SlotOf(1)>>[i] = <<SlotOf(1)>>[j] => i = j
  BY <1>3, OneReleased
<1> QED BY <1>1, <1>2, <1>4, <1>5, <1>6, BuildsKeeps

LEMMA BinaryExpressionStep == ASSUME IInv, BinaryExpression PROVE IInv'
<1>1. /\ Pushed /\ At(1).sym = "expression" /\ At(3).sym = "expression"
      /\ At(2).sym \in Ops
  BY DEF BinaryExpression, Reduces, Parsing, Rule, Binds
<1>2. PICK n \in Fresh(heap) :
        Builds(3, NewBinary(heap, n, Op[At(2).sym], NodeOf(3), NodeOf(1)), n,
               <<SlotOf(3), SlotOf(1)>>)
  BY DEF BinaryExpression
<1> DEFINE k == Op[At(2).sym]
<1>3. /\ SlotOf(3) \in Holder /\ heap.ptr[SlotOf(3)] # NoNode
      /\ SlotOf(1) \in Holder /\ heap.ptr[SlotOf(1)] # NoNode
  BY <1>1, OperandHeld
<1>4. k \in Label \ {"null"} /\ At(2).sym # "expression"
  <2>1. k \in {"mul", "sub"} /\ At(2).sym # "expression"
    BY <1>1 DEF Op, Ops, Prec
  <2> QED BY <2>1, LabelsMade
<1> HIDE DEF k
<1>5. Grows(heap, inc_refcount(NewBinary(heap, n, k, NodeOf(3), NodeOf(1)), Local("$$"), n),
            Local("$$"), n)
  BY <1>1, <1>3, <1>4, PushedFacts, FreshIsFree, SlotsDiffer, BinaryGrows DEF NodeOf
<1>6. /\ 3 \in 1..Len(stack) /\ Taken(3) = {SlotOf(3), SlotOf(1)} /\ SlotOf(3) # SlotOf(1)
  <2>1. Leveled(stack)
    BY <1>1, PushedFacts
  <2>2. At(1) = Expression /\ At(2) # Expression /\ At(3) = Expression
    BY <1>1, <1>4, <2>1, AtIs, NoExpression
  <2>3. {j \in 1..3 : At(j) = Expression} = {3, 1}
    BY <2>2
  <2>4. 3 \in 1..Len(stack) /\ Taken(3) = {SlotOf(i) : i \in {j \in 1..3 : At(j) = Expression}}
    BY <2>1, <1>1, TakenIs
  <2>5. SlotOf(3) # SlotOf(1)
    BY <1>1, PushedFacts, SlotsDiffer DEF SlotOf
  <2> QED BY <2>3, <2>4, <2>5
<1> DEFINE r == <<SlotOf(3), SlotOf(1)>>
<1>7. /\ r \in Seq(Holder) /\ Slots(r) = {SlotOf(3), SlotOf(1)}
      /\ \A i, j \in 1..Len(r) : r[i] = r[j] => i = j
  BY <1>3, <1>6, TwoReleased
<1> DEFINE h == NewBinary(heap, n, k, NodeOf(3), NodeOf(1))
<1>8. Builds(3, h, n, r)
  BY <1>2 DEF k
<1> HIDE DEF h, r
<1>9. Grows(heap, inc_refcount(h, Local("$$"), n), Local("$$"), n)
  BY <1>5 DEF h
<1> QED BY <1>1, <1>6, <1>7, <1>8, <1>9, BuildsKeeps

LEMMA CosStep == ASSUME IInv, Cos PROVE IInv'
<1>1. /\ Pushed /\ At(3).sym = "cos(" /\ At(2).sym = "expression" /\ At(1).sym = ")"
  BY TopsAre DEF Cos, Ends, Parsing
<1>2. PICK n \in Fresh(heap) :
        Builds(3, NewUnary(heap, n, "cos", NodeOf(2)), n, <<SlotOf(2)>>)
  BY DEF Cos
<1>3. /\ SlotOf(2) \in Holder /\ heap.ptr[SlotOf(2)] # NoNode
  BY <1>1, OperandHeld
<1>4. Grows(heap, inc_refcount(NewUnary(heap, n, "cos", NodeOf(2)), Local("$$"), n), Local("$$"), n)
  BY <1>1, <1>3, PushedFacts, FreshIsFree, LabelsMade, SlotsDiffer, UnaryGrows DEF NodeOf
<1>5. 3 \in 1..Len(stack) /\ Taken(3) = {SlotOf(2)}
  <2>1. Leveled(stack)
    BY <1>1, PushedFacts
  <2>2. At(1) # Expression /\ At(2) = Expression /\ At(3) # Expression
    BY <1>1, <2>1, AtIs, NoExpression
  <2>3. {j \in 1..3 : At(j) = Expression} = {2}
    BY <2>2
  <2>4. 3 \in 1..Len(stack) /\ Taken(3) = {SlotOf(i) : i \in {j \in 1..3 : At(j) = Expression}}
    BY <2>1, <1>1, TakenIs
  <2> QED BY <2>3, <2>4
<1>6. /\ <<SlotOf(2)>> \in Seq(Holder) /\ Slots(<<SlotOf(2)>>) = {SlotOf(2)}
      /\ \A i, j \in 1..Len(<<SlotOf(2)>>) : <<SlotOf(2)>>[i] = <<SlotOf(2)>>[j] => i = j
  BY <1>3, OneReleased
<1> QED BY <1>1, <1>2, <1>4, <1>5, <1>6, BuildsKeeps

(* The rule of a function of two expressions *)
LEMMA ExponentFacts ==
  ASSUME IInv, NEW f \in Functions2, Exponent(f)
  PROVE  /\ Pushed /\ 5 \in 1..Len(stack) /\ Taken(5) = {SlotOf(4), SlotOf(2)}
         /\ SlotOf(4) # SlotOf(2)
         /\ SlotOf(4) \in Holder /\ heap.ptr[SlotOf(4)] # NoNode
         /\ SlotOf(2) \in Holder /\ heap.ptr[SlotOf(2)] # NoNode
<1>1. /\ Pushed /\ At(4).sym = "expression" /\ At(3).sym = "comma"
      /\ At(2).sym = "expression" /\ At(1).sym = ")"
  BY TopsAre DEF Exponent, Ends, Parsing
<1>2. At(5).sym # "expression" /\ At(5).sym # "bottom"
  <2>1. At(5).sym = f
    BY TopsAre DEF Exponent, Ends
  <2> QED BY <2>1 DEF Functions2
<1>3. Leveled(stack)
  BY <1>1, PushedFacts
<1>4. At(4) = Expression /\ At(2) = Expression
  BY ONLY <1>1, <1>3, ExpressionAt
<1>5. At(5) # Expression /\ At(3) # Expression /\ At(1) # Expression
  BY <1>1, <1>2, NoExpression
<1>6. {j \in 1..5 : At(j) = Expression} = {4, 2}
  BY <1>4, <1>5
<1>8. 5 \in 1..Len(stack) /\ Taken(5) = {SlotOf(i) : i \in {j \in 1..5 : At(j) = Expression}}
  BY <1>2, <1>3, TakenIs
<1>9. Taken(5) = {SlotOf(4), SlotOf(2)}
  BY <1>6, <1>8
<1>10. SlotOf(4) # SlotOf(2)
  <2>1. Len(stack) \in Nat
    BY <1>1, PushedFacts
  <2>2. \A i, j : Position(i) = Position(j) => i = j
    BY SlotsDiffer
  <2> QED BY ONLY <2>1, <2>2 DEF SlotOf
<1>11. /\ SlotOf(4) \in Holder /\ heap.ptr[SlotOf(4)] # NoNode
       /\ SlotOf(2) \in Holder /\ heap.ptr[SlotOf(2)] # NoNode
  BY ONLY <1>1, IInv, OperandHeld
<1> QED BY ONLY <1>1, <1>8, <1>9, <1>10, <1>11

(* The function becomes one node, or the null one. *)
LEMMA ExponentBuilds ==
  ASSUME IInv, NEW f \in Functions2, Exponent(f), NEW n, NEW h,
         Builds(5, h, n, <<SlotOf(4), SlotOf(2)>>),
         Grows(heap, inc_refcount(h, Local("$$"), n), Local("$$"), n)
  PROVE  IInv'
<1>1. /\ Pushed /\ 5 \in 1..Len(stack) /\ Taken(5) = {SlotOf(4), SlotOf(2)}
      /\ SlotOf(4) # SlotOf(2) /\ SlotOf(4) \in Holder /\ SlotOf(2) \in Holder
  BY ExponentFacts
<1> DEFINE r == <<SlotOf(4), SlotOf(2)>>
<1>2. /\ r \in Seq(Holder) /\ Slots(r) = {SlotOf(4), SlotOf(2)}
      /\ \A i, j \in 1..Len(r) : r[i] = r[j] => i = j
  BY <1>1, TwoReleased
<1>3. Builds(5, h, n, r)
  OBVIOUS
<1> HIDE DEF r
<1> QED BY <1>1, <1>2, <1>3, BuildsKeeps

(* The function becomes three nodes, of which the action held the first two. *)
LEMMA InverseStep ==
  ASSUME IInv, NEW f \in Functions2, Exponent(f), Inverse1(NodeOf(4))
  PROVE  IInv'
<1> DEFINE x == NodeOf(4)
           l == heap.ptr[Library]
           one(n1) == inc_refcount(NewLeaf(heap, n1, "n"), Local("one"), n1)
           e(n1, n2) == inc_refcount(NewUnary(one(n1), n2, "pow_n", x), Local("e"), n2)
           r == <<Local("one"), Local("e"), SlotOf(4), SlotOf(2)>>
<1>1. PICK n1 \in Fresh(heap) : \E n2 \in Fresh(one(n1)) : \E n3 \in Fresh(e(n1, n2)) :
        Builds(5, NewBinary(e(n1, n2), n3, "div", n1, n2), n3, r)
  BY DEF Inverse1
<1> DEFINE g1 == one(n1)
<1>2. PICK n2 \in Fresh(g1) : \E n3 \in Fresh(e(n1, n2)) :
        Builds(5, NewBinary(e(n1, n2), n3, "div", n1, n2), n3, r)
  BY <1>1
<1> DEFINE g2 == e(n1, n2)
<1>3. PICK n3 \in Fresh(g2) : Builds(5, NewBinary(g2, n3, "div", n1, n2), n3, r)
  BY <1>2
<1>4. /\ Pushed /\ 5 \in 1..Len(stack) /\ Taken(5) = {SlotOf(4), SlotOf(2)}
      /\ SlotOf(4) # SlotOf(2)
      /\ SlotOf(4) \in Holder /\ heap.ptr[SlotOf(4)] # NoNode
      /\ SlotOf(2) \in Holder /\ heap.ptr[SlotOf(2)] # NoNode
  BY ExponentFacts
<1>5. /\ Good(heap) /\ Acyclic(heap) /\ l # NoNode /\ heap.kind[l] = "null"
      /\ heap.ptr[Local("$$")] = NoNode /\ heap.ptr[Local("one")] = NoNode
      /\ heap.ptr[Local("e")] = NoNode
  BY <1>4, PushedFacts, ExpressionsAreHeld
<1>6. /\ Local("$$") \in Holder /\ Local("one") \in Holder /\ Local("e") \in Holder
      /\ Library \in Holder
      /\ Local("$$") # Local("one") /\ Local("$$") # Local("e") /\ Local("one") # Local("e")
      /\ Library \notin {Local("$$"), Local("one"), Local("e")}
      /\ SlotOf(4) \notin {Local("$$"), Local("one"), Local("e")}
      /\ SlotOf(2) \notin {Local("$$"), Local("one"), Local("e")}
  BY SlotsDiffer DEF SlotOf
<1>7. l \in Node /\ heap.kind[l] # Free
  BY <1>5, <1>6, HeldIsUsed
<1>8. Grows(heap, g1, Local("one"), n1)
  BY <1>5, <1>6, FreshIsFree, LabelsMade, LeafGrows
<1> HIDE DEF g1
<1>9. /\ Good(g1) /\ Acyclic(g1) /\ g1.ptr[Local("one")] = n1 /\ n1 \in Node
      /\ g1.ptr[SlotOf(4)] = x /\ g1.ptr[SlotOf(4)] # NoNode
      /\ g1.ptr[Local("e")] = NoNode /\ g1.ptr[Local("$$")] = NoNode
      /\ g1.kind[l] = "null"
      /\ \A b \in Holder \ {Local("one")} : g1.ptr[b] = heap.ptr[b]
  BY <1>4, <1>5, <1>6, <1>7, <1>8 DEF Grows, NodeOf
<1>10. Grows(g1, g2, Local("e"), n2)
  <2>1. g2 = inc_refcount(NewUnary(g1, n2, "pow_n", g1.ptr[SlotOf(4)]), Local("e"), n2)
    BY <1>9 DEF g1
  <2> HIDE DEF g2
  <2>2. n2 \in FreeNodes(g1) /\ "pow_n" \in Label \ {"null"}
    BY FreshIsFree, LabelsMade
  <2>3. Grows(g1, inc_refcount(NewUnary(g1, n2, "pow_n", g1.ptr[SlotOf(4)]), Local("e"), n2),
              Local("e"), n2)
    BY ONLY <2>2, <1>4, <1>6, <1>9, UnaryGrows
  <2> QED BY <2>1, <2>3
<1> HIDE DEF g2
<1>11. /\ Good(g2) /\ Acyclic(g2) /\ g2.ptr[Local("e")] = n2 /\ n2 \in Node
       /\ g2.ptr[Local("one")] = n1 /\ g2.ptr[Local("$$")] = NoNode
       /\ g2.kind[l] = "null"
       /\ \A b \in Holder \ {Local("one"), Local("e")} : g2.ptr[b] = heap.ptr[b]
  <2>1. g1.kind[l] # Free
    BY <1>9 DEF Free
  <2> QED BY <2>1, <1>6, <1>7, <1>9, <1>10 DEF Grows
<1>12. Grows(g2, heap', Local("$$"), n3)
  <2>1. heap' = inc_refcount(NewBinary(g2, n3, "div", g2.ptr[Local("one")], g2.ptr[Local("e")]),
                             Local("$$"), n3)
    BY <1>3, <1>11 DEF Builds
  <2>2. n3 \in FreeNodes(g2) /\ "div" \in Label \ {"null"}
    BY FreshIsFree, LabelsMade
  <2>3. n1 # NoNode /\ n2 # NoNode
    BY <1>9, <1>11, NodesAssumption
  <2>4. Grows(g2, inc_refcount(NewBinary(g2, n3, "div", g2.ptr[Local("one")], g2.ptr[Local("e")]),
                               Local("$$"), n3), Local("$$"), n3)
    BY ONLY <2>2, <2>3, <1>6, <1>11, BinaryGrows
  <2> QED BY <2>1, <2>4
<1>13. /\ Good(heap') /\ Acyclic(heap')
       /\ heap'.ptr[Library] = heap.ptr[Library]
       /\ heap'.kind[heap.ptr[Library]] = "null"
       /\ heap'.ptr[Local("$$")] = n3 /\ n3 \in Node
       /\ heap'.ptr[Local("one")] = n1 /\ heap'.ptr[Local("e")] = n2
       /\ \A b \in Holder \ {Local("one"), Local("e"), Local("$$")} : heap'.ptr[b] = heap.ptr[b]
  <2>1. g2.kind[l] # Free
    BY <1>11 DEF Free
  <2> QED BY <2>1, <1>6, <1>7, <1>11, <1>12 DEF Grows
<1> DEFINE locals == {Local("one"), Local("e")}
<1>14. Held(heap') = Held(heap) \cup {Local("$$")} \cup locals
  BY <1>5, <1>6, <1>9, <1>11, <1>13, NodesAssumption DEF Held
<1>15. /\ r \in Seq(Holder) /\ Slots(r) = Taken(5) \cup locals
       /\ \A i, j \in 1..Len(r) : r[i] = r[j] => i = j
  <2>1. /\ Len(r) = 4 /\ r[1] = Local("one") /\ r[2] = Local("e")
        /\ r[3] = SlotOf(4) /\ r[4] = SlotOf(2) /\ r \in Seq(Holder)
    BY <1>4, <1>6
  <2> HIDE DEF r
  <2>2. 1..Len(r) = {1, 2, 3, 4}
    BY <2>1
  <2> QED BY <2>1, <2>2, <1>4, <1>6 DEF Slots
<1>16. stack' = Below(5) /\ drops' = r /\ UNCHANGED <<la, text, phase>>
  BY <1>3 DEF Builds
<1> HIDE DEF r, l
<1>17. locals \in SUBSET {Local("one"), Local("e")}
  OBVIOUS
<1> HIDE DEF locals
<1> QED BY <1>4, <1>13, <1>14, <1>15, <1>16, <1>17, BuildStep

LEMMA ExponentEvaluatesStep ==
  ASSUME IInv, NEW f \in Functions2, ExponentEvaluates(f)
  PROVE  IInv'
<1> DEFINE r == <<SlotOf(4), SlotOf(2)>>
           x == NodeOf(4)
<1>1. Exponent(f)
  BY DEF ExponentEvaluates
<1>2. \/ Builds(5, heap, heap.ptr[Library], r)
      \/ \E n \in Fresh(heap) : Builds(5, NewUnary(heap, n, "nth_root", x), n, r)
      \/ \E n \in Fresh(heap) : Builds(5, NewBinary(heap, n, "pow", x, NodeOf(2)), n, r)
      \/ \E n \in Fresh(heap) : Builds(5, NewUnary(heap, n, "pow_n", x), n, r)
      \/ \E n \in Fresh(heap) : Builds(5, NewLeaf(heap, n, "n"), n, r)
      \/ Inverse1(x)
  BY DEF ExponentEvaluates
<1> HIDE DEF r, x
<1>3. /\ Pushed /\ SlotOf(4) \in Holder /\ heap.ptr[SlotOf(4)] # NoNode
      /\ SlotOf(2) \in Holder /\ heap.ptr[SlotOf(2)] # NoNode
  BY <1>1, ExponentFacts
<1>4. /\ Good(heap) /\ Acyclic(heap) /\ heap.ptr[Library] # NoNode
      /\ heap.ptr[Local("$$")] = NoNode /\ Library \in Holder /\ Local("$$") \in Holder
  BY <1>3, PushedFacts, SlotsDiffer
<1>5. /\ x = heap.ptr[SlotOf(4)] /\ NodeOf(2) = heap.ptr[SlotOf(2)]
  BY DEF x, NodeOf
<1>6. CASE Builds(5, heap, heap.ptr[Library], r)
  <2>1. Grows(heap, inc_refcount(heap, Local("$$"), heap.ptr[Library]), Local("$$"),
              heap.ptr[Library])
    BY <1>4, TakeGrows
  <2> QED BY <2>1, <1>1, <1>6, ExponentBuilds DEF r
<1>7. ASSUME NEW n \in Fresh(heap), NEW k \in {"nth_root", "pow_n"},
             Builds(5, NewUnary(heap, n, k, x), n, r)
      PROVE  IInv'
  <2>1. Grows(heap, inc_refcount(NewUnary(heap, n, k, x), Local("$$"), n), Local("$$"), n)
    BY <1>3, <1>4, <1>5, FreshIsFree, LabelsMade, UnaryGrows
  <2> QED BY <2>1, <1>1, <1>7, ExponentBuilds DEF r
<1>8. ASSUME NEW n \in Fresh(heap), Builds(5, NewBinary(heap, n, "pow", x, NodeOf(2)), n, r)
      PROVE  IInv'
  <2>1. Grows(heap, inc_refcount(NewBinary(heap, n, "pow", x, NodeOf(2)), Local("$$"), n),
              Local("$$"), n)
    BY <1>3, <1>4, <1>5, FreshIsFree, LabelsMade, BinaryGrows
  <2> QED BY <2>1, <1>1, <1>8, ExponentBuilds DEF r
<1>9. ASSUME NEW n \in Fresh(heap), Builds(5, NewLeaf(heap, n, "n"), n, r)
      PROVE  IInv'
  <2>1. Grows(heap, inc_refcount(NewLeaf(heap, n, "n"), Local("$$"), n), Local("$$"), n)
    BY <1>4, FreshIsFree, LabelsMade, LeafGrows
  <2> QED BY <2>1, <1>1, <1>9, ExponentBuilds DEF r
<1>10. CASE Inverse1(x)
  BY <1>1, <1>10, InverseStep DEF x
<1> QED BY <1>2, <1>6, <1>7, <1>8, <1>9, <1>10

---------------------------------------------------------------------------
(* The steps that leave the nodes alone *)

(* An expression may stand where an interval may not. *)
LEMMA ExpressionLevel == Expression.lev = "e" /\ Expression.sym = "expression"
BY DEF Expression, Tok, Symbol

(* A value, or a token, in the place of k symbols that were no expressions *)
LEMMA ReplaceStep ==
  ASSUME IInv, Pushed, NEW k \in 0..Len(stack), NEW e, e # Expression,
         MayFollow(e, Below(k)), Taken(k) = {},
         stack' = Append(Below(k), e), UNCHANGED <<heap, text, phase, drops>>,
         \/ k > 0 /\ UNCHANGED la
         \/ la \notin {"none", "end"} /\ la' = "none"
  PROVE  IInv'
<1>1. /\ phase = "parsing" /\ Leveled(stack) /\ Held(heap) = Symbols(stack) \cup {Library}
      /\ Len(stack) \in Nat /\ heap.ptr[Local("$$")] = NoNode /\ drops = <<>>
  BY PushedFacts
<1>2. /\ Leveled(Below(k)) /\ Len(Below(k)) = Len(stack) - k
      /\ Expressions(Below(k)) = {i \in Expressions(stack) : i <= Len(stack) - k}
  BY <1>1, CutIsLeveled DEF Below
<1>3. /\ Leveled(stack') /\ Len(stack') = Len(stack) - k + 1
      /\ Expressions(stack') = Expressions(Below(k))
  <2> DEFINE s == Below(k)
  <2>1. Leveled(s) /\ MayFollow(e, s) /\ stack' = Append(s, e) /\ Len(s) = Len(stack) - k
    BY <1>2
  <2> HIDE DEF s
  <2>2. /\ Leveled(Append(s, e)) /\ Len(Append(s, e)) = Len(s) + 1
        /\ Expressions(Append(s, e))
             = Expressions(s) \cup (IF e = Expression THEN {Len(s) + 1} ELSE {})
    BY <2>1, GrownIsLeveled
  <2>3. Expressions(stack') = Expressions(s)
    BY <2>1, <2>2
  <2> QED BY <2>1, <2>2, <2>3 DEF s
<1>4. Expressions(stack') = Expressions(stack)
  <2>1. \A i \in Expressions(stack) : ~(i > Len(stack) - k)
    BY DEF Taken
  <2>2. Expressions(stack) \subseteq 1..Len(stack)
    BY <1>1, OfItsElements DEF Leveled, Expressions
  <2>3. \A i \in Expressions(stack) : i <= Len(stack) - k
    BY <2>1, <2>2, <1>1
  <2> QED BY <2>3, <1>2, <1>3
<1>5. HeapIsKept'
  BY DEF IInv, HeapIsKept
<1>6. HoldersAreKnown'
  BY <1>4 DEF IInv, HoldersAreKnown
<1>7. StackIsShort'
  <2>1. Len(text) \in Nat
    BY LenProperties DEF IInv, StackIsShort
  <2>2. Len(stack) + 0 + (IF la \in {"none", "end"} THEN 0 ELSE 1) <= Len(text)
    BY <1>1 DEF IInv, StackIsShort
  <2>3. Len(stack') + 0 + (IF la' \in {"none", "end"} THEN 0 ELSE 1) <= Len(text)
    BY <2>1, <2>2, <1>1, <1>3
  <2> QED BY <2>3, <1>1 DEF IInv, StackIsShort
<1>8. PhasesEnd'
  BY <1>1 DEF PhasesEnd
<1> QED BY <1>3, <1>5, <1>6, <1>7, <1>8 DEF IInv

(* The parser gives up its stack: the expressions on it are all to release. *)
LEMMA EmptyStep ==
  ASSUME IInv, Pushed, NEW released \in Seq(Holder), Slots(released) = Symbols(stack),
         \A i, j \in 1..Len(released) : released[i] = released[j] => i = j,
         stack' = <<>>, drops' = released, phase' \in {"ending", "thrown"},
         UNCHANGED <<heap, la, text>>
  PROVE  IInv'
<1>1. /\ Leveled(stack) /\ Held(heap) = Symbols(stack) \cup {Library}
      /\ Len(stack) \in Nat /\ heap.ptr[Local("$$")] = NoNode
  BY PushedFacts
<1>2. Len(<<>>) = 0 /\ 1..Len(<<>>) = {} /\ Expressions(<<>>) = {} /\ <<>> \in Seq(ToSet(<<>>))
  BY DEF Expressions
<1>3. Leveled(stack')
  BY <1>2 DEF Leveled
<1>4. HeapIsKept'
  BY DEF IInv, HeapIsKept
<1>5. HoldersAreKnown'
  <2>1. Library \notin Symbols(stack) /\ Local("$$") \notin Symbols(stack)
        /\ Local("$$") # Library
    BY SlotsDiffer DEF Symbols
  <2>2. {s \in Holder : heap'.ptr[s] # NoNode} \ {Local("$$")} = Slots(released) \cup {Library}
    BY <1>1, <2>1 DEF Held
  <2>3. released \in Seq(Holder \ {Library, Local("$$")})
    <3> DEFINE T == Holder \ {Library, Local("$$")}
    <3>1. \A i \in 1..Len(released) : released[i] \in T
      <4> SUFFICES ASSUME NEW i \in 1..Len(released) PROVE released[i] \in T
        OBVIOUS
      <4>1. released[i] \in Slots(released) /\ released[i] \in Holder
        BY ElementOfSeq DEF Slots
      <4> QED BY <4>1, <2>1
    <3> HIDE DEF T
    <3>2. released \in Seq(T)
      BY ONLY <3>1, OfASet, released \in Seq(Holder)
    <3> QED BY <3>2 DEF T
  <2> QED BY <1>2, <2>2, <2>3 DEF HoldersAreKnown, Slots
<1>6. StackIsShort'
  <2>1. Len(text) \in Nat
    BY LenProperties DEF IInv, StackIsShort
  <2>2. Len(stack) + 0 + (IF la \in {"none", "end"} THEN 0 ELSE 1) <= Len(text)
    BY <1>1 DEF IInv, StackIsShort
  <2>3. Len(stack') + 0 + (IF la' \in {"none", "end"} THEN 0 ELSE 1) <= Len(text)
    BY <2>1, <2>2, <1>1, <1>2
  <2> QED BY <2>3, <1>1 DEF IInv, StackIsShort
<1>7. PhasesEnd'
  BY <1>1 DEF PhasesEnd
<1> QED BY <1>3, <1>4, <1>5, <1>6, <1>7 DEF IInv

(* When the top is where an interval may be, so is all the stack. *)
LEMMA TopLevel ==
  ASSUME Leveled(stack), At(1).lev = "i"
  PROVE  \A j \in 1..Len(stack) : stack[j].lev = "i"
<1>1. Len(stack) \in Nat
  BY OfItsElements DEF Leveled
<1>2. CASE Len(stack) = 0
  BY <1>2
<1>3. CASE Len(stack) > 0
  <2>1. At(1) = stack[Len(stack)] /\ Len(stack) \in 1..Len(stack)
    BY <1>1, <1>3 DEF At
  <2>2. \A j \in 1..Len(stack) - 1 : stack[j].lev = "i"
    BY <2>1 DEF Leveled
  <2>3. \A j \in 1..Len(stack) : j = Len(stack) \/ j \in 1..Len(stack) - 1
    BY <1>1
  <2> QED BY <2>1, <2>2, <2>3
<1> QED BY <1>1, <1>2, <1>3

LEMMA ShiftStep == ASSUME IInv, Shift PROVE IInv'
<1>1. Pushed /\ la # "none" /\ Rule = "shift" /\ Leveled(stack) /\ Len(stack) \in Nat
  BY PushedFacts DEF Shift, Reduces, Parsing
<1>2. CanShift(la)
  BY <1>1 DEF Rule
<1> DEFINE sign == la = "-" /\ At(1).sym \notin Operand
           lev == IF la \in {"[", "<"} THEN "e" ELSE At(1).lev
           e == Tok(IF sign THEN "neg" ELSE la, lev)
<1>3. /\ la # "end" /\ la \notin {"bottom", "expression", "itv_expr_aux", "neg"}
      /\ la \in {"[", "<", "u"} => At(1).lev = "i"
  BY <1>2 DEF CanShift, CanBegin, CanFollow, Functions1, Functions2, Ops, Prec
<1>4. /\ e.sym \in {"neg", la} /\ e.lev = lev
      /\ e.sym \in {"[", "<", "u"} => e.sym = la
      /\ sign => e.sym = "neg"
  BY DEF Tok, Symbol
<1>5. MayFollow(e, stack) /\ e # Expression
  <2>1. e.sym # "bottom" /\ e.sym # "expression" /\ e.sym # "itv_expr_aux"
    BY <1>3, <1>4
  <2>2. e.sym = "u" => e.lev = "i"
    BY <1>3, <1>4
  <2>3. e.lev = "i" \/ e.sym \in {"[", "<"} => At(1).lev = "i"
    BY <1>3, <1>4
  <2>4. e.sym \in Ops => At(1).sym \in Operand
    BY <1>2, <1>4 DEF CanShift, CanBegin, Functions1, Functions2, Ops, Prec
  <2>5. At(1).sym \in Operand => Len(stack) > 0
    BY <1>1 DEF At, Bottom, Tok, Symbol, Operand
  <2> HIDE DEF e
  <2>6. e # Expression
    BY <2>1, ExpressionLevel
  <2> QED BY <2>1, <2>2, <2>3, <2>4, <2>5, <2>6, <1>1, TopLevel DEF MayFollow
<1>6. stack' = Append(stack, e) /\ la' = "none" /\ UNCHANGED <<heap, text, phase, drops>>
  BY DEF Shift
<1> HIDE DEF e
<1>7. stack = Below(0) /\ 0 \in 0..Len(stack)
  <2>1. stack \in Seq(ToSet(stack))
    BY <1>1 DEF Leveled
  <2>2. SubSeq(stack, 1, Len(stack)) = stack
    BY <2>1, SubSeqFull
  <2>3. Len(stack) - 0 = Len(stack)
    BY <1>1
  <2> QED BY <2>2, <2>3, <1>1 DEF Below
<1>8. Taken(0) = {}
  <2>1. Expressions(stack) \subseteq 1..Len(stack)
    BY <1>1, OfItsElements DEF Leveled, Expressions
  <2>2. \A i \in Expressions(stack) : ~(i > Len(stack) - 0)
    BY <2>1, <1>1
  <2> QED BY <2>2 DEF Taken
<1> QED BY <1>1, <1>3, <1>5, <1>6, <1>7, <1>8, ReplaceStep

---------------------------------------------------------------------------
(* The steps that read, release and push *)

LEMMA StartStep == ASSUME IInv, Start PROVE IInv'
<1>1. /\ phase = "idle" /\ phase' = "parsing" /\ stack' = <<>> /\ text' = <<>> /\ la' = "none"
      /\ UNCHANGED <<heap, drops>>
  BY DEF Start
<1>2. stack = <<>> /\ heap.ptr[Local("$$")] = NoNode
  BY <1>1 DEF IInv, PhasesEnd
<1>3. HeapIsKept' /\ HoldersAreKnown' /\ Leveled(stack')
  BY <1>1, <1>2 DEF IInv, HeapIsKept, HoldersAreKnown
<1>4. StackIsShort'
  BY <1>1, <1>2, ParserTexts DEF StackIsShort
<1>5. PhasesEnd'
  BY <1>1 DEF PhasesEnd
<1> QED BY <1>3, <1>4, <1>5 DEF IInv

LEMMA ReadStep == ASSUME IInv, Read PROVE IInv'
<1>1. /\ phase = "parsing" /\ la = "none" /\ UNCHANGED <<heap, stack, phase, drops, buffer, kept>>
      /\ Len(stack) \in Nat /\ heap.ptr[Local("$$")] = NoNode
  BY PushedFacts DEF Read, Parsing, globals
<1>2. HeapIsKept' /\ HoldersAreKnown' /\ Leveled(stack')
  BY <1>1 DEF IInv, HeapIsKept, HoldersAreKnown
<1>3. /\ text \in Seq(Token) /\ Len(text) \in Nat /\ Len(text) <= MaxTokens
      /\ Len(stack) <= Len(text)
  BY <1>1, LenProperties DEF IInv, StackIsShort
<1>4. StackIsShort'
  <2>1. CASE la' = "end" /\ UNCHANGED text
    BY <2>1, <1>1, <1>3 DEF StackIsShort
  <2>2. ASSUME NEW t \in Token, la' = t, text' = Append(text, t), IsRead(text')
        PROVE  StackIsShort'
    <3>1. text' \in Seq(Token) /\ Len(text') = Len(text) + 1
      BY <2>2, <1>3, AppendProperties
    <3>2. Len(text') <= MaxTokens
      <4>1. PICK k \in Texts : Len(text') <= k.length
        BY <2>2 DEF IsRead
      <4>2. k.length \in Nat /\ k.length <= MaxTokens /\ MaxTokens \in Nat
        BY ParserTexts, ParserBounds
      <4> QED BY <4>1, <4>2, <3>1, <1>3
    <3> QED BY <3>1, <3>2, <1>1, <1>3 DEF StackIsShort
  <2> QED BY <2>1, <2>2 DEF Read
<1>5. PhasesEnd'
  BY <1>1 DEF PhasesEnd
<1> QED BY <1>2, <1>4, <1>5 DEF IInv

LEMMA ReleaseStep == ASSUME IInv, Release PROVE IInv'
<1> DEFINE a == Head(drops)
           Others == Holder \ (Symbols(stack) \cup {Library, Local("$$")})
<1>1. /\ drops # <<>> /\ heap' = dec_refcount(heap, a) /\ drops' = Tail(drops)
      /\ UNCHANGED <<stack, la, text, phase>>
  BY DEF Release
<1>2. /\ drops \in Seq(Others) /\ Held(heap) \ {Local("$$")} = Slots(drops) \cup Symbols(stack) \cup {Library}
      /\ \A i, j \in 1..Len(drops) : drops[i] = drops[j] => i = j
  BY DEF IInv, HoldersAreKnown, Held, Slots, Symbols
<1> HIDE DEF Others
<1>3. /\ Len(drops) \in Nat /\ Len(drops) > 0 /\ a = drops[1] /\ a \in Others
      /\ drops' \in Seq(Others) /\ Len(drops') = Len(drops) - 1
      /\ \A i \in 1..Len(drops') : drops'[i] = drops[i + 1]
  BY <1>1, <1>2, HeadTailProperties, LenProperties, EmptySeq
<1>4. a \in Holder /\ heap.ptr[a] # NoNode /\ a \notin Symbols(stack) \cup {Library, Local("$$")}
  <2>1. a \in Slots(drops)
    BY <1>3 DEF Slots
  <2> QED BY <2>1, <1>2, <1>3 DEF Others, Held
<1>5. Shrinks(heap, heap', a)
  <2>1. Good(heap) /\ Acyclic(heap)
    BY DEF IInv, HeapIsKept, Good, Sound
  <2> HIDE DEF a
  <2> QED BY ONLY <2>1, <1>1, <1>4, DecShrinks
<1>6. Slots(drops') = Slots(drops) \ {a}
  <2>1. \A i \in 1..Len(drops') : i + 1 \in 1..Len(drops) /\ i + 1 # 1 /\ 1 \in 1..Len(drops)
    BY <1>3
  <2>2. Slots(drops') \subseteq Slots(drops) \ {a}
    BY <2>1, <1>2, <1>3 DEF Slots
  <2>3. ASSUME NEW i \in 1..Len(drops), drops[i] # a PROVE drops[i] \in Slots(drops')
    <3>1. i - 1 \in 1..Len(drops') /\ (i - 1) + 1 = i
      BY <2>3, <1>3
    <3> QED BY <3>1, <1>3 DEF Slots
  <2> QED BY <2>2, <2>3 DEF Slots
<1>7. Library \in Holder /\ Local("$$") \in Holder
  BY SlotsDiffer
<1>8. HeapIsKept'
  BY <1>4, <1>5, <1>7 DEF IInv, HeapIsKept, Shrinks, Good, Sound
<1>9. HoldersAreKnown'
  <2>1. Held(heap') = Held(heap) \ {a}
    BY <1>4, <1>5 DEF Held, Shrinks
  <2>2. Held(heap') \ {Local("$$")} = Slots(drops') \cup Symbols(stack') \cup {Library}
    BY <2>1, <1>1, <1>2, <1>4, <1>6
  <2>3. \A i, j \in 1..Len(drops') : drops'[i] = drops'[j] => i = j
    <3>1. \A i \in 1..Len(drops') : i + 1 \in 1..Len(drops)
      BY <1>3
    <3>2. \A i, j \in 1..Len(drops') : i + 1 = j + 1 => i = j
      BY <1>3
    <3> QED BY <3>1, <3>2, <1>2, <1>3
  <2> QED BY <2>2, <2>3, <1>1, <1>3 DEF HoldersAreKnown, Held, Slots, Symbols, Others
<1>10. Leveled(stack') /\ StackIsShort'
  BY <1>1, <1>4, <1>5, <1>7 DEF IInv, StackIsShort, Shrinks
<1>11. PhasesEnd'
  BY <1>1, <1>4, <1>5, <1>7 DEF IInv, PhasesEnd, Busy, Shrinks
<1> QED BY <1>8, <1>9, <1>10, <1>11 DEF IInv

LEMMA DestructStep == ASSUME IInv, Destruct PROVE IInv'
<1>1. /\ heap.dying # <<>> /\ heap' = Destructor(heap)
      /\ UNCHANGED <<stack, la, text, phase, drops, buffer, kept>>
  BY DEF Destruct, globals
<1>2. /\ Good(heap) /\ Acyclic(heap) /\ heap.ptr[Library] # NoNode
      /\ heap.kind[heap.ptr[Library]] = "null"
  BY DEF IInv, HeapIsKept, Good, Sound
<1>3. Library \in Holder /\ Local("$$") \in Holder
  BY SlotsDiffer
<1>4. heap.ptr[Library] \in Node /\ heap.refs[heap.ptr[Library]] > 0
  BY <1>2, <1>3, HeldIsUsed
<1>5. /\ Good(heap') /\ \A b \in Holder : heap'.ptr[b] = heap.ptr[b]
      /\ \A m \in Node : heap.refs[m] > 0 => heap'.kind[m] = heap.kind[m]
  BY ONLY <1>1, <1>2, DestructorKeeps
<1>6. Acyclic(heap')
  BY ONLY <1>1, <1>2, DestructorIsAcyclic
<1>7. HeapIsKept'
  BY <1>2, <1>3, <1>4, <1>5, <1>6 DEF HeapIsKept, Good, Sound
<1>8. HoldersAreKnown'
  <2>1. {s \in Holder : heap'.ptr[s] # NoNode} = {s \in Holder : heap.ptr[s] # NoNode}
    BY <1>5
  <2> QED BY <2>1, <1>1 DEF IInv, HoldersAreKnown
<1>9. Leveled(stack') /\ StackIsShort'
  BY <1>1, <1>3, <1>5 DEF IInv, StackIsShort
<1>10. PhasesEnd'
  BY <1>1, <1>3, <1>5 DEF IInv, PhasesEnd, Busy
<1> QED BY <1>7, <1>8, <1>9, <1>10 DEF IInv

LEMMA PushStep == ASSUME IInv, Push PROVE IInv'
<1> DEFINE l == Len(stack)
           a == Local("$$")
           b == Position(l + 1)
<1>1. /\ heap.dying = <<>> /\ drops = <<>> /\ heap.ptr[a] # NoNode
      /\ stack' = Append(stack, Expression) /\ heap' = Move(heap, a, b)
      /\ UNCHANGED <<la, text, phase, drops>>
  BY DEF Push, Busy
<1>2. phase = "parsing" /\ Leveled(stack) /\ Good(heap) /\ Acyclic(heap)
  BY <1>1 DEF IInv, PhasesEnd, HeapIsKept, Good, Sound
<1>3. /\ l \in Nat /\ l + 1 <= Len(text) /\ l + 1 \in 1..MaxTokens
      /\ l + 1 + (IF la \in {"none", "end"} THEN 0 ELSE 1) <= Len(text)
  <2>1. l \in Nat /\ Len(text) \in Nat /\ MaxTokens \in Nat
    BY <1>2, OfItsElements, LenProperties, ParserTexts DEF Leveled, IInv, StackIsShort
  <2> QED BY <2>1, <1>1 DEF IInv, StackIsShort
<1>4. Held(heap) \ {a} = Symbols(stack) \cup {Library}
  <2>1. {drops[i] : i \in 1..Len(drops)} = {}
    BY <1>1
  <2>2. Held(heap) \ {a} = {} \cup Symbols(stack) \cup {Library}
    BY <2>1 DEF IInv, HoldersAreKnown, Held, Symbols
  <2> QED BY <2>2
<1>5. /\ a \in Holder /\ b \in Holder /\ a # b /\ Library \in Holder /\ Library \notin {a, b}
      /\ b \notin Symbols(stack)
  <2>1. Expressions(stack) \subseteq 1..l
    BY <1>2, OfItsElements DEF Leveled, Expressions
  <2>2. l + 1 \notin Expressions(stack)
    BY <2>1, <1>3
  <2> QED BY <2>2, <1>3, SlotsDiffer DEF Symbols
<1>6. heap.ptr[b] = NoNode
  BY <1>4, <1>5 DEF Held
<1> HIDE DEF a, b
<1>7. /\ Good(heap') /\ Acyclic(heap') /\ heap'.kind = heap.kind /\ heap'.dying = heap.dying
      /\ heap'.ptr[a] = NoNode /\ heap'.ptr[b] = heap.ptr[a]
      /\ \A c \in Holder \ {a, b} : heap'.ptr[c] = heap.ptr[c]
  BY ONLY <1>1, <1>2, <1>5, <1>6, MoveKeeps
<1>8. /\ Leveled(stack') /\ Len(stack') = l + 1
      /\ Expressions(stack') = Expressions(stack) \cup {l + 1}
  <2>1. MayFollow(Expression, stack)
    BY ExpressionLevel DEF MayFollow, Ops, Prec
  <2> QED BY <2>1, <1>1, <1>2, GrownIsLeveled
<1>9. HeapIsKept'
  BY <1>5, <1>7 DEF IInv, HeapIsKept, Good, Sound
<1>10. HoldersAreKnown'
  <2>1. Held(heap') = (Held(heap) \ {a}) \cup {b}
    BY <1>1, <1>5, <1>7 DEF Held
  <2>2. Symbols(stack') = Symbols(stack) \cup {b}
    BY <1>8 DEF Symbols, b
  <2>3. Held(heap') \ {a} = {} \cup Symbols(stack') \cup {Library}
    BY <2>1, <2>2, <1>4, <1>5
  <2>4. drops' = <<>> /\ Len(<<>>) = 0 /\ 1..0 = {}
    BY <1>1
  <2> QED BY <2>3, <2>4 DEF HoldersAreKnown, Held, Symbols, a
<1>11. StackIsShort'
  BY <1>1, <1>3, <1>7, <1>8 DEF IInv, StackIsShort, a
<1>12. PhasesEnd'
  BY <1>1, <1>2 DEF PhasesEnd
<1> QED BY <1>8, <1>9, <1>10, <1>11, <1>12 DEF IInv

---------------------------------------------------------------------------
(* Parentheses *)

(* Below the k symbols of a rule an interval may be everywhere. *)
OnlyIntervals(k) == \A j \in 1..Len(stack) - k : stack[j].lev = "i"

(* It is so when one of them is, or begins, an interval. *)
LEMMA IntervalIn ==
  ASSUME Leveled(stack), NEW k \in 1..5, At(k).sym # "bottom", NEW m \in 1..k,
         At(m).lev = "i" \/ At(m).sym \in {"[", "<", "u", "itv_expr_aux"}
  PROVE  OnlyIntervals(k)
<1>1. k \in 1..Len(stack) /\ Len(stack) \in Nat
  BY AtIs
<1>2. m \in 1..5 /\ Len(stack) + 1 - m \in 1..Len(stack) /\ At(m) = stack[Len(stack) + 1 - m]
  BY <1>1 DEF At
<1>3. At(m).lev = "i" \/ At(m).sym \in {"[", "<"}
  BY <1>2 DEF Leveled
<1>4. \A j \in 1..(Len(stack) + 1 - m) - 1 : stack[j].lev = "i"
  BY <1>2, <1>3 DEF Leveled
<1>5. \A j \in 1..Len(stack) - k : j \in 1..(Len(stack) + 1 - m) - 1
  BY <1>1
<1> QED BY <1>4, <1>5 DEF OnlyIntervals

(* The expressions of the stack are then those of the rule. *)
LEMMA IntervalRule ==
  ASSUME IInv, Pushed, NEW k \in 1..5, At(k).sym # "bottom", OnlyIntervals(k)
  PROVE  /\ k \in 1..Len(stack) /\ Symbols(stack) = Taken(k)
         /\ Expressions(Below(k)) = {} /\ \A v : MayFollow(Itv(v), Below(k))
         /\ Leveled(Below(k)) /\ Len(Below(k)) = Len(stack) - k
         /\ \A v : Itv(v) # Expression
<1>1. Leveled(stack) /\ Len(stack) \in Nat /\ k \in 1..Len(stack)
  BY PushedFacts, AtIs
<1>2. Expressions(stack) \subseteq 1..Len(stack)
  BY <1>1, OfItsElements DEF Leveled, Expressions
<1>3. \A j \in Expressions(stack) : j > Len(stack) - k /\ ~(j <= Len(stack) - k)
  <2> SUFFICES ASSUME NEW j \in Expressions(stack)
               PROVE  j > Len(stack) - k /\ ~(j <= Len(stack) - k)
    OBVIOUS
  <2>1. stack[j].lev # "i"
    BY ExpressionLevel DEF Expressions
  <2>2. ~(j \in 1..Len(stack) - k)
    BY <2>1 DEF OnlyIntervals
  <2> QED BY <2>2, <1>1, <1>2
<1>4. /\ Leveled(Below(k)) /\ Len(Below(k)) = Len(stack) - k
      /\ \A i \in 1..Len(stack) - k : Below(k)[i] = stack[i]
      /\ Expressions(Below(k)) = {i \in Expressions(stack) : i <= Len(stack) - k}
  <2>1. k \in 0..Len(stack)
    BY <1>1
  <2> QED BY <2>1, <1>1, CutIsLeveled DEF Below
<1>5. Expressions(Below(k)) = {}
  BY <1>3, <1>4
<1>6. Symbols(stack) = Taken(k)
  BY <1>3 DEF Symbols, Taken
<1> DEFINE s == Below(k)
<1>7. \A j \in 1..Len(s) : s[j].lev = "i"
  BY <1>4 DEF OnlyIntervals
<1> HIDE DEF s
<1>8. ASSUME NEW v PROVE MayFollow(Itv(v), s) /\ Itv(v) # Expression
  <2>1. Itv(v).sym = "itv_expr_aux" /\ Itv(v).lev = "i"
    BY DEF Itv, Symbol
  <2> QED BY <2>1, <1>7, ExpressionLevel DEF MayFollow, Ops, Prec
<1> QED BY <1>1, <1>4, <1>5, <1>6, <1>8 DEF s

LEMMA ParenthesesStep == ASSUME IInv, Parentheses PROVE IInv'
<1> DEFINE l == Len(stack)
           a == SlotOf(2)
           b == SlotOf(3)
           e == At(2)
<1>1. /\ Pushed /\ At(3).sym = "(" /\ e.sym \in Operand /\ At(1).sym = ")"
      /\ stack' = Append(Below(3), e) /\ UNCHANGED <<la, text, phase, drops>>
      /\ heap' = IF e = Expression THEN Move(heap, a, b) ELSE heap
  BY TopsAre DEF Parentheses, Ends, Parsing
<1>2. /\ phase = "parsing" /\ drops = <<>> /\ heap.dying = <<>> /\ Leveled(stack)
      /\ heap.ptr[Local("$$")] = NoNode /\ l \in Nat /\ l <= MaxTokens
      /\ Good(heap) /\ Acyclic(heap) /\ Held(heap) = Symbols(stack) \cup {Library}
  BY <1>1, PushedFacts
<1>3. /\ At(3).sym # "bottom" /\ e.sym # "bottom"
      /\ At(3).sym # "expression" /\ At(1).sym # "expression"
  BY <1>1 DEF Operand
<1>4. /\ l >= 3 /\ e = stack[l - 1] /\ a = Position(l - 1) /\ b = Position(l - 2)
      /\ l - 2 \notin Expressions(stack) /\ l \notin Expressions(stack)
  <2>1. /\ 3 \in 1..l /\ l + 1 - 3 = l - 2 /\ l + 1 - 2 = l - 1 /\ l + 1 - 1 = l
    BY <1>2, <1>3, AtIs
  <2>2. e = stack[l - 1] /\ At(3) = stack[l - 2] /\ At(1) = stack[l]
    BY <2>1, <1>2 DEF At
  <2>3. At(3) # Expression /\ At(1) # Expression
    BY <1>3, NoExpression
  <2> QED BY <2>1, <2>2, <2>3, <1>2 DEF SlotOf, Expressions
<1>5. /\ Leveled(Below(3)) /\ Len(Below(3)) = l - 3
      /\ \A i \in 1..l - 3 : Below(3)[i] = stack[i]
      /\ Expressions(Below(3)) = {i \in Expressions(stack) : i <= l - 3}
  <2>1. 3 \in 0..Len(stack)
    BY <1>2, <1>4
  <2> QED BY <2>1, <1>2, CutIsLeveled DEF Below
<1> DEFINE s == Below(3)
<1>6. MayFollow(e, s)
  <2>1. l - 1 \in 1..l /\ \A j \in 1..l - 3 : j \in 1..(l - 1) - 1
    BY <1>2, <1>4
  <2>2. /\ e.sym = "expression" => e = Expression
        /\ e.sym \in {"u", "itv_expr_aux"} => e.lev = "i"
        /\ e.lev = "i" \/ e.sym \in {"[", "<"} => \A j \in 1..l - 3 : stack[j].lev = "i"
    BY <2>1, <1>2, <1>4 DEF Leveled
  <2>3. e.sym \notin Ops
    BY <1>1 DEF Operand, Ops, Prec
  <2> HIDE DEF e, s
  <2> QED BY <2>2, <2>3, <1>3, <1>5 DEF MayFollow, s
<1>7. CASE e # Expression
  <2>1. Taken(3) = {}
    <3>1. Expressions(stack) \subseteq 1..l
      BY <1>2, OfItsElements DEF Leveled, Expressions
    <3>2. l - 1 \notin Expressions(stack)
      BY <1>4, <1>7 DEF Expressions
    <3>3. \A i \in 1..l : i > l - 3 => i = l \/ i = l - 1 \/ i = l - 2
      BY <1>2, <1>4
    <3> QED BY <3>1, <3>2, <3>3, <1>4 DEF Taken
  <2>2. 3 \in 0..Len(stack) /\ 3 > 0
    BY <1>2, <1>4
  <2> HIDE DEF e
  <2> QED BY <2>1, <2>2, <1>1, <1>6, <1>7, ReplaceStep
<1>8. CASE e = Expression
  <2>1. /\ l - 1 \in Expressions(stack) /\ Expressions(stack) \subseteq 1..l
    BY <1>2, <1>4, <1>8, OfItsElements DEF Leveled, Expressions
  <2>2. /\ a \in Holder /\ heap.ptr[a] # NoNode /\ b \in Holder /\ heap.ptr[b] = NoNode
    <3>1. l - 1 \in 1..l /\ l - 2 \in 1..l
      BY <1>2, <1>4
    <3> QED BY <3>1, <2>1, <1>1, <1>4, ExpressionsAreHeld
  <2>3. /\ a # b /\ Library \notin {a, b} /\ Local("$$") \notin {a, b}
        /\ Library \in Holder /\ Local("$$") \in Holder
    <3>1. \A i, j : Position(i) = Position(j) => i = j
      BY SlotsDiffer
    <3>2. l - 1 # l - 2
      BY <1>2
    <3> QED BY <3>1, <3>2, <1>4, SlotsDiffer
  <2>4. heap' = Move(heap, a, b)
    BY <1>1, <1>8
  <2>5. /\ Good(heap') /\ Acyclic(heap') /\ heap'.kind = heap.kind
        /\ heap'.ptr[a] = NoNode /\ heap'.ptr[b] = heap.ptr[a]
        /\ \A c \in Holder \ {a, b} : heap'.ptr[c] = heap.ptr[c]
    <3> HIDE DEF a, b
    <3> QED BY ONLY <2>2, <2>4, <1>2, MoveKeeps
  <2>6. /\ Leveled(stack') /\ Len(stack') = l - 2
        /\ Expressions(stack') = {i \in Expressions(stack) : i <= l - 3} \cup {l - 2}
    <3>1. Leveled(s) /\ MayFollow(e, s) /\ stack' = Append(s, e) /\ Len(s) = l - 3
      BY <1>1, <1>5, <1>6
    <3> HIDE DEF s
    <3>2. /\ Leveled(stack') /\ Len(stack') = Len(s) + 1
          /\ Expressions(stack') = Expressions(s) \cup (IF e = Expression THEN {Len(s) + 1} ELSE {})
      BY <3>1, GrownIsLeveled
    <3>3. Len(s) + 1 = l - 2
      BY <3>1, <1>2
    <3> QED BY <3>2, <3>3, <1>5, <1>8 DEF s
  <2>7. HeapIsKept'
    BY <2>3, <2>5 DEF IInv, HeapIsKept, Good, Sound
  <2>8. Symbols(stack') = (Symbols(stack) \ {a}) \cup {b}
    <3>1. \A i \in Expressions(stack) : i <= l - 3 <=> i # l - 1
      BY <2>1, <1>2, <1>4
    <3>2. \A i, j : Position(i) = Position(j) => i = j
      BY SlotsDiffer
    <3> HIDE DEF a, b
    <3>3. Symbols(stack) \ {a} = {Position(i) : i \in {j \in Expressions(stack) : j # l - 1}}
      BY <3>2, <1>4 DEF Symbols
    <3> QED BY <3>1, <3>3, <2>6, <1>4 DEF Symbols
  <2>9. HoldersAreKnown'
    <3>1. Held(heap') = (Held(heap) \ {a}) \cup {b}
      BY <2>2, <2>3, <2>5 DEF Held
    <3>2. Held(heap') \ {Local("$$")} = {} \cup Symbols(stack') \cup {Library}
      <4>1. Local("$$") \notin Symbols(stack) /\ Library # Local("$$")
        BY SlotsDiffer DEF Symbols
      <4> QED BY <4>1, <3>1, <2>3, <2>8, <1>2
    <3>3. drops' = <<>> /\ Len(<<>>) = 0 /\ 1..0 = {}
      BY <1>1, <1>2
    <3> QED BY <3>2, <3>3 DEF HoldersAreKnown, Held, Symbols
  <2>10. StackIsShort'
    <3>1. Len(text) \in Nat
      BY LenProperties DEF IInv, StackIsShort
    <3>2. l + 0 + (IF la \in {"none", "end"} THEN 0 ELSE 1) <= Len(text)
      BY <1>2 DEF IInv, StackIsShort
    <3>3. heap'.ptr[Local("$$")] = NoNode
      BY <2>3, <2>5, <1>2
    <3>4. Len(stack') + 0 + (IF la' \in {"none", "end"} THEN 0 ELSE 1) <= Len(text)
      BY <3>1, <3>2, <1>1, <1>2, <2>6
    <3> QED BY <3>3, <3>4, <1>1 DEF IInv, StackIsShort
  <2>11. PhasesEnd'
    BY <1>1, <1>2 DEF PhasesEnd
  <2> QED BY <2>6, <2>7, <2>9, <2>10, <2>11 DEF IInv
<1> QED BY <1>7, <1>8

---------------------------------------------------------------------------
(* The parser gives up *)

(* The number of expressions from each one to the top is its place from the top. *)
LEMMA PlacesFromTop ==
  ASSUME NEW s, Leveled(s)
  PROVE  LET E == Expressions(s)
             n == Cardinality(E)
             f == [j \in E |-> Cardinality(FromTop(s, j))]
         IN IsFiniteSet(E) /\ n \in Nat /\ f \in Bijection(E, 1..n)
<1> DEFINE E == Expressions(s)
           n == Cardinality(E)
           f == [j \in E |-> Cardinality(FromTop(s, j))]
<1>1. E \subseteq 1..Len(s) /\ Len(s) \in Nat
  BY OfItsElements DEF Leveled, Expressions
<1>2. IsFiniteSet(E) /\ n \in Nat
  <2>1. IsFiniteSet(1..Len(s))
    BY <1>1, FS_Interval
  <2> QED BY <2>1, <1>1, FS_Subset, FS_CardinalityType
<1>3. \A j \in E : /\ FromTop(s, j) \subseteq E /\ IsFiniteSet(FromTop(s, j)) /\ j \in FromTop(s, j)
                   /\ Cardinality(FromTop(s, j)) \in Nat /\ Cardinality(FromTop(s, j)) <= n
                   /\ Cardinality(FromTop(s, j)) # 0
  <2> SUFFICES ASSUME NEW j \in E
               PROVE  /\ FromTop(s, j) \subseteq E /\ IsFiniteSet(FromTop(s, j)) /\ j \in FromTop(s, j)
                      /\ Cardinality(FromTop(s, j)) \in Nat /\ Cardinality(FromTop(s, j)) <= n
                      /\ Cardinality(FromTop(s, j)) # 0
    OBVIOUS
  <2>1. FromTop(s, j) \in SUBSET E /\ j \in FromTop(s, j)
    BY <1>1 DEF FromTop
  <2>2. IsFiniteSet(FromTop(s, j)) /\ Cardinality(FromTop(s, j)) <= n
    BY <2>1, <1>2, FS_Subset
  <2> QED BY <2>1, <2>2, FS_CardinalityType, FS_EmptySet
<1>4. ASSUME NEW i \in E, NEW j \in E, i < j
      PROVE  Cardinality(FromTop(s, i)) # Cardinality(FromTop(s, j))
  <2>1. FromTop(s, j) \in SUBSET FromTop(s, i) /\ i \in FromTop(s, i) /\ i \notin FromTop(s, j)
    BY <1>1, <1>4 DEF FromTop
  <2> QED BY <2>1, <1>3, FS_Subset
<1>5. f \in [E -> 1..n]
  BY <1>2, <1>3
<1>6. f \in Injection(E, 1..n)
  <2>1. ASSUME NEW i \in E, NEW j \in E, f[i] = f[j] PROVE i = j
    <3>1. ~(i < j) /\ ~(j < i)
      BY <2>1, <1>4
    <3> QED BY <3>1, <1>1
  <2>2. IsInjective(f)
    BY <2>1 DEF IsInjective
  <2> HIDE DEF f
  <2> QED BY <2>2, <1>5 DEF Injection
<1>7. f \in Surjection(E, 1..n)
  <2>1. IsFiniteSet(1..n) /\ Cardinality(1..n) = n
    BY <1>2, FS_Interval
  <2> HIDE DEF f, E
  <2> QED BY <2>1, <1>6, FS_Injection DEF n
<1> QED BY <1>2, <1>6, <1>7 DEF Bijection

(* The slots that are popped are those of the expressions, each once. *)
LEMMA PoppedIs ==
  ASSUME NEW s, Leveled(s), \A i \in Expressions(s) : Position(i) \in Holder
  PROVE  /\ Popped(s) \in Seq(Holder) /\ Slots(Popped(s)) = Symbols(s)
         /\ \A i, j \in 1..Len(Popped(s)) : Popped(s)[i] = Popped(s)[j] => i = j
<1> DEFINE E == Expressions(s)
           n == Cardinality(E)
           f == [j \in E |-> Cardinality(FromTop(s, j))]
           g(i) == CHOOSE j \in E : Cardinality(FromTop(s, j)) = i
           p == Popped(s)
<1>1. n \in Nat /\ f \in Injection(E, 1..n) /\ f \in Surjection(E, 1..n)
  BY PlacesFromTop DEF Bijection
<1>2. /\ f \in [E -> 1..n] /\ \A i, j \in E : f[i] = f[j] => i = j
      /\ \A i \in 1..n : \E j \in E : f[j] = i
  <2> HIDE DEF f, E
  <2>1. f \in [E -> 1..n] /\ IsInjective(f)
    BY <1>1 DEF Injection
  <2>2. DOMAIN f = E
    BY <2>1
  <2> QED BY <2>1, <2>2, <1>1 DEF Surjection, IsInjective
<1>3. \A j \in E : f[j] = Cardinality(FromTop(s, j))
  OBVIOUS
<1> HIDE DEF f, E
<1>4. \A i \in 1..n : g(i) \in E /\ f[g(i)] = i
  BY <1>2, <1>3
<1>5. p = [i \in 1..n |-> Position(g(i))]
  BY DEF Popped, E
<1> HIDE DEF p, g
<1>6. p \in [1..n -> Holder] /\ \A i \in 1..n : p[i] = Position(g(i))
  BY <1>4, <1>5 DEF E
<1>7. p \in Seq(Holder) /\ Len(p) = n
  BY <1>1, <1>6, SeqDef, LenProperties
<1>8. Slots(p) = Symbols(s)
  <2>1. \A j \in E : f[j] \in 1..n /\ g(f[j]) = j
    BY <1>2, <1>4
  <2>2. Slots(p) \subseteq Symbols(s)
    BY <1>4, <1>6, <1>7 DEF Slots, Symbols, E
  <2>3. Symbols(s) \subseteq Slots(p)
    BY <2>1, <1>6, <1>7 DEF Slots, Symbols, E
  <2> QED BY <2>2, <2>3
<1>9. \A i, j \in 1..n : p[i] = p[j] => i = j
  <2>1. \A i, j : Position(i) = Position(j) => i = j
    BY SlotsDiffer
  <2> QED BY <2>1, <1>4, <1>6
<1> QED BY <1>7, <1>8, <1>9 DEF p

LEMMA SyntaxErrorStep == ASSUME IInv, SyntaxError PROVE IInv'
<1>1. /\ Pushed /\ drops' = Popped(stack) /\ stack' = <<>> /\ phase' = "ending"
      /\ UNCHANGED <<heap, la, text>>
  BY DEF SyntaxError, Reduces, Parsing
<1>2. Leveled(stack) /\ \A i \in Expressions(stack) : Position(i) \in Holder
  <2>1. Leveled(stack)
    BY <1>1, PushedFacts
  <2>2. Expressions(stack) \subseteq 1..Len(stack)
    BY <2>1, OfItsElements DEF Leveled, Expressions
  <2> QED BY <2>1, <2>2, <1>1, ExpressionsAreHeld
<1>3. /\ Popped(stack) \in Seq(Holder) /\ Slots(Popped(stack)) = Symbols(stack)
      /\ \A i, j \in 1..Len(Popped(stack)) : Popped(stack)[i] = Popped(stack)[j] => i = j
  BY ONLY <1>2, PoppedIs
<1> QED BY <1>1, <1>3, EmptyStep

LEMMA ExponentAbortsStep == ASSUME IInv, ExponentAborts PROVE IInv'
<1> DEFINE s == Below(5)
           q == Popped(s)
           r == <<SlotOf(4), SlotOf(2)>>
           released == r \o q
<1>1. /\ stack' = <<>> /\ phase' = "ending" /\ UNCHANGED <<heap, la, text>>
      /\ drops' = released
  BY DEF ExponentAborts
<1>2. /\ Pushed /\ 5 \in 1..Len(stack) /\ Taken(5) = {SlotOf(4), SlotOf(2)}
      /\ SlotOf(4) # SlotOf(2) /\ SlotOf(4) \in Holder /\ SlotOf(2) \in Holder
  <2>1. PICK f \in Functions2 : Exponent(f)
    BY DEF ExponentAborts
  <2> QED BY <2>1, ExponentFacts
<1>3. Leveled(stack) /\ Len(stack) \in Nat
  BY <1>2, PushedFacts
<1>4. Leveled(s) /\ Expressions(s) = {i \in Expressions(stack) : i <= Len(stack) - 5}
  <2>1. 5 \in 0..Len(stack)
    BY <1>2, <1>3
  <2> QED BY <2>1, <1>3, CutIsLeveled DEF Below
<1>5. Expressions(stack) \subseteq 1..Len(stack)
  BY <1>3, OfItsElements DEF Leveled, Expressions
<1>6. \A i \in Expressions(s) : Position(i) \in Holder
  BY <1>2, <1>4, <1>5, ExpressionsAreHeld
<1> HIDE DEF s
<1>7. /\ q \in Seq(Holder) /\ Slots(q) = Symbols(s)
      /\ \A i, j \in 1..Len(q) : q[i] = q[j] => i = j
  BY ONLY <1>4, <1>6, PoppedIs
<1>8. /\ r \in Seq(Holder) /\ Slots(r) = {SlotOf(4), SlotOf(2)}
      /\ \A i, j \in 1..Len(r) : r[i] = r[j] => i = j
  BY <1>2, TwoReleased
<1>9. Symbols(stack) = Symbols(s) \cup Taken(5) /\ Symbols(s) \cap Taken(5) = {}
  <2>1. \A i \in Expressions(stack) : i <= Len(stack) - 5 <=> ~(i > Len(stack) - 5)
    BY <1>3, <1>5
  <2>2. \A i, j : Position(i) = Position(j) => i = j
    BY SlotsDiffer
  <2> QED BY <2>1, <2>2, <1>4 DEF Symbols, Taken
<1> HIDE DEF q, r
<1>10. /\ released \in Seq(Holder) /\ Len(released) = Len(r) + Len(q)
       /\ Len(r) \in Nat /\ Len(q) \in Nat
       /\ \A i \in 1..Len(r) + Len(q) :
            released[i] = IF i <= Len(r) THEN r[i] ELSE q[i - Len(r)]
  BY <1>7, <1>8, ConcatProperties, LenProperties
<1> HIDE DEF released
<1>11. /\ \A i \in 1..Len(r) : i \in 1..Len(r) + Len(q) /\ released[i] = r[i]
       /\ \A i \in 1..Len(q) : /\ i + Len(r) \in 1..Len(r) + Len(q)
                               /\ released[i + Len(r)] = q[i]
       /\ \A i \in 1..Len(r) + Len(q) : i <= Len(r) => i \in 1..Len(r)
       /\ \A i \in 1..Len(r) + Len(q) : ~(i <= Len(r)) => i - Len(r) \in 1..Len(q)
  <2>1. \A i \in 1..Len(q) : /\ i + Len(r) \in 1..Len(r) + Len(q)
                             /\ ~(i + Len(r) <= Len(r)) /\ i + Len(r) - Len(r) = i
    BY <1>10
  <2> QED BY <2>1, <1>10
<1>12. Slots(released) = Symbols(stack)
  <2>1. Slots(released) \subseteq Slots(r) \cup Slots(q)
    BY <1>10, <1>11 DEF Slots
  <2>2. Slots(r) \cup Slots(q) \subseteq Slots(released)
    BY <1>10, <1>11 DEF Slots
  <2> QED BY <2>1, <2>2, <1>2, <1>7, <1>8, <1>9
<1>13. \A i, j \in 1..Len(released) : released[i] = released[j] => i = j
  <2> SUFFICES ASSUME NEW i \in 1..Len(r) + Len(q), NEW j \in 1..Len(r) + Len(q),
                      released[i] = released[j]
               PROVE  i = j
    BY <1>10
  <2>1. \A x \in 1..Len(r), y \in 1..Len(q) : r[x] # q[y]
    <3>1. Slots(r) \cap Slots(q) = {}
      BY <1>2, <1>7, <1>8, <1>9
    <3>2. /\ \A x \in 1..Len(r) : r[x] \in Slots(r)
          /\ \A y \in 1..Len(q) : q[y] \in Slots(q)
      BY DEF Slots
    <3> QED BY <3>1, <3>2
  <2>2. CASE i <= Len(r) /\ j <= Len(r)
    BY <2>2, <1>8, <1>10, <1>11
  <2>3. CASE i <= Len(r) /\ ~(j <= Len(r))
    BY <2>1, <2>3, <1>10, <1>11
  <2>4. CASE ~(i <= Len(r)) /\ j <= Len(r)
    BY <2>1, <2>4, <1>10, <1>11
  <2>5. CASE ~(i <= Len(r)) /\ ~(j <= Len(r))
    <3>1. i - Len(r) = j - Len(r)
      BY <2>5, <1>7, <1>10, <1>11
    <3> QED BY <3>1, <1>10
  <2> QED BY <2>2, <2>3, <2>4, <2>5
<1>14. phase' \in {"ending", "thrown"} /\ released \in Seq(Holder)
  BY <1>1, <1>10
<1> QED BY <1>1, <1>2, <1>12, <1>13, <1>14, EmptyStep

---------------------------------------------------------------------------
(* The rules of parsed_interval and of itv_expr_aux *)

(* The nodes that an action evaluates are those of its own expressions, which *)
(* it releases; no other expression is on the stack.                          *)
LEMMA EvaluatesKeeps ==
  ASSUME IInv, Pushed, NEW locals \in SUBSET {Local("el"), Local("er")},
         Good(heap'), Acyclic(heap'), heap'.kind = heap.kind,
         Held(heap') = {Library} \cup locals, heap'.ptr[Library] = heap.ptr[Library],
         drops' \in Seq(Holder), Slots(drops') = locals,
         \A i, j \in 1..Len(drops') : drops'[i] = drops'[j] => i = j,
         Leveled(stack'), Expressions(stack') = {}, Len(stack') <= Len(stack),
         phase' = "parsing" \/ (phase' = "thrown" /\ stack' = <<>>),
         UNCHANGED <<la, text>>
  PROVE  IInv'
<1>1. /\ phase = "parsing" /\ heap.ptr[Local("$$")] = NoNode /\ Len(stack) \in Nat
      /\ heap.ptr[Library] # NoNode /\ heap.kind[heap.ptr[Library]] = "null"
  BY PushedFacts
<1>2. /\ Local("$$") \notin {Library} \cup locals /\ Library \notin locals
      /\ Local("$$") \in Holder
  BY SlotsDiffer
<1>3. heap'.ptr[Local("$$")] = NoNode
  BY <1>2 DEF Held
<1>4. HeapIsKept'
  BY <1>1 DEF HeapIsKept, Good, Sound
<1>5. HoldersAreKnown'
  <2>1. Held(heap') \ {Local("$$")} = Slots(drops') \cup {} \cup {Library}
    BY <1>2
  <2>2. drops' \in Seq(Holder \ ({} \cup {Library, Local("$$")}))
    <3> DEFINE T == Holder \ ({} \cup {Library, Local("$$")})
    <3>1. \A i \in 1..Len(drops') : drops'[i] \in T
      <4> SUFFICES ASSUME NEW i \in 1..Len(drops') PROVE drops'[i] \in T
        OBVIOUS
      <4>1. drops'[i] \in Slots(drops') /\ drops'[i] \in Holder
        BY ElementOfSeq DEF Slots
      <4> QED BY <4>1, <1>2
    <3> HIDE DEF T
    <3>2. drops' \in Seq(T)
      BY ONLY <3>1, OfASet, drops' \in Seq(Holder)
    <3> QED BY <3>2 DEF T
  <2>3. {Position(i) : i \in Expressions(stack')} = {}
    OBVIOUS
  <2> QED BY <2>1, <2>2, <2>3 DEF HoldersAreKnown, Held, Slots
<1>6. StackIsShort'
  <2>1. Len(text) \in Nat
    BY LenProperties DEF IInv, StackIsShort
  <2>2. Len(stack) + 0 + (IF la \in {"none", "end"} THEN 0 ELSE 1) <= Len(text)
    BY <1>1 DEF IInv, StackIsShort
  <2>3. Len(stack') \in Nat
    BY OfItsElements DEF Leveled
  <2>4. Len(stack') + 0 + (IF la' \in {"none", "end"} THEN 0 ELSE 1) <= Len(text)
    BY <2>1, <2>2, <2>3, <1>1
  <2> QED BY <2>4, <1>3 DEF IInv, StackIsShort
<1>7. PhasesEnd'
  BY <1>3 DEF PhasesEnd
<1> QED BY <1>4, <1>5, <1>6, <1>7 DEF IInv

(* A rule of k symbols that evaluates its expressions *)
LEMMA EvaluatesStep ==
  ASSUME IInv, Pushed, NEW k \in 1..5, At(k).sym # "bottom",
         OnlyIntervals(k), NEW l \in 1..5, NEW r \in 1..5, At(l).sym = "expression", At(r).sym = "expression",
         {j \in 1..k : At(j) = Expression} = {l, r},
         NEW tag, Evaluates(k, tag, l, r)
  PROVE  IInv'
<1> DEFINE a == SlotOf(l)
           b == SlotOf(r)
           el == Local("el")
           er == Local("er")
           taken == Move(heap, a, el)
           released == IF l # r THEN <<er, el>> ELSE <<el>>
           locals == IF l # r THEN {er, el} ELSE {el}
<1>1. /\ heap' = (IF l # r THEN Move(taken, b, er) ELSE taken)
      /\ drops' = released
      /\ \/ stack' = Append(Below(k), Itv(result')) /\ UNCHANGED phase
         \/ stack' = <<>> /\ phase' = "thrown"
      /\ UNCHANGED <<la, text>>
  BY DEF Evaluates
<1>2. /\ phase = "parsing" /\ Good(heap) /\ Acyclic(heap) /\ Leveled(stack)
      /\ Held(heap) = Symbols(stack) \cup {Library} /\ Len(stack) \in Nat
  BY PushedFacts
<1>3. /\ k \in 1..Len(stack) /\ Symbols(stack) = Taken(k) /\ Expressions(Below(k)) = {}
      /\ \A v : MayFollow(Itv(v), Below(k)) /\ Itv(v) # Expression
      /\ Leveled(Below(k)) /\ Len(Below(k)) = Len(stack) - k
  BY IntervalRule
<1>4. Symbols(stack) = {a, b}
  <2>1. Taken(k) = {SlotOf(i) : i \in {j \in 1..k : At(j) = Expression}}
    BY <1>2, TakenIs
  <2> QED BY <2>1, <1>3
<1>5. /\ a \in Holder /\ heap.ptr[a] # NoNode /\ b \in Holder /\ heap.ptr[b] # NoNode
  BY OperandHeld
<1>6. l # r => a # b
  BY <1>2, SlotsDiffer DEF SlotOf
<1>7. /\ el \in Holder /\ er \in Holder /\ el # er /\ Library \in Holder
      /\ Library \notin {a, b, el, er} /\ el \notin {a, b} /\ er \notin {a, b}
      /\ heap.ptr[el] = NoNode /\ heap.ptr[er] = NoNode
  BY SlotsDiffer, ExpressionsAreHeld DEF SlotOf
<1> HIDE DEF a, b, el, er
<1>8. /\ Good(taken) /\ Acyclic(taken) /\ taken.kind = heap.kind
      /\ taken.ptr[a] = NoNode /\ taken.ptr[el] = heap.ptr[a]
      /\ \A c \in Holder \ {a, el} : taken.ptr[c] = heap.ptr[c]
  BY ONLY <1>2, <1>5, <1>7, MoveKeeps
<1> HIDE DEF taken
<1>9. /\ Good(heap') /\ Acyclic(heap') /\ heap'.kind = heap.kind
      /\ heap'.ptr[Library] = heap.ptr[Library]
      /\ Held(heap') = {Library} \cup locals
  <2>1. Held(heap) = {a, b, Library}
    BY <1>2, <1>4
  <2>2. CASE l = r
    <3>1. heap' = taken /\ locals = {el} /\ a = b
      BY <2>2, <1>1 DEF a, b
    <3>2. Held(taken) = {Library, el}
      BY <2>1, <3>1, <1>5, <1>7, <1>8 DEF Held
    <3> QED BY <3>1, <3>2, <1>7, <1>8
  <2>3. CASE l # r
    <3>1. heap' = Move(taken, b, er) /\ locals = {er, el} /\ a # b
      BY <2>3, <1>1, <1>6
    <3>2. taken.ptr[b] # NoNode /\ taken.ptr[er] = NoNode
      BY <3>1, <1>5, <1>7, <1>8
    <3>3. /\ Good(heap') /\ Acyclic(heap') /\ heap'.kind = taken.kind
          /\ heap'.ptr[b] = NoNode /\ heap'.ptr[er] = taken.ptr[b]
          /\ \A c \in Holder \ {b, er} : heap'.ptr[c] = taken.ptr[c]
      BY ONLY <3>1, <3>2, <1>5, <1>7, <1>8, MoveKeeps
    <3>4. Held(heap') = {Library, el, er}
      BY <2>1, <3>1, <3>2, <3>3, <1>5, <1>7, <1>8 DEF Held
    <3> QED BY <3>1, <3>3, <3>4, <1>7, <1>8
  <2> QED BY <2>2, <2>3
<1>10. /\ released \in Seq(Holder) /\ Slots(released) = locals
       /\ \A i, j \in 1..Len(released) : released[i] = released[j] => i = j
  <2>1. CASE l = r
    <3>1. released = <<el>> /\ locals = {el}
      BY <2>1
    <3> HIDE DEF released, locals
    <3> QED BY <3>1, <1>7, OneReleased
  <2>2. CASE l # r
    <3>1. released = <<er, el>> /\ locals = {er, el}
      BY <2>2
    <3> HIDE DEF released, locals
    <3> QED BY <3>1, <1>7, TwoReleased
  <2> QED BY <2>1, <2>2
<1>11. locals \in SUBSET {el, er}
  OBVIOUS
<1> HIDE DEF released, locals
<1>12. Leveled(stack') /\ Expressions(stack') = {} /\ Len(stack') <= Len(stack)
  <2>1. CASE stack' = Append(Below(k), Itv(result'))
    <3> DEFINE s == Below(k)
               e == Itv(result')
    <3>1. Leveled(s) /\ MayFollow(e, s) /\ Expressions(s) = {} /\ Len(s) = Len(stack) - k
          /\ stack' = Append(s, e) /\ e # Expression
      BY <2>1, <1>3
    <3> HIDE DEF s, e
    <3>2. /\ Leveled(stack') /\ Len(stack') = Len(s) + 1 /\ Len(s) \in Nat
          /\ Expressions(stack') = Expressions(s) \cup (IF e = Expression THEN {Len(s) + 1} ELSE {})
      BY <3>1, GrownIsLeveled
    <3> QED BY <3>1, <3>2, <1>2, <1>3
  <2>2. CASE stack' = <<>>
    <3>1. Len(<<>>) = 0 /\ 1..Len(<<>>) = {} /\ Expressions(<<>>) = {} /\ <<>> \in Seq(ToSet(<<>>))
      BY DEF Expressions
    <3> QED BY <3>1, <2>2, <1>2 DEF Leveled
  <2> QED BY <2>1, <2>2, <1>1
<1>13. phase' = "parsing" \/ (phase' = "thrown" /\ stack' = <<>>)
  BY <1>1, <1>2
<1> QED BY <1>1, <1>9, <1>10, <1>11, <1>12, <1>13, EvaluatesKeeps DEF el, er

(* The expression at the top, before which an interval may be *)
LEMMA BareExpressionStep == ASSUME IInv, BareExpression PROVE IInv'
<1>1. /\ Pushed /\ Evaluates(1, "bare", 1, 1)
      /\ At(1).sym = "expression" /\ At(2).lev = "i"
  BY DEF BareExpression, Reduces, Parsing, Rule, Tok, Symbol
<1>2. Leveled(stack) /\ Len(stack) \in Nat /\ 1 \in 1..Len(stack) /\ At(1).sym # "bottom"
  BY <1>1, PushedFacts, OperandHeld
<1>3. OnlyIntervals(1)
  <2>1. CASE Len(stack) = 1
    BY <2>1 DEF OnlyIntervals
  <2>2. CASE Len(stack) # 1
    <3>1. Len(stack) - 1 \in 1..Len(stack) /\ stack[Len(stack) - 1].lev = "i"
      <4> DEFINE n == Len(stack)
      <4>1. n \in Nat /\ n # 1 /\ 1 \in 1..n
        BY <2>2, <1>2
      <4> HIDE DEF n
      <4>2. 2 <= n /\ n + 1 - 2 = n - 1 /\ n - 1 \in 1..n
        BY <4>1
      <4> QED BY <4>2, <1>1 DEF At, n
    <3>2. \A j \in 1..(Len(stack) - 1) - 1 : stack[j].lev = "i"
      BY <3>1, <1>2 DEF Leveled
    <3>3. \A j \in 1..Len(stack) - 1 : j = Len(stack) - 1 \/ j \in 1..(Len(stack) - 1) - 1
      BY <1>2
    <3> QED BY <3>1, <3>2, <3>3 DEF OnlyIntervals
  <2> QED BY <2>1, <2>2
<1>4. {j \in 1..1 : At(j) = Expression} = {1, 1}
  BY <1>1, <1>2, ExpressionAt
<1> QED BY <1>1, <1>2, <1>3, <1>4, EvaluatesStep

(* A literal that no expression is part of *)
LEMMA ConstantStep ==
  ASSUME IInv, NEW symbols \in {<<"u">>, <<"[", "]">>, <<"[", "comma", "]">>}, NEW r,
         Constant(symbols, r)
  PROVE  IInv'
<1> DEFINE k == Len(symbols)
<1>1. /\ Pushed /\ TopIs(symbols) /\ stack' = Append(Below(k), Itv(r))
      /\ UNCHANGED <<heap, la, text, phase, drops>>
  BY DEF Constant, Ends, Parsing
<1>2. /\ k \in 1..3 /\ At(k).sym \in {"[", "u"}
      /\ \A j \in 1..k : At(j).sym # "expression"
  <2>1. CASE symbols = <<"u">>
    BY <2>1, <1>1, TopsAre
  <2>2. CASE symbols = <<"[", "]">>
    <3>1. k = 2 /\ At(2).sym = "[" /\ At(1).sym = "]"
      BY <2>2, <1>1, TopsAre
    <3> HIDE DEF k
    <3> QED BY <3>1
  <2>3. CASE symbols = <<"[", "comma", "]">>
    <3>1. k = 3 /\ At(3).sym = "[" /\ At(2).sym = "comma" /\ At(1).sym = "]"
      BY <2>3, <1>1, TopsAre
    <3> HIDE DEF k
    <3> QED BY <3>1
  <2> QED BY <2>1, <2>2, <2>3
<1> HIDE DEF k
<1>3. Leveled(stack) /\ k \in 1..5 /\ k \in 1..k /\ At(k).sym # "bottom"
  BY <1>1, <1>2, PushedFacts
<1>4. OnlyIntervals(k)
  BY <1>2, <1>3, IntervalIn
<1>5. Taken(k) = {}
  <2>1. {j \in 1..k : At(j) = Expression} = {}
    BY <1>2, NoExpression
  <2>2. Taken(k) = {SlotOf(i) : i \in {j \in 1..k : At(j) = Expression}}
    BY <1>3, TakenIs
  <2> QED BY <2>1, <2>2
<1>6. k \in 0..Len(stack) /\ k > 0 /\ MayFollow(Itv(r), Below(k)) /\ Itv(r) # Expression
  BY <1>1, <1>3, <1>4, IntervalRule
<1> QED BY <1>1, <1>5, <1>6, ReplaceStep

LEMMA LiteralStep == ASSUME IInv, Literal PROVE IInv'
<1> DEFINE E == "expression"
<1>1. CASE \/ Constant(<<"u">>, <<"u">>)
           \/ Constant(<<"[", "]">>, <<"[]">>)
           \/ Constant(<<"[", "comma", "]">>, <<"all">>)
  BY <1>1, ConstantStep
<1>2. ASSUME NEW k \in 1..5, NEW tag, NEW l \in 1..5, NEW r \in 1..5, Evaluates(k, tag, l, r),
             Parsing, At(k).sym \in {"[", "<"}, At(l).sym = E, At(r).sym = E,
             \A j \in 1..k \ {l, r} : At(j).sym # E, l <= k, r <= k
      PROVE  IInv'
  <2>1. Pushed /\ At(k).sym # "bottom" /\ k \in 1..k
    BY <1>2 DEF Parsing
  <2>2. Leveled(stack)
    BY <2>1, PushedFacts
  <2>3. OnlyIntervals(k)
    BY <2>1, <2>2, <1>2, IntervalIn
  <2>4. At(l) = Expression /\ At(r) = Expression
    BY <2>2, <1>2, ExpressionAt
  <2>5. {j \in 1..k : At(j) = Expression} = {l, r}
    BY <2>4, <1>2, NoExpression
  <2> QED BY <2>1, <2>3, <2>5, <1>2, EvaluatesStep
<1>3. CASE Ends(<<"[", E, "]">>) /\ Evaluates(3, "[e]", 2, 2)
  <2>1. Parsing /\ At(3).sym = "[" /\ At(2).sym = E /\ At(1).sym = "]"
    BY <1>3, TopsAre DEF Ends
  <2>2. \A j \in 1..3 \ {2, 2} : At(j).sym # E
    BY <2>1
  <2> QED BY <2>1, <2>2, <1>2, <1>3
<1>4. CASE Ends(<<"[", E, "comma", "]">>) /\ Evaluates(4, "from", 3, 3)
  <2>1. /\ Parsing /\ At(4).sym = "[" /\ At(3).sym = E /\ At(2).sym = "comma"
        /\ At(1).sym = "]"
    BY <1>4, TopsAre DEF Ends
  <2>2. \A j \in 1..4 \ {3, 3} : At(j).sym # E
    BY <2>1
  <2> QED BY <2>1, <2>2, <1>2, <1>4
<1>5. CASE Ends(<<"[", "comma", E, "]">>) /\ Evaluates(4, "to", 2, 2)
  <2>1. /\ Parsing /\ At(4).sym = "[" /\ At(3).sym = "comma" /\ At(2).sym = E
        /\ At(1).sym = "]"
    BY <1>5, TopsAre DEF Ends
  <2>2. \A j \in 1..4 \ {2, 2} : At(j).sym # E
    BY <2>1
  <2> QED BY <2>1, <2>2, <1>2, <1>5
<1>6. CASE Ends(<<"[", E, "comma", E, "]">>) /\ Evaluates(5, "between", 4, 2)
  <2>1. /\ Parsing /\ At(5).sym = "[" /\ At(4).sym = E /\ At(3).sym = "comma"
        /\ At(2).sym = E /\ At(1).sym = "]"
    BY <1>6, TopsAre DEF Ends
  <2>2. \A j \in 1..5 \ {4, 2} : At(j).sym # E
    BY <2>1
  <2> QED BY <2>1, <2>2, <1>2, <1>6
<1>7. CASE Ends(<<"<", E, "comma", E, ">">>) /\ Evaluates(5, "only", 4, 2)
  <2>1. /\ Parsing /\ At(5).sym = "<" /\ At(4).sym = E /\ At(3).sym = "comma"
        /\ At(2).sym = E /\ At(1).sym = ">"
    BY <1>7, TopsAre DEF Ends
  <2>2. \A j \in 1..5 \ {4, 2} : At(j).sym # E
    BY <2>1
  <2> QED BY <2>1, <2>2, <1>2, <1>7
<1> QED BY <1>1, <1>3, <1>4, <1>5, <1>6, <1>7 DEF Literal

(* Where an interval is read, no expression waits for a value. *)
LEMMA NoneWaits ==
  ASSUME IInv, Pushed, NEW m \in 1..5, At(m).sym = "itv_expr_aux",
         \A j \in 1..m : At(j).sym # "expression"
  PROVE  Symbols(stack) = {}
<1>1. Leveled(stack) /\ At(m).sym # "bottom" /\ m \in 1..m
  BY PushedFacts
<1>2. OnlyIntervals(m)
  BY <1>1, IntervalIn
<1>3. {j \in 1..m : At(j) = Expression} = {}
  BY NoExpression
<1>4. Taken(m) = {SlotOf(i) : i \in {j \in 1..m : At(j) = Expression}}
  BY <1>1, TakenIs
<1> QED BY <1>1, <1>2, <1>3, <1>4, IntervalRule

(* A rule of k symbols that are intervals and the tokens between them *)
LEMMA ReducesToStep ==
  ASSUME IInv, Pushed, NEW k \in 1..5, At(k).sym # "bottom",
         NEW m \in 1..k, At(m).sym = "itv_expr_aux", \A j \in 1..m : At(j).sym # "expression",
         NEW v, ReducesTo(k, v)
  PROVE  IInv'
<1>1. Leveled(stack) /\ m \in 1..5
  BY PushedFacts
<1>2. OnlyIntervals(k)
  BY <1>1, IntervalIn
<1>3. /\ k \in 1..Len(stack) /\ Symbols(stack) = Taken(k)
      /\ MayFollow(Itv(v), Below(k)) /\ Itv(v) # Expression
  BY <1>2, IntervalRule
<1>4. Taken(k) = {}
  BY <1>1, <1>3, NoneWaits
<1>5. k \in 0..Len(stack) /\ k > 0
  BY <1>3
<1>6. /\ stack' = Append(Below(k), Itv(v)) /\ UNCHANGED <<heap, text, phase, drops>>
      /\ UNCHANGED la
  BY DEF ReducesTo
<1> QED BY <1>3, <1>4, <1>5, <1>6, ReplaceStep

LEMMA ItvOperationStep == ASSUME IInv, ItvOperation PROVE IInv'
<1>1. CASE Reduces("itv op") /\ ReducesTo(3, <<Op[At(2).sym], At(3).val, At(1).val>>)
  <2>1. Pushed /\ At(1).sym = "itv_expr_aux" /\ At(2).sym \in Ops
    BY <1>1 DEF Reduces, Parsing, Rule, Binds
  <2>2. Leveled(stack) /\ At(2).sym # "bottom" /\ At(2).sym # "expression"
    BY <2>1, PushedFacts DEF Ops, Prec
  <2> DEFINE n == Len(stack)
  <2>3. n \in Nat /\ n + 1 - 2 \in 1..n /\ At(2) = stack[n + 1 - 2]
    BY <2>2, AtIs
  <2>4. n + 1 - 2 > 1
    BY <2>1, <2>2, <2>3 DEF Leveled
  <2>5. At(3).sym # "bottom"
    <3> HIDE DEF n
    <3>1. 3 <= n /\ n + 1 - 3 \in 1..n
      BY <2>3, <2>4
    <3>2. At(3) = stack[n + 1 - 3]
      BY <3>1 DEF At, n
    <3> QED BY <3>1, <3>2, <2>2 DEF Leveled, n
  <2>6. \A j \in 1..1 : At(j).sym # "expression"
    BY <2>1
  <2>7. 3 \in 1..5 /\ 1 \in 1..3
    OBVIOUS
  <2> DEFINE v == <<Op[At(2).sym], At(3).val, At(1).val>>
  <2>8. ReducesTo(3, v)
    BY <1>1
  <2> HIDE DEF v
  <2> QED BY ONLY <2>1, <2>5, <2>6, <2>7, <2>8, IInv, ReducesToStep
<1>2. CASE Reduces("- itv") /\ ReducesTo(2, <<"neg", At(1).val>>)
  <2>1. Pushed /\ At(1).sym = "itv_expr_aux" /\ At(2).sym = "neg"
    BY <1>2 DEF Reduces, Parsing, Rule
  <2>2. At(2).sym # "bottom" /\ \A j \in 1..1 : At(j).sym # "expression"
    BY <2>1
  <2>3. 2 \in 1..5 /\ 1 \in 1..2
    OBVIOUS
  <2> DEFINE v == <<"neg", At(1).val>>
  <2>4. ReducesTo(2, v)
    BY <1>2
  <2> HIDE DEF v
  <2> QED BY ONLY <2>1, <2>2, <2>3, <2>4, IInv, ReducesToStep
<1>3. CASE Ends(<<"cos(", "itv_expr_aux", ")">>) /\ ReducesTo(3, <<"cos", At(2).val>>)
  <2>1. /\ Pushed /\ At(3).sym = "cos(" /\ At(2).sym = "itv_expr_aux" /\ At(1).sym = ")"
    BY <1>3, TopsAre DEF Ends, Parsing
  <2>2. At(3).sym # "bottom" /\ \A j \in 1..2 : At(j).sym # "expression"
    BY <2>1
  <2> QED BY <2>1, <2>2, <1>3, ReducesToStep
<1> QED BY <1>1, <1>2, <1>3 DEF ItvOperation

(* No symbol to release *)
LEMMA NoneReleased ==
  /\ <<>> \in Seq(Holder) /\ Slots(<<>>) = {}
  /\ \A i, j \in 1..Len(<<>>) : <<>>[i] = <<>>[j] => i = j
BY DEF Slots

LEMMA ItvExponentStep == ASSUME IInv, NEW f \in Functions2, ItvExponent(f) PROVE IInv'
<1>1. /\ Pushed /\ At(5).sym = f /\ At(2).sym = "itv_expr_aux" /\ At(1).sym = ")"
  BY TopsAre DEF ItvExponent, Ends, Parsing
<1>2. At(5).sym # "bottom" /\ \A j \in 1..2 : At(j).sym # "expression"
  BY <1>1 DEF Functions2
<1>3. CASE ReducesTo(5, <<f, At(4).val, At(2).val>>)
  BY <1>1, <1>2, <1>3, ReducesToStep
<1>4. CASE stack' = <<>> /\ phase' = "thrown" /\ UNCHANGED <<heap, la, text, drops>>
  <2>1. Symbols(stack) = {}
    BY <1>1, <1>2, NoneWaits
  <2>2. drops' = <<>>
    BY <1>1, <1>4, PushedFacts
  <2> QED BY <2>1, <2>2, <1>1, <1>4, NoneReleased, EmptyStep
<1> QED BY <1>3, <1>4 DEF ItvExponent

LEMMA AcceptStep == ASSUME IInv, Accept PROVE IInv'
<1>1. /\ Pushed /\ stack' = <<>> /\ phase' = "ending" /\ UNCHANGED <<heap, la, text, drops>>
      /\ Rule = "accept"
  BY DEF Accept, Reduces, Parsing
<1>2. At(1).sym = "itv_expr_aux"
  <2>1. TopIs(<<"bottom", "itv_expr_aux">>)
    BY <1>1 DEF Rule
  <2> QED BY <2>1, TopsAre
<1>3. Symbols(stack) = {}
  <2>1. \A j \in 1..1 : At(j).sym # "expression"
    BY <1>2
  <2> QED BY <2>1, <1>1, <1>2, NoneWaits
<1>4. drops' = <<>>
  BY <1>1, PushedFacts
<1> QED BY <1>1, <1>3, <1>4, NoneReleased, EmptyStep

LEMMA FinishStep == ASSUME IInv, Return \/ Thrown PROVE IInv'
<1>1. /\ phase # "parsing" /\ ~Busy /\ phase' = "idle" /\ ~buffer' /\ ~kept' /\ la' = "none"
      /\ UNCHANGED <<heap, stack, text, drops>>
  BY DEF Return, Thrown, Finish
<1>2. stack = <<>> /\ heap.ptr[Local("$$")] = NoNode
  BY <1>1 DEF IInv, PhasesEnd
<1>3. HeapIsKept' /\ HoldersAreKnown' /\ Leveled(stack')
  BY <1>1 DEF IInv, HeapIsKept, HoldersAreKnown
<1>4. StackIsShort'
  BY <1>1, <1>2, LenProperties DEF IInv, StackIsShort
<1>5. PhasesEnd'
  BY <1>1, <1>2 DEF PhasesEnd, Busy
<1> QED BY <1>3, <1>4, <1>5 DEF IInv

---------------------------------------------------------------------------
(* The parser starts with the null node of the library. *)
LEMMA InitEstablishes == Init => IInv
<1> SUFFICES ASSUME Init PROVE IInv
  OBVIOUS
<1>1. /\ stack = <<>> /\ la = "none" /\ text = <<>> /\ phase = "idle" /\ drops = <<>>
      /\ kept = FALSE /\ buffer = FALSE
  BY DEF Init
<1>2. PICK n \in Fresh(EmptyHeap) :
        heap = inc_refcount(NewLeaf(EmptyHeap, n, "null"), Library, n)
  BY DEF Init
<1>3. /\ Library \in Holder /\ Local("$$") \in Holder /\ Local("$$") # Library
      /\ Holder \subseteq Slot
  BY SlotsDiffer DEF Slot
<1>4. /\ \A s \in Slot : EmptyHeap.ptr[s] = NoNode
      /\ EmptyHeap.dying = <<>>
  BY DEF EmptyHeap
<1>5. Acyclic(EmptyHeap)
  BY <1>4 DEF Acyclic, FreeNodes, EmptyHeap
<1>6. /\ Grows(EmptyHeap, heap, Library, n) /\ heap.kind = [EmptyHeap.kind EXCEPT ![n] = "null"]
  <2>1. n \in FreeNodes(EmptyHeap) /\ "null" \in Label /\ EmptyHeap.ptr[Library] = NoNode
    BY <1>3, <1>4, FreshIsFree, LabelsMade
  <2> QED BY ONLY <2>1, <1>2, <1>3, <1>5, EmptyHeapIsGood, LeafGrows
<1>7. n \in Node /\ heap.kind[n] = "null"
  <2>1. n \in Node
    BY FreshIsFree DEF FreeNodes
  <2> QED BY <2>1, <1>6 DEF EmptyHeap
<1>8. heap.ptr[Library] = n /\ \A a \in Holder \ {Library} : heap.ptr[a] = NoNode
  BY <1>3, <1>4, <1>6 DEF Grows
<1>9. HeapIsKept
  BY <1>6, <1>7, <1>8, NodesAssumption DEF HeapIsKept, Grows, Good, Sound
<1>10. Len(<<>>) = 0 /\ 1..0 = {} /\ Expressions(<<>>) = {} /\ <<>> \in Seq(ToSet(<<>>))
  BY DEF Expressions
<1>11. HoldersAreKnown
  <2>1. {s \in Holder : heap.ptr[s] # NoNode} = {Library}
    BY <1>3, <1>7, <1>8, NodesAssumption
  <2>2. /\ {drops[i] : i \in 1..Len(drops)} = {}
        /\ {Position(i) : i \in Expressions(stack)} = {}
    BY <1>1, <1>10
  <2> QED BY <2>1, <2>2, <1>1, <1>3, <1>10 DEF HoldersAreKnown
<1>12. Leveled(stack)
  BY <1>1, <1>10 DEF Leveled
<1>13. StackIsShort
  BY <1>1, <1>3, <1>8, <1>10, ParserTexts DEF StackIsShort
<1>14. PhasesEnd
  <2>1. heap.dying = <<>>
    BY <1>2, <1>4 DEF inc_refcount, NewLeaf
  <2> QED BY <2>1, <1>1, <1>3, <1>8 DEF PhasesEnd, Busy
<1> QED BY <1>9, <1>11, <1>12, <1>13, <1>14 DEF IInv

(* Each step of the parser keeps the inductive invariant. *)
LEMMA StepKeeps == IInv /\ [Next]_vars => IInv'
<1> SUFFICES ASSUME IInv, [Next]_vars PROVE IInv'
  OBVIOUS
<1>1. CASE UNCHANGED vars
  <2>1. UNCHANGED <<heap, stack, la, text, phase, drops, kept, buffer>>
    BY <1>1 DEF vars, globals
  <2>2. HeapIsKept'
    BY <2>1 DEF IInv, HeapIsKept
  <2>3. HoldersAreKnown' /\ Leveled(stack')
    BY <2>1 DEF IInv, HoldersAreKnown
  <2>4. StackIsShort' /\ PhasesEnd'
    BY <2>1 DEF IInv, StackIsShort, PhasesEnd, Busy
  <2> QED BY <2>2, <2>3, <2>4 DEF IInv
<1>2. CASE Start
  BY <1>2, StartStep
<1>3. CASE Read
  BY <1>3, ReadStep
<1>4. CASE Shift
  BY <1>4, ShiftStep
<1>5. CASE Release
  BY <1>5, ReleaseStep
<1>6. CASE Destruct
  BY <1>6, DestructStep
<1>7. CASE Push
  BY <1>7, PushStep
<1>8. CASE Number
  BY <1>8, NumberStep
<1>9. CASE BinaryExpression
  BY <1>9, BinaryExpressionStep
<1>10. CASE UnaryMinus
  BY <1>10, UnaryMinusStep
<1>11. CASE Cos
  BY <1>11, CosStep
<1>12. CASE Parentheses
  BY <1>12, ParenthesesStep
<1>13. CASE ExponentAborts
  BY <1>13, ExponentAbortsStep
<1>14. CASE \E f \in Functions2 : ExponentEvaluates(f) \/ ItvExponent(f)
  BY <1>14, ExponentEvaluatesStep, ItvExponentStep
<1>15. CASE BareExpression
  BY <1>15, BareExpressionStep
<1>16. CASE Literal
  BY <1>16, LiteralStep
<1>17. CASE ItvOperation
  BY <1>17, ItvOperationStep
<1>18. CASE Accept
  BY <1>18, AcceptStep
<1>19. CASE SyntaxError
  BY <1>19, SyntaxErrorStep
<1>20. CASE Return \/ Thrown
  BY <1>20, FinishStep
<1> QED BY <1>1, <1>2, <1>3, <1>4, <1>5, <1>6, <1>7, <1>8, <1>9, <1>10, <1>11, <1>12, <1>13,
           <1>14, <1>15, <1>16, <1>17, <1>18, <1>19, <1>20 DEF Next, Step

(* The inductive invariant of the parser, from which the theorems below follow. *)
THEOREM ParserKeepsItsInvariant == Spec => []IInv
<1>1. Init => IInv
  BY InitEstablishes
<1>2. IInv /\ [Next]_vars => IInv'
  BY StepKeeps
<1> QED BY <1>1, <1>2, PTL DEF Spec

(* The parser holds one counted reference to the node of each expression on   *)
(* its stack and to each node that an action has still to release; no node is *)
(* used after it was freed.                                                   *)
THEOREM ParserHoldsItsNodesAlways == Spec => []ParserHoldsItsNodes
<1>1. IInv => ParserHoldsItsNodes
  <2> SUFFICES ASSUME IInv PROVE ParserHoldsItsNodes
    OBVIOUS
  <2>1. DOMAIN stack = 1..Len(stack)
    BY OfItsElements DEF IInv, Leveled
  <2>2. Expressions(stack) = {j \in 1..Len(stack) : stack[j] = Expression}
    BY <2>1 DEF Expressions
  <2> QED BY <2>2 DEF IInv, HeapIsKept, HoldersAreKnown, ParserHoldsItsNodes
<1> QED BY <1>1, ParserKeepsItsInvariant, PTL

(* When parse_interval() returned, the one node in use is the null one, with  *)
(* one reference, and the lexer has no buffer.                                *)
THEOREM NothingIsLeftAlways == Spec => []NothingIsLeft
<1>1. IInv => NothingIsLeft
  <2> DEFINE null == heap.ptr[Library]
  <2> SUFFICES ASSUME IInv, phase = "idle"
               PROVE  /\ ~buffer /\ ~kept
                      /\ {n \in Node : heap.kind[n] # Free} = {null}
                      /\ heap.refs[null] = 1
    BY DEF NothingIsLeft
  <2>1. /\ ~buffer /\ ~kept /\ heap.dying = <<>> /\ drops = <<>> /\ stack = <<>>
        /\ heap.ptr[Local("$$")] = NoNode
    BY DEF IInv, PhasesEnd, Busy
  <2>2. /\ Good(heap) /\ Acyclic(heap) /\ null # NoNode /\ heap.kind[null] = "null"
    BY DEF IInv, HeapIsKept, Good, Sound
  <2>3. /\ Library \in Holder /\ Local("$$") \in Holder /\ Library # Local("$$")
    BY SlotsDiffer
  <2>4. \A a \in Holder \ {Library} : heap.ptr[a] = NoNode
    <3>1. /\ {drops[i] : i \in 1..Len(drops)} = {}
          /\ {Position(i) : i \in Expressions(stack)} = {}
      BY <2>1 DEF Expressions
    <3>2. {s \in Holder : heap.ptr[s] # NoNode} \ {Local("$$")} = {} \cup {} \cup {Library}
      BY <3>1 DEF IInv, HoldersAreKnown
    <3> QED BY <3>2, <2>1
  <2>5. {n \in Node : heap.kind[n] # Free} = {null} /\ heap.refs[null] = 1
    BY <2>1, <2>2, <2>3, <2>4, OnlyNullIsLeft
  <2> QED BY <2>1, <2>5
<1> QED BY <1>1, ParserKeepsItsInvariant, PTL

(* The exception that an action kept is thrown when the parse returns. *)
THEOREM KeptIsThrownAlways == Spec => KeptIsThrown
<1>1. IInv /\ [Next]_vars => [kept /\ ~kept' => outcome' = "thrown"]_vars
  <2> SUFFICES ASSUME IInv, Next PROVE kept /\ ~kept' => outcome' = "thrown"
    OBVIOUS
  <2>1. CASE Start
    BY <2>1 DEF Start, IInv, PhasesEnd
  <2>2. CASE Read \/ Shift \/ Release \/ Destruct \/ Push \/ Parentheses
    BY <2>2 DEF Read, Shift, Release, Destruct, Push, Parentheses, globals
  <2>3. CASE Number \/ BinaryExpression \/ UnaryMinus \/ Cos
    BY <2>3 DEF Number, BinaryExpression, UnaryMinus, Cos, Builds
  <2>4. CASE ExponentAborts
    BY <2>4 DEF ExponentAborts
  <2>5. CASE \E f \in Functions2 : ExponentEvaluates(f) \/ ItvExponent(f)
    BY <2>5 DEF ExponentEvaluates, Inverse1, Builds, ItvExponent, ReducesTo, globals
  <2>6. CASE BareExpression \/ Literal
    BY <2>6 DEF BareExpression, Literal, Constant, Evaluates
  <2>7. CASE ItvOperation
    BY <2>7 DEF ItvOperation, ReducesTo, globals
  <2>8. CASE Accept \/ SyntaxError
    BY <2>8 DEF Accept, SyntaxError
  <2>9. CASE Return \/ Thrown
    BY <2>9 DEF Return, Thrown, Finish
  <2> QED BY <2>1, <2>2, <2>3, <2>4, <2>5, <2>6, <2>7, <2>8, <2>9 DEF Next, Step
<1> QED BY <1>1, ParserKeepsItsInvariant, PTL DEF Spec, KeptIsThrown

(* The token read ahead, the flags and the outcome *)
Others ==
  /\ la \in Token \cup {"none", "end"}
  /\ flag \in BOOLEAN /\ kept \in BOOLEAN /\ buffer \in BOOLEAN /\ unread \in BOOLEAN
  /\ outcome \in {"none", "true", "false", "thrown"}

(* The variables have their types: the stack and the text are no longer than  *)
(* the longest text, and each slot to release holds a node.                   *)
THEOREM ParserTypes == Spec => []TypeOK
<1>1. Init => Others
  BY DEF Init, Others
<1>2. Others /\ [Next]_vars => Others'
  <2> SUFFICES ASSUME Others, [Next]_vars PROVE Others'
    OBVIOUS
  <2>1. CASE UNCHANGED vars
    BY <2>1 DEF Others, vars, globals
  <2>2. CASE Start
    BY <2>2 DEF Start, Others
  <2>3. CASE Read
    BY <2>3 DEF Read, Others, globals
  <2>4. CASE Shift \/ Release \/ Destruct \/ Push \/ Parentheses \/ ItvOperation
    BY <2>4 DEF Shift, Release, Destruct, Push, Parentheses, ItvOperation, ReducesTo, Others, globals
  <2>5. CASE Number \/ BinaryExpression \/ UnaryMinus \/ Cos
    BY <2>5 DEF Number, BinaryExpression, UnaryMinus, Cos, Builds, Others
  <2>6. CASE ExponentAborts
    BY <2>6 DEF ExponentAborts, Others
  <2>7. CASE \E f \in Functions2 : ExponentEvaluates(f) \/ ItvExponent(f)
    <3>1. ASSUME NEW f \in Functions2, ExponentEvaluates(f) PROVE Others'
      <4>1. flag' \in BOOLEAN
        BY <3>1 DEF ExponentEvaluates
      <4>2. UNCHANGED <<la, kept, buffer, unread, outcome>>
        BY <3>1 DEF ExponentEvaluates, Inverse1, Builds
      <4> QED BY <4>1, <4>2 DEF Others
    <3>2. ASSUME NEW f \in Functions2, ItvExponent(f) PROVE Others'
      BY <3>2 DEF ItvExponent, ReducesTo, Others, globals
    <3> QED BY <2>7, <3>1, <3>2
  <2>8. CASE BareExpression \/ Literal
    <3>1. ASSUME NEW k, NEW tag, NEW l, NEW r, Evaluates(k, tag, l, r) PROVE Others'
      BY <3>1 DEF Evaluates, Others
    <3>2. ASSUME NEW symbols, NEW r, Constant(symbols, r) PROVE Others'
      BY <3>2 DEF Constant, Others
    <3> QED BY <2>8, <3>1, <3>2 DEF BareExpression, Literal
  <2>9. CASE Accept \/ SyntaxError
    BY <2>9 DEF Accept, SyntaxError, Others
  <2>10. CASE Return \/ Thrown
    BY <2>10 DEF Return, Thrown, Finish, Others
  <2> QED BY <2>1, <2>2, <2>3, <2>4, <2>5, <2>6, <2>7, <2>8, <2>9, <2>10 DEF Next, Step
<1>3. IInv /\ Others => TypeOK
  <2> SUFFICES ASSUME IInv, Others PROVE TypeOK
    OBVIOUS
  <2>1. Len(stack) <= MaxTokens
    <3>1. Len(stack) \in Nat /\ Len(text) \in Nat /\ MaxTokens \in Nat
      BY OfItsElements, LenProperties, ParserTexts DEF IInv, Leveled, StackIsShort
    <3> DEFINE value == IF heap.ptr[Local("$$")] # NoNode THEN 1 ELSE 0
               ahead == IF la \in {"none", "end"} THEN 0 ELSE 1
    <3>2. Len(stack) + value + ahead <= Len(text) /\ Len(text) <= MaxTokens
      BY DEF IInv, StackIsShort
    <3>3. value \in {0, 1} /\ ahead \in {0, 1}
      OBVIOUS
    <3> HIDE DEF value, ahead
    <3> QED BY <3>1, <3>2, <3>3
  <2>2. \A i \in 1..Len(drops) : drops[i] \in Holder /\ heap.ptr[drops[i]] # NoNode
    BY DEF IInv, HoldersAreKnown
  <2> QED BY <2>1, <2>2 DEF IInv, HeapIsKept, StackIsShort, PhasesEnd, Others, TypeOK
<1> QED BY <1>1, <1>2, <1>3, ParserKeepsItsInvariant, PTL DEF Spec
=============================================================================
