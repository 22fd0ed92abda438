------------------------------- MODULE Parser -------------------------------
(***************************************************************************)
(* parse_interval(): the parser that Bison makes of the grammar, the nodes *)
(* it counts and releases, the flag of the parse and the exception kept.   *)
(* A token stands for those the parser treats alike: n for a number, pi... *)
(* u for a number with an uncertainty and for "empty"; - and * for the     *)
(* operators of each precedence; cos( for the functions of one argument,   *)
(* with their parenthesis. What the visitors make of the nodes is given:   *)
(* MCParser gives it with ExprEval.                                        *)
(***************************************************************************)
EXTENDS ExprNodes, SequencesExt

CONSTANTS Texts,       \* kinds of texts: the tokens they have, and a bound on their length
          Throwing,    \* functions whose evaluation throws
          MaxDepth,    \* YYMAXDEPTH
          EvalExpr(_, _),           \* of a heap and a node: a value, or NoValue
          EvalLeftRight(_, _, _),   \* of a heap and two nodes: their values, or NoValue
          Includes(_, _, _)         \* a node of a heap, or one below it, has the label

Token == UNION {k.tokens : k \in Texts}
MaxTokens == Max({k.length : k \in Texts})
IsRead(s) == \E k \in Texts : Len(s) <= k.length /\ ToSet(s) \subseteq k.tokens

(* The slots: the_null_expr, the stack, and the variables of the actions *)
Library == <<0, "the_null_expr">>
Position(i) == <<i, "stack">>
Local(x) == <<0, x>>
ParserHolder == {Library} \cup {Position(i) : i \in 1..MaxTokens}
                \cup {Local(x) : x \in {"$$", "one", "e", "el", "er"}}

ASSUME ParserHolders == Holder = ParserHolder
ASSUME ParserLabels == /\ {"neg", "cos", "nth_root", "pow_n"} \subseteq Unary
                       /\ {"sub", "mul", "div", "pow"} \subseteq Binary
                       /\ "n" \in Leaf /\ Throwing \subseteq Unary
ASSUME ParserBounds == /\ MaxDepth \in Nat /\ \A k \in Texts : k.length \in Nat
                       /\ Cardinality(Node) > MaxTokens
ASSUME ParserTexts == /\ MaxTokens \in Nat /\ \A k \in Texts : k.length <= MaxTokens
                      /\ {"none", "end"} \cap Token = {}

VARIABLES heap,     \* the nodes; the slot of a position is the value of its symbol
          stack,    \* the symbols of the parser
          la,       \* the token read ahead, "none" when there is not one
          text,     \* the tokens read
          phase,    \* "idle", "parsing", "ending" or "thrown"
          drops,    \* slots the action in progress has still to release
          flag,     \* gaol_global_parsing_flag
          result,   \* *gaol_result_of_parsing
          kept,     \* an exception is in gaol_parsing_exception
          buffer,   \* the lexer has a buffer
          outcome,  \* what parse_interval() returned, or "thrown"
          unread    \* a literal of the text could not be evaluated
globals == <<flag, result, kept, buffer>>
vars == <<heap, stack, la, text, phase, drops, globals, outcome, unread>>

---------------------------------------------------------------------------
(* The symbols of the stack. The level of one says what may follow it: an   *)
(* expression ("e"), or an expression as well as an interval ("i").         *)
Symbol(s, l, v) == [sym |-> s, lev |-> l, val |-> v]
Tok(t, l) == Symbol(t, l, Unset)
Expression == Tok("expression", "e")
Itv(v) == Symbol("itv_expr_aux", "i", v)
Bottom == Tok("bottom", "i")

At(i) == IF i <= Len(stack) THEN stack[Len(stack) + 1 - i] ELSE Bottom   \* 1 is the top
SlotOf(i) == Position(Len(stack) + 1 - i)
NodeOf(i) == heap.ptr[SlotOf(i)]
Below(i) == SubSeq(stack, 1, Len(stack) - i)
TopIs(symbols) == [i \in DOMAIN symbols |-> At(Len(symbols) + 1 - i).sym] = symbols

Prec == [t \in {"-", "*"} |-> IF t = "*" THEN 2 ELSE 1]
Ops == DOMAIN Prec
Op == [t \in Ops |-> IF t = "*" THEN "mul" ELSE "sub"]
Functions1 == {"cos("}
Functions2 == {"pow(", "nth_root("}
Operand == {"expression", "itv_expr_aux"}
Complete == At(1).sym \in {"n", "u", ")", "]", ">"}   \* the top ends a rule

(* What the tables let the parser shift, after an operand or not *)
CanBegin(t) ==
  LET top == At(1) IN
  \/ t \in {"n", "-", "("} \cup Functions1 \cup Functions2
  \/ top.lev = "i" /\ t \in {"u", "[", "<"}
  \/ top.sym = "[" /\ t \in {"]", "comma"}
  \/ t = "]" /\ (TopIs(<<"[", "comma">>) \/ TopIs(<<"[", "expression", "comma">>))

CanFollow(t) ==
  LET prev == At(2)
      second == prev.sym = "comma" /\ prev.lev = At(1).lev /\ At(3).sym \in Operand
  IN \/ t \in Ops
     \/ t = ")" /\ prev.sym \in {"("} \cup Functions1
     \/ t = ")" /\ second /\ At(4).sym \in Functions2
     \/ t = "comma" /\ prev.sym \in {"[", "<"} \cup Functions2
     \/ t = "]" /\ prev.sym = "["
     \/ t = "]" /\ prev.sym = "comma" /\ "[" \in {At(3).sym, At(4).sym}
     \/ t = ">" /\ second /\ At(4).sym = "<"

CanShift(t) == IF At(1).sym \in Operand THEN CanFollow(t) ELSE CanBegin(t)

(* Mutant: operators of the same precedence associate to the right *)
BindsMore(op) == op \in Ops /\ (la \in Ops => Prec[la] < Prec[op])

(* The operator before the operand binds at least as tightly as the token read *)
Binds(op) == op \in Ops /\ (la \in Ops => Prec[la] <= Prec[op])

(* The rule the tables reduce by. A conflict between it and a shift that no  *)
(* precedence resolves is a shift: an expression without brackets goes on as *)
(* far as it can. One between two rules is for the first of the file: after  *)
(* a sign where an interval may be, the operand is an interval at once.      *)
Rule ==
  LET top == At(1).sym
      prev == At(2)
  IN CASE top = "expression" /\ At(3).sym = "expression" /\ Binds(prev.sym) -> "expression op"
       [] top = "expression" /\ prev = Tok("neg", "e") -> "- expression"
       [] top = "expression" /\ prev = Tok("neg", "i") -> "bare"
       [] top = "expression" /\ prev.lev = "i" /\ ~CanShift(la) -> "bare"
       [] top = "itv_expr_aux" /\ Binds(prev.sym) -> "itv op"
       [] top = "itv_expr_aux" /\ prev.sym = "neg" -> "- itv"
       [] TopIs(<<"bottom", "itv_expr_aux">>) /\ la = "end" -> "accept"
       [] OTHER -> IF CanShift(la) THEN "shift" ELSE "error"

---------------------------------------------------------------------------
(* The releases of an action, each with the destructors it starts, come      *)
(* before the next step; the node it built is then the value of its symbol.  *)
Busy == heap.dying # <<>> \/ drops # <<>>
Pushed == phase = "parsing" /\ ~Busy /\ heap.ptr[Local("$$")] = NoNode
Full == MaxDepth - 1 <= Len(stack)
Parsing == Pushed /\ ~Full
Reduces(rule) == Parsing /\ ~Complete /\ la # "none" /\ Rule = rule
Ends(symbols) == Parsing /\ TopIs(symbols)

(* The address operator new gives, when there is memory: no step depends on   *)
(* which, and one is enough                                                   *)
Fresh(h) == IF FreeNodes(h) = {} THEN {} ELSE {CHOOSE n \in FreeNodes(h) : TRUE}

Init ==
  /\ \E n \in Fresh(EmptyHeap) :
       heap = inc_refcount(NewLeaf(EmptyHeap, n, "null"), Library, n)
  /\ stack = <<>> /\ la = "none" /\ text = <<>> /\ phase = "idle" /\ drops = <<>>
  /\ flag = FALSE /\ result = Unset /\ kept = FALSE /\ buffer = FALSE
  /\ outcome = "none" /\ unread = FALSE

(* parse_interval() begins: the exception kept, gaol_initialize_parsing() *)
Start ==
  /\ phase = "idle" /\ phase' = "parsing"
  /\ stack' = <<>> /\ la' = "none" /\ text' = <<>>
  /\ kept' = FALSE /\ flag' = FALSE /\ result' = Unset /\ buffer' = TRUE
  /\ outcome' = "none" /\ unread' = FALSE
  /\ UNCHANGED <<heap, drops>>

(* gaol_lex() *)
Read ==
  /\ Parsing /\ ~Complete /\ la = "none"
  /\ \/ la' = "end" /\ UNCHANGED text
     \/ \E t \in Token : la' = t /\ text' = Append(text, t) /\ IsRead(text')
  /\ UNCHANGED <<heap, stack, phase, drops, globals, outcome, unread>>

Shift ==
  /\ Reduces("shift")
  /\ LET sign == la = "-" /\ At(1).sym \notin Operand
         lev == IF la \in {"[", "<"} THEN "e" ELSE At(1).lev
     IN stack' = Append(stack, Tok(IF sign THEN "neg" ELSE la, lev))
  /\ la' = "none"
  /\ UNCHANGED <<heap, text, phase, drops, globals, outcome, unread>>

(* gaol_release() *)
Release ==
  /\ heap.dying = <<>> /\ drops # <<>>
  /\ heap' = dec_refcount(heap, Head(drops)) /\ drops' = Tail(drops)
  /\ UNCHANGED <<stack, la, text, phase, globals, outcome, unread>>
Destruct ==
  /\ heap.dying # <<>>
  /\ heap' = Destructor(heap)
  /\ UNCHANGED <<stack, la, text, phase, drops, globals, outcome, unread>>
Push ==
  /\ ~Busy /\ heap.ptr[Local("$$")] # NoNode
  /\ stack' = Append(stack, Expression)
  /\ heap' = Move(heap, Local("$$"), Position(Len(stack) + 1))
  /\ UNCHANGED <<la, text, phase, drops, globals, outcome, unread>>

---------------------------------------------------------------------------
(* The rules of expression and function_call *)

(* A rule of k symbols whose value is node n of heap h *)
Builds(k, h, n, released) ==
  /\ heap' = inc_refcount(h, Local("$$"), n)
  /\ stack' = Below(k) /\ drops' = released
  /\ UNCHANGED <<la, text, phase, result, kept, buffer, outcome, unread>>

Number ==
  /\ Ends(<<"n">>)
  /\ \E n \in Fresh(heap) : Builds(1, NewLeaf(heap, n, "n"), n, <<>>)
  /\ UNCHANGED flag

UnaryMinus ==
  /\ Reduces("- expression")
  /\ \E n \in Fresh(heap) :
       Builds(2, NewUnary(heap, n, "neg", NodeOf(1)), n, <<SlotOf(1)>>)
  /\ UNCHANGED flag

BinaryExpression ==
  /\ Reduces("expression op")
  /\ \E n \in Fresh(heap) :
       Builds(3, NewBinary(heap, n, Op[At(2).sym], NodeOf(3), NodeOf(1)), n,
              <<SlotOf(3), SlotOf(1)>>)
  /\ UNCHANGED flag

(* Mutant: the reference of the parser kept *)
CosKept ==
  /\ Ends(<<"cos(", "expression", ")">>)
  /\ \E n \in Fresh(heap) : Builds(3, NewUnary(heap, n, "cos", NodeOf(2)), n, <<>>)
  /\ UNCHANGED flag
Cos ==
  /\ Ends(<<"cos(", "expression", ")">>)
  /\ \E n \in Fresh(heap) :
       Builds(3, NewUnary(heap, n, "cos", NodeOf(2)), n, <<SlotOf(2)>>)
  /\ UNCHANGED flag

Parentheses ==
  /\ \E o \in Operand : Ends(<<"(", o, ")">>)
  /\ stack' = Append(Below(3), At(2))
  /\ heap' = IF At(2) = Expression THEN Move(heap, SlotOf(2), SlotOf(3)) ELSE heap
  /\ UNCHANGED <<la, text, phase, drops, globals, outcome, unread>>

(* The slots the parser releases when it gives up, from the top of its stack: *)
(* the i-th has i expressions from it to the top                              *)
Expressions(symbols) == {j \in DOMAIN symbols : symbols[j] = Expression}
FromTop(symbols, j) == {k \in Expressions(symbols) : k >= j}
Popped(symbols) ==
  [i \in 1..Cardinality(Expressions(symbols)) |->
     Position(CHOOSE j \in Expressions(symbols) : Cardinality(FromTop(symbols, j)) = i)]

(* pow(x, y) and nth_root(x, y) of expressions: the exponent is evaluated at *)
(* once, and what it evaluates to left open                                  *)
Exponent(function) == Ends(<<function, "expression", "comma", "expression", ")">>)

Throws(n) == \E t \in Throwing : Includes(heap, n, t)

ExponentAborts ==
  /\ \E f \in Functions2 : Exponent(f)
  /\ Throws(NodeOf(2))
  /\ kept' = TRUE /\ flag' = FALSE
  /\ drops' = <<SlotOf(4), SlotOf(2)>> \o Popped(Below(5))
  /\ stack' = <<>> /\ phase' = "ending"
  /\ UNCHANGED <<heap, la, text, result, buffer, outcome, unread>>

(* x^(-a) is 1/(x^a) *)
Inverse1(x) ==
  \E n1 \in Fresh(heap) :
    LET one == inc_refcount(NewLeaf(heap, n1, "n"), Local("one"), n1) IN
    \E n2 \in Fresh(one) :
      LET e == inc_refcount(NewUnary(one, n2, "pow_n", x), Local("e"), n2) IN
      \E n3 \in Fresh(e) :
        Builds(5, NewBinary(e, n3, "div", n1, n2), n3,
               <<Local("one"), Local("e"), SlotOf(4), SlotOf(2)>>)

ExponentEvaluates(function) ==
  /\ Exponent(function) /\ ~Throws(NodeOf(2))
  /\ LET x == NodeOf(4)
         value == EvalExpr(heap, NodeOf(2))
         Becomes(h, m) == Builds(5, h, m, <<SlotOf(4), SlotOf(2)>>)
     IN /\ flag' = (value # NoValue)
        /\ \/ /\ value = NoValue \/ function = "nth_root("   \* or not an integer
              /\ Becomes(heap, heap.ptr[Library])
           \/ /\ value # NoValue /\ function = "nth_root("
              /\ \E n \in Fresh(heap) : Becomes(NewUnary(heap, n, "nth_root", x), n)
           \/ /\ value # NoValue /\ function = "pow("
              /\ \/ \E n \in Fresh(heap) :
                      \/ Becomes(NewBinary(heap, n, "pow", x, NodeOf(2)), n)
                      \/ Becomes(NewUnary(heap, n, "pow_n", x), n)   \* an integer above 0
                      \/ Becomes(NewLeaf(heap, n, "n"), n)           \* 0
                 \/ Inverse1(x)                                     \* below 0

---------------------------------------------------------------------------
(* The rules of parsed_interval *)

(* A rule of k symbols that reads r without an evaluation *)
Constant(symbols, r) ==
  /\ Ends(symbols)
  /\ result' = r /\ flag' = TRUE
  /\ stack' = Append(Below(Len(symbols)), Itv(r))
  /\ UNCHANGED <<heap, la, text, phase, drops, kept, buffer, outcome, unread>>

(* A rule of k symbols that evaluates the node of symbol l, or those of l and *)
(* r, in expressions el and er of the action. A bound left out is put into    *)
(* the result even when there is no value.                                    *)
Evaluates(k, tag, l, r) ==
  LET two == l # r
      taken == Move(heap, SlotOf(l), Local("el"))
      value == IF two THEN EvalLeftRight(heap, NodeOf(l), NodeOf(r))
                      ELSE EvalExpr(heap, NodeOf(l))
      throws == \/ Throws(NodeOf(l))
                \/ two /\ ~Includes(heap, NodeOf(l), "null") /\ Throws(NodeOf(r))
  IN /\ heap' = IF two THEN Move(taken, SlotOf(r), Local("er")) ELSE taken
     /\ drops' = IF two THEN <<Local("er"), Local("el")>> ELSE <<Local("el")>>
     /\ \/ throws /\ UNCHANGED <<flag, result, unread>>
        \/ /\ ~throws
           /\ flag' = (value # NoValue)
           /\ result' = CASE value # NoValue -> <<tag, value>>
                          [] value = NoValue /\ tag \in {"from", "to"} -> <<tag, result>>
                          [] OTHER -> result
           /\ unread' = (unread \/ value = NoValue)
     /\ \/ ~throws /\ stack' = Append(Below(k), Itv(result')) /\ UNCHANGED phase
        \/ /\ throws \/ tag = "only"   \* or its two bounds differ
           /\ stack' = <<>> /\ phase' = "thrown"
     /\ UNCHANGED <<la, text, kept, buffer, outcome>>

BareExpression == Reduces("bare") /\ Evaluates(1, "bare", 1, 1)

Literal ==
  \/ Constant(<<"u">>, <<"u">>)
  \/ Constant(<<"[", "]">>, <<"[]">>)
  \/ Constant(<<"[", "comma", "]">>, <<"all">>)
  \/ Ends(<<"[", "expression", "]">>) /\ Evaluates(3, "[e]", 2, 2)
  \/ Ends(<<"[", "expression", "comma", "]">>) /\ Evaluates(4, "from", 3, 3)
  \/ Ends(<<"[", "comma", "expression", "]">>) /\ Evaluates(4, "to", 2, 2)
  \/ Ends(<<"[", "expression", "comma", "expression", "]">>) /\ Evaluates(5, "between", 4, 2)
  \/ Ends(<<"<", "expression", "comma", "expression", ">">>) /\ Evaluates(5, "only", 4, 2)

(* The rules of itv_expr_aux and itv_function_call *)
ReducesTo(k, v) ==
  /\ stack' = Append(Below(k), Itv(v))
  /\ UNCHANGED <<heap, la, text, phase, drops, globals, outcome, unread>>

ItvOperation ==
  \/ Reduces("itv op") /\ ReducesTo(3, <<Op[At(2).sym], At(3).val, At(1).val>>)
  \/ Reduces("- itv") /\ ReducesTo(2, <<"neg", At(1).val>>)
  \/ Ends(<<"cos(", "itv_expr_aux", ")">>) /\ ReducesTo(3, <<"cos", At(2).val>>)

ItvExponent(function) ==
  /\ Ends(<<function, "itv_expr_aux", "comma", "itv_expr_aux", ")">>)
  /\ \/ ReducesTo(5, <<function, At(4).val, At(2).val>>)
     \/ /\ function = "nth_root("   \* not an integer
        /\ stack' = <<>> /\ phase' = "thrown"
        /\ UNCHANGED <<heap, la, text, drops, globals, outcome, unread>>

---------------------------------------------------------------------------
Accept ==
  /\ Reduces("accept")
  /\ result' = At(1).val
  /\ stack' = <<>> /\ phase' = "ending"
  /\ UNCHANGED <<heap, la, text, drops, flag, kept, buffer, outcome, unread>>

(* Mutant: the token is put back, and the parse goes on *)
SyntaxErrorRetried ==
  LET full == Pushed /\ Full IN
  /\ Reduces("error") \/ full
  /\ flag' = FALSE
  /\ la' = IF full THEN la ELSE "none"
  /\ text' = IF full \/ la = "end" THEN text ELSE Front(text)
  /\ drops' = IF full THEN Popped(stack) ELSE drops
  /\ stack' = IF full THEN <<>> ELSE stack
  /\ phase' = IF full THEN "ending" ELSE phase
  /\ UNCHANGED <<heap, result, kept, buffer, outcome, unread>>

(* gaol_error_bison(), then the symbols that remain are discarded: no rule    *)
(* recovers from an error, and the stack has a limit                          *)
SyntaxError ==
  /\ Reduces("error") \/ (Pushed /\ Full)
  /\ flag' = FALSE
  /\ drops' = Popped(stack)
  /\ stack' = <<>> /\ phase' = "ending"
  /\ UNCHANGED <<heap, la, text, result, kept, buffer, outcome, unread>>

(* parse_interval() after gaol_parse(), which returned or was left by an exception *)
Finish(o) ==
  /\ ~Busy /\ phase' = "idle" /\ outcome' = o
  /\ buffer' = FALSE /\ kept' = FALSE /\ la' = "none"
  /\ UNCHANGED <<heap, stack, text, drops, flag, result, unread>>
(* Mutant: the exception kept is not thrown again *)
ReturnSilently == phase = "ending" /\ Finish(IF flag THEN "true" ELSE "false")
Return == phase = "ending" /\ Finish(IF kept THEN "thrown" ELSE IF flag THEN "true" ELSE "false")
(* Mutant: the end of the parse is not run when it is left by an exception *)
ThrownUnterminated ==
  /\ phase = "thrown" /\ ~Busy /\ phase' = "idle" /\ outcome' = "thrown" /\ la' = "none"
  /\ UNCHANGED <<heap, stack, text, drops, globals, unread>>
Thrown == phase = "thrown" /\ Finish("thrown")

Step ==
  \/ Read \/ Shift \/ Release \/ Destruct \/ Push
  \/ Number \/ BinaryExpression \/ UnaryMinus \/ Cos \/ Parentheses \/ ExponentAborts
  \/ \E f \in Functions2 : ExponentEvaluates(f) \/ ItvExponent(f)
  \/ BareExpression \/ Literal \/ ItvOperation
  \/ Accept \/ SyntaxError \/ Return \/ Thrown
Next == Start \/ Step

Spec == Init /\ [][Next]_vars
(* A parse that began goes on: its text is finite and nothing blocks it *)
FairSpec == Spec /\ WF_vars(Step)

(* FairSpec, as TLC checks it: Step is enabled until the parse has ended,     *)
(* since TLC finds no deadlock                                               *)
FairRun == Spec /\ ([]<>(phase = "idle" /\ ~Busy) \/ []<><<Step>>_vars)

---------------------------------------------------------------------------
TypeOK ==
  /\ heap \in Heap
  /\ Len(stack) <= MaxTokens /\ Len(text) <= MaxTokens
  /\ la \in Token \cup {"none", "end"}
  /\ phase \in {"idle", "parsing", "ending", "thrown"}
  /\ \A i \in 1..Len(drops) : drops[i] \in Holder /\ heap.ptr[drops[i]] # NoNode
  /\ {flag, kept, buffer, unread} \subseteq BOOLEAN
  /\ outcome \in {"none", "true", "false", "thrown"}

(* The parser holds one counted reference to the node of each expression on  *)
(* its stack, and to each node an action in progress has still to release    *)
(* (the comment of gaol_release()): a node is never used after it was freed.  *)
ParserHoldsItsNodes ==
  LET pending == {drops[i] : i \in 1..Len(drops)}
      symbols == {Position(i) : i \in {j \in 1..Len(stack) : stack[j] = Expression}}
  IN /\ Counted(heap) /\ Backed(heap) /\ Destroyed(heap)
     /\ {s \in Holder : heap.ptr[s] # NoNode} \ {Local("$$")} = pending \cup symbols \cup {Library}

(* Why they hold: the inductive invariant, a conjunction of parts. The heap   *)
(* is what the counts are for, and the library holds a null node.             *)
HeapIsKept == /\ heap \in Heap /\ Counted(heap) /\ Backed(heap) /\ Destroyed(heap)
              /\ Bare(heap) /\ Acyclic(heap)
              /\ heap.ptr[Library] # NoNode /\ heap.kind[heap.ptr[Library]] = "null"

(* The slots to release are different ones, and none is still on the stack. *)
HoldersAreKnown ==
  LET pending == {drops[i] : i \in 1..Len(drops)}
      symbols == {Position(i) : i \in Expressions(stack)}
  IN /\ {s \in Holder : heap.ptr[s] # NoNode} \ {Local("$$")} = pending \cup symbols \cup {Library}
     /\ drops \in Seq(Holder \ (symbols \cup {Library, Local("$$")}))
     /\ \A i, j \in 1..Len(drops) : drops[i] = drops[j] => i = j

(* Below a symbol where an interval may be, or a bracket, there is no expression; *)
(* an operator has its left operand below it.                                    *)
Leveled(symbols) ==
  /\ symbols \in Seq(ToSet(symbols))
  /\ \A i \in 1..Len(symbols) :
       /\ symbols[i].sym # "bottom"
       /\ symbols[i].sym = "expression" => symbols[i] = Expression
       /\ symbols[i].sym \in {"u", "itv_expr_aux"} => symbols[i].lev = "i"
       /\ symbols[i].sym \in Ops => i > 1
       /\ symbols[i].lev = "i" \/ symbols[i].sym \in {"[", "<"}
            => \A j \in 1..i - 1 : symbols[j].lev = "i"

(* A symbol, the value of a reduction and the token read ahead stand each for *)
(* a token of the text at least.                                              *)
StackIsShort ==
  /\ text \in Seq(Token) /\ Len(text) <= MaxTokens
  /\ Len(stack) + (IF heap.ptr[Local("$$")] # NoNode THEN 1 ELSE 0)
                + (IF la \in {"none", "end"} THEN 0 ELSE 1) <= Len(text)

PhasesEnd ==
  /\ phase \in {"idle", "parsing", "ending", "thrown"}
  /\ phase # "parsing" => stack = <<>> /\ heap.ptr[Local("$$")] = NoNode
  /\ phase = "idle" => ~Busy /\ ~buffer /\ ~kept

IInv == HeapIsKept /\ HoldersAreKnown /\ Leveled(stack) /\ StackIsShort /\ PhasesEnd

(* parse_interval() leaves nothing behind, whatever the text and wherever it  *)
(* stopped: read, refused, aborted by the exponent of a function or left by   *)
(* an exception that the actions do not catch.                                *)
NothingIsLeft ==
  phase = "idle" =>
    /\ ~buffer /\ ~kept
    /\ {n \in Node : heap.kind[n] # Free} = {heap.ptr[Library]}
    /\ heap.refs[heap.ptr[Library]] = 1

(* An exception kept by an action is thrown by the parse that kept it, and    *)
(* by no later one.                                                           *)
KeptIsThrown == [][kept /\ ~kept' => outcome' = "thrown"]_vars

(* parse_interval() returns *)
ParseEnds == phase = "parsing" ~> phase = "idle"
=============================================================================
