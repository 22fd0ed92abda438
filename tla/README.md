# Verification of GAOL

TLA+ models of [GAOL](../src/README.md), a C++ library of interval arithmetic,
with TLC runs on small instances and TLAPS proofs.  Paths are relative to the
root of the repository (`src/` here); the library itself is `src/gaol/`.

## The system

GAOL computes with intervals of doubles.  An interval stores the opposite of
its left bound and its right bound, so that both are rounded outward by
computing with the rounding direction upward.  The parts:

| Part | State | Operations | How it interacts |
|---|---|---|---|
| Rounding direction (`gaol_fpu.h`, `gaol_fpu_fenv.h`) | x87 control word, MXCSR; the direction a frame saved | `GAOL_RND_ENTER/LEAVE`, `_SSE`, `PRESERVE/RESTORE`, `NEAREST_ENTER/LEAVE`, `KEEP` | every other part computes within its frames; the calling code sets the direction as it pleases; the compiler moves computations across changes of direction |
| Interval arithmetic, SSE2 and not (`gaol_interval_sse.*`, `gaol_interval_fpu.*`) | two stored bounds | constructors, `+= -= *= /= %= &= \|=`, with an interval or a double, `inverse`, `sqr`, `mid`, `div_rel` | relies on the representation earlier operations left: NaN bounds of the empty set, signs of zero bounds |
| Relations and functions of bounds (`gaol_interval.h`, `gaol_interval.cpp`) | none | certain, possible and set relations, `midpoint`, `mid_rad`, `split`, `mig`, `mag`, `abs`, `min`, `max`, `invabs_rel`, `hausdorff` | read the bounds |
| Elementary functions (`gaol_interval.cpp`) | none | `exp` … `atan2`, `pow`, `nth_root`, their reverses | nearest frames around the mathematical library; the trigonometric ones divide intervals by pi |
| Functions of one bound (`gaol_double_op_*.h`, `gaol_interval.cpp`) | none | `exp_dn`, `exp_up` … with each mathematical library; the search of a proved root | the bounds of the elementary functions |
| Intervals of floats (`gaol_intervalf.*`, `gaol_interval2f.*`) | two floats, or four in one register | the operators, powers, relations of `intervalf` and of pairs of them | built on demand, share nothing but the direction |
| Reading and writing (`gaol_interval_lexer.lpp`, `gaol_interval_parser.ypp`, `gaol_parser.cpp`) | the globals of a parse, format and precision | `parse_interval`, `operator<<` | build expressions, evaluate them, set directions |
| Expressions (`gaol_expression.*`, `gaol_expr_eval.h`) | nodes with reference counts | handles: copy, assign, compose, destroy; visitors | shared nodes; `the_null_expr` created by `init()` |
| Initialization (`gaol_init_cleanup.cpp`, `gaol_common.cpp`) | two flags, `the_null_expr` | `init`, `cleanup` | order of static constructors |
| Profiling (`gaol_profile.*`) | counters, timers | reset, report | off by default |

What is hard: the direction is global state in two registers, changed at many
levels of nesting and by every return of an operation, while the compiler does
not model it; the values are those of IEEE 754 at its edges (signed zeros,
subnormals, overflow, infinities, NaN) that decide which case of an operation
runs; expressions and parses have exceptional exits, and counts kept by hand.
The hazards are listed in `PROJECT.json`, each at its line.

## Modules

| Module | Models |
|---|---|
| `Rounding` | the registers and the macros; an operation is a straight-line path of instructions; the compiler delays local results (`ComputeLater`) until `rnd_keep()`, a branch that needs them, or the return |
| `GaolRounding` | the paths of the operations of the library, transcribed one by one from the source |
| `RoundingContract` | the abstract specification: an operation is one step which leaves the direction as found, or upward, and rounds nothing the wrong way |
| `RoundingOutline` | a proof outline (Floyd) of the paths, as a parameter, with its local verification conditions, and the inductive invariant |
| `MCRounding`, `MCRoundingOutline` | instances for TLC: the paths of GAOL, and the outline computed from them |
| `Doubles` | doubles rounded upward, in an IEEE 754 format as small as one likes |
| `IntervalBounds`, `IntervalOps` | the representation of `interval`; its operators, of both builds (`Sse`) |
| `IntervalRelations`, `IntervalFunctions` | the relations; the functions of the bounds |
| `IntervalReference` | the definition of the operations on reals: the hull of the results on representative reals |
| `IntervalMachine` | a program that applies any sequence of operations to two intervals, and the properties |
| `FloatIntervals`, `FloatPairs` | `intervalf`; `interval2f`, two intervals in the four lanes of a register |
| `FloatMachine` | a program that applies operations to two `intervalf`, each also in a pair with a companion |
| `MCInterval` | the instance for TLC: a program has intervals of doubles or of floats |
| `RootSearch`, `BinaryPowers` | the search of a proved bound of a root; the powers it compares with |
| `MathLibraries`, `LibraryCalls` | the bounds made of what the three mathematical libraries return; the calls, with their directions |
| `MCOneBound` | the instance for TLC: a bound comes from a search or from a library |
| `MathValues` | functions that stand for the elementary ones of the reals |
| `ElementaryBounds`, `Elementary`, `Trigonometry` | the bounds at a double; the elementary functions of intervals; the trigonometric ones with their argument reduction, and the reverses |
| `ElementaryReference`, `ElementaryMachine` | what they promise; a program that calls one |
| `MCElementary` | the instance for TLC |
| `ExprNodes` | the nodes of expressions, their counts and their destructors, as operators on a heap |
| `ExprGraph` | a program that creates, copies, clones, combines, assigns and destroys objects of class `expression`, from `init()` to `cleanup()`, with the properties and the inductive invariant |
| `ExprValues` | the abstract specification: an object of class `expression` is a value |
| `ExprEval` | the visitor that evaluates an expression, its stack, and what an expression denotes |
| `MCExprGraph` | the instance for TLC, with the refinement of `ExprValues` and the evaluation |
| `Parser` | `parse_interval()`: the parser of Bison, over `ExprNodes`, with its inductive invariant |
| `MCParser` | the instance for TLC, and the meaning of a text by precedence |
| `RoundingProof`, `DoublesProof`, `IntervalProof`, `HullProof`, `OneBoundProof`, `HeapProof`, `ExprProof`, `ParserProof` | the theorems and their lemmas |

`Rounding`, `IntervalMachine`, `FloatMachine`, `RootSearch`, `LibraryCalls`,
`ElementaryMachine`, `ExprGraph` and `Parser` are the state machines.
`Parser` and `ExprGraph` are two users of the same `ExprNodes`: the first holds
nodes in the slots of its stack, the second in objects.  `MCInterval` and
`MCOneBound` are unions of two machines that share a format and some variables:
a behaviour is of one kind, chosen in its initial state, and the other machine's
variables do not move.

### How the rounding model corresponds to the code

`regs` is the pair of control registers; `saved` the local variables
`_save_state...` of the frames; `found` what the caller had; `pending` the
results written in the source and not computed yet, each the set of directions
in which it would be right; `results` those computed, with the direction at
that time.  An instruction is a macro: `RegsAfter` and `SavedAfter` give its
effect in each of the two builds (`Preserve` is `GAOL_PRESERVE_ROUNDING`).
`"local"` is a computation into a local variable, which GCC may move down to
where it is needed (gaol_fpu.h:72-80); `"now"` one into an object or through a
call, which stays in place; `"use"` a branch on the results so far.
`CallerSets` is the calling code, between operations, setting either register
to anything.

A comparison whose operands are rounded (`r - l < pi_dn`) is a result that is
right in the directions in which the comparison tells the truth (`told`):
all of them for the comparisons of the code, rounding being monotonic.  This is
why the widths compared in `tan()`, `cos()` and `sin()`, that are not kept
before a change of direction, do no harm.

### How the interval model corresponds to the code

A double is a sign and a magnitude, a multiple of the least double above 0; the
operations of the processor round upward as IEEE 754 says, with signed zeros,
overflow, infinities and one NaN.  The operators are those of the code, case by
case.  `same` says that the operand of an assignment is `*this`, which matters
without SSE2, where the first bound is written before the second is computed.
The products and quotients by class of operands are common to both builds
except where noted by `Sse`; `Difference` and `QuotientOneSide` take the order
of the writes from `gaol_interval_fpu.cpp`.

A program works on its interval `x`, with `y` or itself as the operand, and
`Exchange` has it work on the other one.  `Construct` is taken before any
operation on the object: every pair of intervals is reached nevertheless, since
each of the two may be constructed.  What is said of one interval alone
is looked at where the other one is `universe` (`Alone`), for the same reason.

The reference does not look at the code: it takes reals of the operands (their
finite bounds, one beyond all doubles when unbounded, ones next to 0), applies
the operation of the reals, and rounds the extreme results outward.  The
operations are monotonic in each operand on each side of 0, so that these reals
give the extreme results.  It is what `doc/accuracy.md` calls tightest.

### How the models of floats correspond

`intervalf` compares no bounds and tests for the empty set where shown only.
A pair is four lanes.  The generated product of pairs (`operator*=` of
`interval2f`, 256 cases by the signs of the bounds) is the operator that each case
applies to the two lanes of an interval, chosen by the sign bits of that
interval's bounds: `gaol_generator_mul_i2f.py` writes the cases from the two
halves, and the property is that a pair gives what its intervals give.

### How the models of one bound and of elementary functions correspond

`proved_root_dn()` and `proved_root_up()` are mirror images: `l` and `h` are the
ends of the search, one of which is proved (`Proved`), `step` doubles from one
`Rise` or `Fall` to the next, and `Bisect` ends when there is no double between.
The first estimate is any double, not the library's: nothing is assumed of it.
The powers are parameters, given by `BinaryPowers` in the run.

A library is what it returns of an exact value: the rounding to nearest with
mathlib, that of the direction with CRlibm, to nearest or two doubles around for the functions it has
not, and any of the doubles within one of the value with the libm of the system.
The functions of one bound move this double outward as the source does.  The
bounds of the libm are checked to enclose the value, and not to be near it:
`round_down()` and `round_up()` scale what they move, by factors whose distance in
doubles depends on the format (`BoundsAreNear` excludes it).

The elementary functions are not computable with integers.  `MathValues` puts in
their place functions that have what GAOL relies on and tests: signs, monotonic
pieces, poles, limits, period, inverses, exact values at 0 and 1, and elsewhere
fractions, with which a bound is compared exactly.  Its assumption lists what is relied on, and TLC evaluates it: no double but 0 is a
multiple of pi/2, sines and cosines of doubles do not hide next to 0, and sinh
and tanh are beyond the thresholds of the source.

### How the expression model corresponds to the code

A heap is a record: `kind[n]` is the class of node `n`, or `Free`; `refs[n]` its
`refcount`; `ptr[s]` the node a slot refers to, a slot being the `root` of an
object, a member of a node (`<<n, "left">>`, also `e_uminus` and its like) or
the library's `the_null_expr`.  `dying` is the stack of the destructors in
progress: `dec_refcount` of a last reference puts the node on it, and
`Destructor` makes one step of the innermost one, so that the states in the
middle of a cascade of destructors are seen.  An operation of the program waits
until the cascade ends (one thread).  `operator=` is one action: count the new
root, release the old one, set the member; the cascade it starts comes after,
which no destructor can tell.  `cleanup` deletes the null node without a look
at its count, as the code does, which has no test of the expressions alive either:
that the program destroyed them before is an assumption on the caller.
`Cloned` shares the members of the node it copies, as `clone()` does.

The three compound assignments are in `CompoundSpec` only: they break the
counts (`expr_compound`), and the library uses none of them itself.
`operator/=` is declared and never defined.

The value of a node is a term, `<<"sub", l, r>>`, so that the order of the
operands and the sharing of nodes can be told apart.  `NewVisitor`, `push` and
`pop` are `eval_stack`, whose `pop()` of an empty stack returns the cell 0.

### How the parser model corresponds to the code

`stack` holds the symbols Bison shifts, each with the level of the grammar that
the state of the tables stands for: after `itv_expr` an interval or an
expression may come, within brackets or after an operand without brackets only
an expression.  `CanShift` says what the tables shift, `Rule` what they reduce
by, the conflicts included: on a shift/reduce conflict that no precedence
resolves, Bison shifts; on a reduce/reduce one, the first rule of the file
wins, which is `parsed_interval: expression`.  The model was compared with a
build of the library on all the texts of up to six or seven tokens over two
alphabets (127 000 texts): it accepts the same ones, with the same values.

The node of an expression symbol is in the slot of its position of the stack,
those of local variables of an action in slots of their own.  An action builds
its node (`$$`), and what it has to release goes to `drops`; `Release` and
`Destruct` run before the parser's next step.  `SyntaxError` stands for
`yyerrlab`, `yyexhaustedlab` and `yyreturn`, which pop the symbols and run the
`%destructor`; `ExponentAborts` for the `YYABORT` of an exponent whose
evaluation throws; phase `thrown` for an exception that leaves `yyparse()`, whose
stack is abandoned.  What an exponent evaluates to, and whether the bounds of
`<a, b>` differ, is left open.  The evaluation itself is a parameter
(`EvalExpr`, `EvalLeftRight`, `Includes`), which `MCParser` gives from
`ExprEval`: what is proved of the parser holds for any evaluation.  `text` and `unread` only record what happened.

A token stands for its class: `n` for numbers and the constants read as one
node, `-` for `+` and `-`, `*` for `*` and `/`, `cos(` for the functions of one
argument with their parenthesis, `pow(` and `nth_root(`, `u` for the literals
of one token.  `atan2(` of two expressions is a binary node like the others and
has no token.  No function throws in its evaluation at present; the code
provides for one (`gaol_evaluate_exponent`), and `Throwing` names it.

## Runs

| Run | Shows |
|---|---|
| `rounding_preserved` | with `GAOL_PRESERVE_ROUNDING`, every bound computed in a right direction, both registers restored, the proof outline and its inductive invariant, and the refinement of the contract |
| `rounding_upward` | the bounds of the default build, where operations leave the direction upward |
| `rounding_thrown` | *violation*: `operator<<` left by an exception of the stream does not restore the direction; in the default build it stays to nearest |
| `interval` | all pairs of intervals, with SSE2 and without it on distinct operands, after any sequence of operations: representation, hulls of sums, products, quotients and squares, operations with doubles, reverses and `div_rel`, relations, midpoint, radius and the other functions of the bounds.  Intervals of floats and their pairs: sums, products and quotients keep every result, powers keep every power, and a pair is its two intervals |
| `interval_fpu_difference` | *violation*: `x -= x` without SSE2 |
| `one_bound` | the search of a root keeps a proved and an unproved double around the bound, returns the one next to the other, tight to a double, and ends before its limit of steps, for any estimate; the bounds made of each library's result enclose the value and are near it; the direction is left as promised |
| `elementary` | the elementary functions enclose the values and are near them, the trigonometric ones keep every extremum and pole, the integer parts that the argument reduction relies on are exact, and the reverses keep every solution |
| `elementary_pieces` | *violation*: `acos_rel()` on an interval that ends next to a multiple of pi misses a solution |
| `expr_graph` | no node is freed in use, lost or deleted twice; the null node is deleted last; objects are values (refinement of `ExprValues`); the evaluation is that of the expression and uses one cell of its stack |
| `expr_compound` | *violation*: after `a += b`, a copy of `a` destroyed frees the root of `a` |
| `parser` | four kinds of texts.  All the forms of intervals (`Literals`), functions of expressions and of intervals (`Functions`), powers nested in products (`Powers`): the parser holds one reference to each of its nodes, and leaves no node, buffer or exception behind, whether it accepts, refuses, throws, is aborted by an exponent or has no room left; the exception of an exponent is thrown by the parse that kept it.  Operators and brackets (`Arithmetic`): the value is that of the precedence and associativity of the operators, at whichever level of the grammar they are read, when an expression of several operands has brackets or is the whole text.  Every parse returns or throws, with its releases and the destructors they start |
| `parser_unread` | *violation*: `-nth_root(2,1.5)-3` is accepted, as [-inf, inf] |

Other disagreements of the code with its documents show in the models, and have
no run of their own:

- without SSE2, `x /= x` divides by the bound already written, as `x -= x` does
  (`QuotientsAreHulls` fails as `SumsAreHulls` does, with `Aliased`), and the
  result of `x -= x` may even have its bounds in the wrong order ([-5, -5]);
- `interval("3", "2")` is not compared (gaol_interval.cpp:533): it is empty for
  `is_empty()` and not for `+`, where doc/tests.md:27 has it empty;
- `certainly_neq()` is `!certainly_eq()`, and so true of intervals that share
  reals, against manual/gaol.tex:1226 (`RelationsAre` says what does hold);
- `hausdorff()` is infinite for two intervals unbounded on the same side, whose
  distance is finite (manual/gaol.tex:1974; `FunctionsAreHulls` is of the bounded
  ones);
- `[1]-1-1` is `[1]-(1-1)` and `[1]-[1]-[1]` is not: without brackets, the numbers
  after an operator are taken together first, where manual/gaol.tex:2313 has
  `n` and `[n]` equivalent (the condition of `PrecedenceIsKept`);
- with `GAOL_PRESERVE_ROUNDING`, the last product of `ipow_up()` and `ipow_dn()`
  is only used after `GAOL_RND_LEAVE()` and is not kept, against gaol_fpu.h:76.
  `GaolPaths` has these paths in the default build only;
- `asin_rel()` has the defect of `acos_rel()`, which the compiled library shows:
  `acos_rel([1, 1], [-7, -4.9e-324])` is empty, and with -1e-300 it is around
  -2pi; so is a left bound next to a multiple of pi (-273197923545502 pi);
- of the intervals of floats: the constructor of a text stores its left bound
  without negating it, nor rounding it outward; no constructor compares bounds;
  `x -= x` reads the bound it wrote; `set_strictly_contains()` of unbounded ones is
  not that of `interval`; `sqrt()` returns its argument; the product of
  a pair with an empty interval is not empty; `interval2f::inverse()` aborts, and
  with it every power whose exponent is negative.

Bounds.  The rounding runs have no bound but the paths: loops in the source run
no macro, except where noted in `GaolRounding`, so that paths are finite, and
the caller acts any number of times.

The interval runs use the magnitudes 0, 1, 2, 3, 4, 6 with 1.0 = 2: two bits of
significand, a subnormal, three exponents, and the largest significand odd as
in IEEE 754.  With them sums, products and quotients overflow, underflow, are
exact and inexact, and round to even either way; 0.5 is a double.  105
representations of intervals, and all 11025 pairs of them, are reached: every
case of the division by the class of both operands occurs many times.  A format
with only 0, 1, 2, 3 is too small: there a half underflows where a sum
overflows, and `mid()` is not tightest, which cannot happen with doubles.  `Fine`
and `Beyond` give the samples next to 0 and beyond all doubles, with the sizes
that `FineAssumption` asks for.  The powers of floats have the exponents 0, 2, 3,
4, 5: both parities, and a power of two and not one.

`one_bound` has a format of three bits with subnormals, from 1/16 to 7, all its
doubles as arguments and as estimates, roots of degrees 3 and 4, and for the
libraries all the values of the format, three between each two, four beyond it
on each side, and both limits.  `elementary` has five bits, 1.0 = 256 units and pi at 808.5 of
them: the doubles near the greatest are far apart compared with pi, as those
beyond 2^52 are, and near 0 they are fine.  Its arguments have their bounds at
0, next to it, at 1 and around the multiples of pi/2, up to the greatest double.
Its library is mathlib, the default, whose accuracy `doc/accuracy.md` states: with
`Library = "crlibm"` the bounds of `atan2()` are up to three doubles further out, and
`RangesAreNear` does not hold of them.  The bounds that CRlibm's results give are
checked one by one, in `one_bound`, and the functions of intervals made of them are not.

The expression runs have three objects and four nodes, the null one among them:
enough for an expression of two operators, or two expressions that share one
operand, one of them assigned or destroyed while the other is used.  The counts
are modulo 16 there, which nothing reaches: that they do not wrap is the
assumption `CountsAssumption`, less than 2^32 references.  The graph is the same
under a permutation of the nodes, hence the symmetry.

The parser runs bound the length of the texts of each kind, and nothing else:
there are more nodes than tokens.  `MaxDepth` is YYMAXDEPTH: 10 leaves room for
an exception thrown with nodes below it on the stack, which takes the nine
tokens of `n*pow(n,cos(n))`, and is reached with nodes on the stack by
`n*cos(n*cos(n*cos(`.  `Arithmetic` has seven tokens, enough for three operators
between intervals (`u-u*u-u`), and for one level of brackets at either side.

Fairness is assumed of what the processor does once it began: of `Step`, a call
of `parse_interval()` that goes on, destructors included, and of `Search`, the
search of a root.  Each is a single thread of straight code, that nothing can
block and that takes its next step whenever it has one.  No call of the program
is assumed to happen.  The runs state it as `[]<>(~busy) \/ []<><<Step>>_vars`
(`FairRun`), which is `WF_vars(Step)` written out, `Step` being enabled exactly
while the call is busy: TLC evaluates it without computing ENABLED.  `BisectWrapped` and `SyntaxErrorRetried` are mutants in which such a
call does not end.

Deadlock is checked in every run but `elementary` and `elementary_pieces`, where
a program calls one function and stops.

## Proofs

| Module | Theorems |
|---|---|
| `RoundingProof` | `TypeCorrect`, `OutlineHolds`, `Soundness`, `DirectionRestored`, `Implementation` |
| `ExprProof` (with `HeapProof`) | `TypeCorrect`, `CountsCorrect`, `NoUseAfterFree`, `NoLeakNoDoubleDelete`, `CleanupDeletesTheLast` |
| `ParserProof` (with `HeapProof`) | `ParserKeepsItsInvariant`, `ParserHoldsItsNodesAlways`, `NothingIsLeftAlways`, `KeptIsThrownAlways`, `ParserTypes` |
| `OneBoundProof` (with `DoublesProof`) | `SearchIsABracket`, `SearchKeepsItsBracketAlways`, `LibraryLeavesTheDirectionAlways`, `LibraryBoundsAreNearAlways` |
| `HullProof` (from the lemmas of `IntervalProof` and `DoublesProof`) | `IntervalsAreWellFormedAlways`, `RelationsAreOfRealsAlways`, `SumsGiveHullsAlways`, `ProductsGiveHullsAlways`, `ArithmeticGivesHullsAlways`, `ReversesGiveHullsAlways`, `DivisionKeepsSolutionsAlways`, `FunctionsGiveHullsAlways`, `FloatArithmeticIsKeptAlways`, `FloatPowersAreKeptAlways`, `FloatBoundsAreReadAlways`, `PairsAreTwoIntervalsAlways`, `PowersOfPairsAreTwoPowersAlways` |

**Rounding.**  `RoundingProof` proves, for any set of paths, any slots and either build, that
`Spec` implies `[]TypeOK`, `[]IInv`, `[]BoundsRoundedRight`,
`[]DirectionContract` and the refinement `ImplementsContract`.
The properties are not inductive: what the registers are in the middle of a
path depends on the instructions before it.  The outline says what they are, at
each point, as a function of the direction found, and the strengthening `IInv`
says that the state is at its point of the outline.  The assumption
`OutlineAssumption` is about each path on its own and has no behaviour in it:
each instruction leads from its point to the next, results are right at every
point where the compiler may compute them, and the last point is allowed.  TLC
evaluates it on the paths of GAOL in both runs, with the outline computed from
the paths themselves (`MCRoundingOutline`).  The theorems then hold of every
interleaving of the caller, the paths and the compiler's delays.

**The heap.**  The nodes of expressions are the same for their two users, and
`HeapProof` has what each primitive does to a heap, for any nodes, slots and labels.  A heap is `Sound` when its counts are
right, its slots refer to live nodes and nodes without content refer to nothing
(`Bare`); `Good` when also the destructors in progress are those of the nodes
without a reference.  `IncKeeps`, `DecKeeps`, `NewLeafKeeps`, ... say what each
primitive keeps, and `DestructorKeeps` that a step of a destructor keeps a good
heap good.  The assumptions are those of `ExprNodes`: disjoint names, finitely
many slots, fewer than `RefMod`.

**Expressions.**  `ExprProof` proves, for any sets of objects, nodes and labels,
that the `Spec` of `ExprGraph` implies `[]TypeOK`, `[]CountsAreReferences`,
`[]NothingDangles`, `[]NoneLostNorDeletedTwice` and `CleanupLeavesNothing`.  None is inductive alone: a
count that is not the number of references lets a node be freed in use, and a
node being deleted has to be told from one that was lost.  `IInv` puts them
together, with `Bare`, the fact that the library holds the null node, and
`Acyclic`: any nodes in use have one that is a member of none of them.  Without it
a cycle of nodes could count itself, and outlive the expressions that `cleanup()`
finds destroyed (`OnlyNullIsLeft`).  TLC agrees with `IInv` on the states of the run.
`TakeStep` says that a node taken by an object which then lives makes a good heap
again.  `Assign` counts before it releases: `OtherOrder` shows that this is the
release followed by the count when the two roots differ, and nothing when they
are the same.

**The parser.**  `ParserProof` proves, for any kinds of texts, nodes and depth of
the stack, and whatever evaluations give or throw, that a parse holds exactly one
reference to each node on its stack and to each it has still to release, that it
leaves neither node nor buffer however it ends, and that an exception kept is
thrown.  `IInv` (of `Parser`) says that the heap is good but for what `drops` has
still to release (`HeapIsKept`); that the only slots that hold nodes are those of
the expression symbols of the stack, and the variables of the action in progress
(`HoldersAreKnown`); that the levels of the symbols follow one another as the
tables have them (`Leveled`), without which the symbols a rule pops would not be
known to be those that hold its operands; that each symbol, value and token read
ahead comes from a token of the text (`StackIsShort`), so that there is always a
slot for the next; that the nodes have no cycle, as those of expressions; and that phases end with what they should
have emptied (`PhasesEnd`).  TLC agrees with it on the states of the run `parser`.  A
rule that throws leaves its stack to be abandoned, and a stack that is full
pops it: both are cases of the same step.

**Doubles.**  `DoublesProof` has the facts that the other proofs round with, for any
finite set of magnitudes with 0, 0.5 and 1: `RoundUp` returns the least double at or
above a fraction, infinity beyond the largest; it is monotonic, and the sum, the product and the quotient
are such roundings, of what they are said to compute.  `RoundNearest` returns a
double between those around the fraction, and an infinity from the number that
the format would have next on.  `previous_float` and `next_float` are the doubles
next to another, each the mirror of the other.  That a set of integers has a least element is proved
through the minima of well-founded relations (`WFMin`), which the library states
without an operator for a parameter.

**Roots.**  `SearchIsABracket` is of any format, degrees, roots and limit, any
estimate, and any functions in place of the powers, which are only assumed to
return doubles: the end of a search that is proved stays proved and the other
one unproved, and what is returned is a proved double next to an unproved one,
or an end of the range.  `IInv` (of `RootSearch`) adds that a search that starts has
its ends together and that the limit of steps stops it; TLC agrees with it on
the states of `one_bound`.  That the result is tight depends on the powers, and
that the limit is not reached on the format: both stay with TLC.
`LibraryLeavesTheDirectionAlways` is an action property, of every library and
build, from the invariant that a call saved the direction it found.

**Bounds of libraries.**  `LibraryBoundsAreNearAlways` is of any format, functions and exact values, a
library being what it is documented to return: a double next to the value, the
value correctly rounded, or one less than two doubles away.  The invariant
(`BoundIsOfTheValue`) is that the direction is to nearest while a library computes, of a value
that its function meets.  CRlibm and mathlib are moved by `previous_float()`, and
the doubles around a value are next to one another
(`RoundingsAreNeighbours`).  The libm of the system is moved by a product and a sum rounded to nearest
(`round_down()`): `RoundedDownIs` shows that the two reach the double below
because it is within MinNormal, or within Epsilon of its size, which
`SpacingAssumption` says of the format and IEEE 754 of doubles; where the product
overflows, or where the largest double is moved, it uses that the number that
the format would have after the largest is as far from it as the one before.

**Intervals are well formed.**  `IntervalsAreWellFormedAlways` says, for any format, either build and any sequence
of operations, that a stored interval has bounds that are not NaNs, in order and
at no wrong infinity, or is the set of two NaNs.  An
operation does not look at the order of the bounds it stores: it follows from
each being rounded upward, at or above the exact bound (`AtLeast`), so that the
sum of the two stored bounds is not negative as that of the exact ones is not.
Every operation is shown to map pairs of bounds with such a sum (`Ends`) to such a pair, by the sides of the operands
on which the code switches.  Without SSE2 it is false of `x -= x`, as the run
`interval_fpu_difference` shows: the theorem assumes `~Aliased`, which is the
program of the run `interval`.

**Relations.**  `RelationsAreOfRealsAlways`: the extremes of the samples of an
interval are its bounds, or the numbers beyond all doubles that stand for an
infinite one, and each relation of all or of some of the reals is one of
extremes.

**Hulls.**  `ArithmeticGivesHullsAlways`: the sums, differences, products, squares,
quotients and inverses of the code, and the operations with a double, are hulls
of the results on the samples of reals, for any format, `Fine` and `Beyond` that meet
`FineAssumption`.  The invariant it needs is that the intervals are well formed.
Each stored bound is shown to be the ceiling of the results
(`IsCeiling`: the least double at or above them all) by naming a result that is
the greatest and that the operation rounds.  The greatest is found by the sides
of 0 on which the operands are: with mixed operands a product is the larger of
two roundings, which is the rounding of the larger; of a quotient by an
interval with 0 for a bound, the results at the samples next to 0 are beyond the
doubles, `Fine` being such that 1/`Fine` is inverted out of the format.  The
signs of zero bounds, NaNs of 0 times infinity, and the empty set are cases of
their own.  `SumsGiveHullsAlways` is the part of it that fails with `Aliased`.

**Reverses.**  `ReversesGiveHullsAlways`: the reals whose product with the divisor is
in the interval undone are the quotients, or all the reals when both have a 0, so
that `%=` comes to the lemmas of quotients.  An operand is kept by the
difference that undoes a sum, by `%=` and `div_rel()` that undo a product, and by
`invabs_rel()` that undoes `abs()`: each stored bound is at or above the exact
one, and what is divided again by the bound of the other operand stays above
the one it came from, on each side of 0 and at infinities.

**Solutions of div_rel().**  `DivisionKeepsSolutionsAlways`: a solution has a product with some real of
the divisor in the dividend.  When both have 0 nothing is taken out; when only
the divisor has it inside, a solution is by its sign at or beyond one of the two
bounds that the code rounds, and so in the piece on that side, which is met with
the interval; otherwise the solutions are the quotients, whose hull is known.
What is kept is in the interval and in the quotient.

**Functions of bounds.**  `FunctionsGiveHullsAlways`: `abs`, `max`, `min` and `invabs_rel` from the
extremes of the samples, `mig` and `mag` as the bounds of the first, `hausdorff`
as the larger of two differences rounded upward.  The midpoint and the radius
are a property of their own, `MidpointsAreCentred`, which is of binary formats only:
that half of a double is one, or is rounded without loss, is false of an arbitrary set of magnitudes.

**Intervals of floats.**  `FloatArithmeticIsKeptAlways` and `FloatBoundsAreReadAlways` are of any format, from the
invariant that x and y are intervals with bounds in order and at no wrong infinity, or the set
of two NaNs (`KeepsFloats`).  The code is another one, without the tests of
`gaol_interval_sse.cpp` for NaNs: `FloatProductsAre` shows that none of the nine cases of
`operator*=` multiplies 0 by an infinity, so that its bounds are those whose hulls are known.
`operator/=` rounds twice, and gives no hull: a quotient by a number y of the divisor is between
products by the bounds of the inverse, which are at or beyond 1/y, on the side
of 0 where the dividend is (`QuotientIsKept`); and where no quotient has a sign,
the inverse and the dividend have bounds at 0 (`QuotientHasSign`).  That the powers remain
intervals needs the loops: after each step the two numbers of the loop of the right bound are positive,
or its base is 0 (`Rising`), and those of the left bound, whose rounding is the other way, have the
signs that put their product below (`Beside`); `LoopIsFunction` is the induction
on the exponent, through the least that would fail.

`FloatPowersAreKeptAlways` compares them with the powers of the reals, for every exponent.  `Raised`, a
recursive function, is unfolded one step at a time (`RaisedIs`), and what is
said of each power comes from the one before (`EveryNatural`).  Of a loop, what is followed
is the product so far times the base to the exponent left: a step squares the
base and perhaps multiplies the product, each rounded (`StepIsRounded`), which
moves that number outward only while both have the sign that the case of the
interval gives them (`Positive`, `Falling`).  `LoopGoesUp` and `LoopGoesDown` carry this to the end of
the loops, where an overflow has given the infinity of the right bound, or for the left one the
largest float or 0.  Hence each bound by the sides of 0 of the interval
(`PowerUpIsUpper`, `PowerDnIsUpper`), and the negative powers as inverses of bounds that are right
(`InverseHasRational`).

Of the pairs, `FloatBoundsAreReadAlways` has the relations, and
`PairsAreTwoIntervalsAlways` the sums, differences and products, for any two intervals: `SwitchIsOfEach`
takes the sixteen cases of the generated switch for one operator on each pair of lanes, and
`LanesGiveHull` finds its bounds among those of the nine cases by signs, whose hulls are known;
a factor and its opposite exchange their signs (`SignMoves`).
`PowersOfPairsAreTwoPowersAlways` is of the powers, for every exponent and any two intervals
that are not empty.  The loop multiplies and negates whole registers: `PowerIsOfLanes` shows
by the same induction that each lane is what the loop of one number gives,
upward or downward as the mask of the case says (`Direction`).  The switch is then followed
case by case: `UnswappedLanes` has the ten of the sixteen that do not swap the intervals,
`SwappedSides` that the six others are those of the pair swapped, and that these
are among the ten.  The lanes need not be the bounds that the interval alone has, only of the same
numbers: the cases of a pair switch on sign bits, and an interval alone on bounds below 0, so that
one with a zero for a bound may take another case in a pair
(`PowerLanesAre`; that the power of 0 is 0, whatever the loop does to its sign, is `PowersOfZero`).

Only model-checked:

- what is said of recursive data: `EvaluationIsOfTheExpression`,
  `ExpressionsAreValues`, `PrecedenceIsKept` (terms and texts), and `SearchIsTight`
  (what a root search returns, against the powers it takes by squaring).
  Induction over data is not to be had from the prover, whose theorems of induction have an
  operator as a parameter;
- liveness: `ParseEnds` and `SearchEnds`, under fairness.  `SearchIsShort`, a safety
  property that would come from the same variant, needs logarithms of the format;
- `MidpointsAreCentred`, which needs a binary format;
- the elementary functions, of which the model has particular ones.

## Not modelled

CORE-MATH and mathlib (vendored; taken as rounding correctly in the
direction they are documented for), the tables of the generated parser and the
recognition of tokens by the lexer, the doubles around a decimal number, the text of the
output, the display of expressions, the visitors that do nothing, the allocator,
Visual C++'s variants, profiling, the build.  Of the intervals of doubles, the powers above 2
(`uipow_dnup`, `uipow_upup`); of the roots, the corners of `pow()` and
`nth_root_rel()`.  Which bounds written `inf` make an interval empty.  Of the intervals of floats, the constructor
of a text and `sqrt()`.  In the grammar, unary plus leaves its operand as brackets do,
and `[empty]` and `[entire]` are read as `[ ]` and `[,]`: neither is a rule of its own in `Parser`.
Of the product of pairs, the 256 cases one by one: `FloatPairs` has the cases of each lane, from which
`gaol_generator_mul_i2f.py` made them, so that a slip in one of the 256 would not show.
Threads: the globals of the parser and the counts are not
protected, and nothing says they are.  The memory of Bison's stack, once it
outgrew its first 200 symbols, is not freed when an exception leaves
`yyparse()`: the model has its symbols and not its memory.  With `GAOL_PRESERVE_ROUNDING`
the SSE frame overwrites the exception masks and flags of MXCSR with
`GAOL_SSE_MASK`: only its rounding bits are modelled.

## Plan

1. Proofs left: the midpoints of intervals of doubles, for binary formats.
2. Models left: the powers of intervals of doubles, reading of decimal numbers and `move_to_side`,
   the corners of `pow`, the precedence of `display()`, profiling.
