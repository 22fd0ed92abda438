SPECIFICATION Spec
CONSTANTS
  Holder <- ParserHolder
  EvalExpr <- evaluate_expr
  EvalLeftRight <- evaluate_left_right
  Includes <- HasLabel
  Texts <- MCRoots
  Throwing = {"cos"}
  MaxDepth = 10
  Node = {1, 2, 3, 4, 5, 6, 7, 8, 9}
  NoNode = NoNode
  Leaf = {"n"}
  Unary = {"neg", "cos", "nth_root", "pow_n"}
  Binary = {"sub", "mul", "div", "pow"}
  RefMod = 128
  StackSize = 4
INVARIANT AcceptedIsRead
