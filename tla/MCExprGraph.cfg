SPECIFICATION Spec
CONSTANTS
  a1 = a1
  a2 = a2
  a3 = a3
  library = library
  Handle <- MCHandle
  Library <- library
  Holder <- MCHolder
  Node = {n1, n2, n3, n4}
  NoNode = NoNode
  Leaf = {"x"}
  Unary = {"neg"}
  Binary = {"sub"}
  RefMod = 16
  StackSize = 8
SYMMETRY Symmetry
INVARIANTS CountsAreReferences NothingDangles NoneLostNorDeletedTwice EvaluationIsOfTheExpression
PROPERTIES CleanupLeavesNothing ExpressionsAreValues
