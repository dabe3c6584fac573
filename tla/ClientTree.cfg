SPECIFICATION ClientSpec
CONSTANTS
  TREE_DEPTH = 3
  ZeroLeaf = zero
  Leaf = {c1, c2}
INVARIANTS
  SiblingsVerify
  RootWasOnChain
CHECK_DEADLOCK FALSE
