SPECIFICATION TreeSpec
CONSTANTS
  TREE_DEPTH = 3
  ZeroLeaf = zero
  Leaf = {c1, c2}
INVARIANTS
  TreeTypeOK
  RootIsReference
  RootBindsLeaves
  OnlyMembersVerify
CHECK_DEADLOCK FALSE
