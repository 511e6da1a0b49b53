SPECIFICATION Spec
CONSTANTS
  c = c
  t1 = t1
  t2 = t2
  r = r
  x1 = x1
  None = None
  Nodes <- LeafNodes
  KindOf <- LeafKinds
  Values = {x1}
  Docs <- LeafDocs
INVARIANTS
  TreeWhole
  ValidTree
PROPERTIES
  TargetLeaves
  ImplementsForest
