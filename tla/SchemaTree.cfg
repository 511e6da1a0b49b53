SPECIFICATION Spec
CONSTANTS
  MaxNodes = 5
  Names = {n1, n2, n3}
  n1 = n1
  n2 = n2
  n3 = n3
  Kinds = {"leaf", "container", "choice", "case", "uses", "grouping"}
SYMMETRY NameSymmetry
INVARIANTS
  TreeSound
  GetnextAll
  RefusedClash
