SPECIFICATION Spec
CONSTANTS
  Nodes <- N
  Copies = {"c1", "c2"}
  Kids <- Tree
  Root = "root"
  Null = "null"
  Kind <- Kinds
  Keys <- NoKeys
  Starts <- StartSet
  Stmts <- FewStmts
  MaxModules = 2
  MaxDevs = 2
  Again = FALSE
  Lost <- LostDeviates
PROPERTY RejectedRestores
CHECK_DEADLOCK FALSE
