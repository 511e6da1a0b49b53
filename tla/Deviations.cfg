SPECIFICATION Spec
CONSTANTS
  Nodes <- N
  Copies = {"c1", "c2"}
  Kids <- Tree
  Root = "root"
  Null = "null"
  Kind <- Kinds
  Keys <- NoKeys
  Starts <- StartSet
  Stmts <- SomeStmts
  MaxModules = 2
  MaxDevs = 2
  Again = FALSE
  Lost <- LostDeviates
INVARIANTS PrintedOriginal
PROPERTIES PrintRestores Applied
CHECK_DEADLOCK FALSE
