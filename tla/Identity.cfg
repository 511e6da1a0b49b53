SPECIFICATION Spec
CONSTANTS
  Mods <- OrderedMods
  Stmts <- OrderedStmts
  None = None
  MaxLoads = 4
INVARIANTS
  BaseGraph
  IdentrefExact
  RefusedIffUnsound
