SPECIFICATION FairSpec
CONSTANTS
  None = None
  Doc <- MCDocs
  Paths <- MCPaths
  Addr <- MCAddr
  InitSize = 2
INVARIANTS
  Closed
  ListOK
  MemoryExact
PROPERTIES
  CallsReturn
