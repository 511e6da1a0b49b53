SPECIFICATION Spec
CONSTANTS
  Feature <- MCFeature
  Holder <- MCHolder
  Home <- MCHome
  Includes <- MCIncludes
  Graphs <- PlainSubmodules
  MaxDepth = 4
  All = All
PROPERTIES
  Promised
  Returns

CHECK_DEADLOCK FALSE
