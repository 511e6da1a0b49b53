SPECIFICATION Spec
CONSTANTS
  Trees <- MCTrees
  Node <- MCNode
  Kids <- MCKids
  Name <- MCName
  Kind <- MCKind
  Module <- MCModule
  Config <- MCConfig
  Input <- MCInput
  Output <- MCOutput
  Text <- MCText
  Attrs <- MCAttrs
  AttrName <- MCAttrName
  AttrModule <- MCAttrModule
  AttrText <- MCAttrText
  NumberOf <- MCNumberOf
  Models <- MCModels
  RepeatMod = 256
  Requests <- MCRequests
  Junk = {0, 1}
INVARIANTS
  StacksUsed
  EvalExact
  DocOrder
  GrammarExact
