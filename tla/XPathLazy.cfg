SPECIFICATION Spec
CONSTANTS
  Trees <- MCTrees
  Node <- MCNode
  Kids <- MCKids
  Name <- MCName
  Kind <- MCKind
  Module <- MCModule
  Config <- MCConfig
  Input <- MCInput
  Output <- MCOutput
  Text <- MCText
  Attrs <- MCAttrs
  AttrName <- MCAttrName
  AttrModule <- MCAttrModule
  AttrText <- MCAttrText
  NumberOf <- MCNumberOf
  Models <- MCModels
  RepeatMod = 256
  Requests <- LazyRequests
  Junk = {0, 1}
INVARIANT
  EvalExact
