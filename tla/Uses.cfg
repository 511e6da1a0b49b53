SPECIFICATION Spec
CONSTANTS
  Schemas <- AllSchemas
  Data = "data"
  Builtin = {"string"}
  NacmMod = 256
INVARIANTS
  CopiesExact
  AcceptedIffSound
PROPERTIES
  Returns
