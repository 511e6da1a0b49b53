SPECIFICATION Spec
CONSTANTS
  Kinds <- AllKinds
  Misread <- KnownMisread
  Unprinted <- KnownUnprinted
  EnumMax = 2
  PosMax = 2
  MaxSubs = 2
  MaxItems = 3
INVARIANTS ArraysFull Faithful RefusedIff NumbersUnique RoundTrip PrintersAgree
CHECK_DEADLOCK FALSE
