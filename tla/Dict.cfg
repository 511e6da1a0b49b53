SPECIFICATION Spec
CONSTANTS
  v1 = v1
  v2 = v2
  v3 = v3
  t1 = t1
  t2 = t2
  a1 = a1
  a2 = a2
  a3 = a3
  None = None
  Threads <- MCThreads
  Values <- MCValues
  Addr <- MCAddr
  Buckets <- MCBuckets
  HashOf <- MCHashOf
  MaxHeld = 2
SYMMETRY Symmetry
INVARIANTS
  Interned
  RefcountExact
  UsedExact
  RemovalFresh
PROPERTIES
  NoLeak
  ImplementsPool
