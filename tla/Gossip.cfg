SPECIFICATION Spec
CONSTANTS
  n1 = n1
  n2 = n2
  n3 = n3
  n4 = n4
  n5 = n5
  n6 = n6
  Node = {n1, n2, n3, n4, n5, n6}
  Origins = {n1}
  MaxSeq = 1
  Topologies <- AllGraphs
  TtlFor <- TtlOf
  Verifies <- LastCannotVerify
  Keyless <- KeylessIfLapsed
INVARIANTS TypeOK HopBound FloodComplete
PROPERTIES FloodEnds ImplementsSpread
