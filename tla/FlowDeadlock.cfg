SPECIFICATION Spec
CONSTANTS
  n1 = n1
  n2 = n2
  n3 = n3
  Node = {n1, n2}
  Scenarios <- Mutual
  Frames = 2
  Hops = 1
  Window = 1
  Capacity = 1
  MaxAsk = 1
PROPERTY BundlesCome
CHECK_DEADLOCK FALSE
