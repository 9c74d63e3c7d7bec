SPECIFICATION Spec
CONSTANTS
  owner = owner
  reader = reader
  Owner = owner
  Reader = reader
  Node = {owner, reader}
  Bootstraps <- BothWays
  Chunks <- Shrinking
  MaxTransfer = 2
  MaxRequest = 1
  MaxConn = 3
  MaxFault <- TwoOneWay
  MaxFailure <- TwoOrOne
  MaxClear = 1
INVARIANTS TypeOK UntornIsWhole LatestIsKept
CHECK_DEADLOCK FALSE
