SPECIFICATION Spec
CONSTANTS
  owner = owner
  reader = reader
  Owner = owner
  Reader = reader
  Node = {owner, reader}
  Bootstraps <- OnlyMutual
  Chunks <- Shrinking
  MaxTransfer = 1
  MaxRequest = 1
  MaxConn = 2
  MaxFault <- Faultless
  MaxFailure <- Faultless
  MaxClear = 0
INVARIANT RecordedIsWhole
CHECK_DEADLOCK FALSE
