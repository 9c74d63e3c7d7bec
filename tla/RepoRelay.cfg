SPECIFICATION Spec
CONSTANTS
  main = main
  dev = dev
  v1 = v1
  o = o
  a = a
  b = b
  HeadRef = HEAD
  Remotes = {}
  CheckedOut = {main}
  Owner = o
  Heads = {main, dev}
  Tags = {}
  Node = {o, a, b}
  Connected = {}
  FirstCommit <- OnlyMain
  Edited = {main, dev}
  MaxCommit = 3
  MaxQueue = 1
  Scenarios <- Relayed
INVARIANT CoherentRefs
PROPERTY OwnerNeverSetBack
