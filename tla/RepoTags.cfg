SPECIFICATION Spec
CONSTANTS
  main = main
  dev = dev
  v1 = v1
  o = o
  a = a
  b = b
  HeadRef = HEAD
  Remotes = {}
  CheckedOut = {main}
  Owner = o
  Heads = {main}
  Tags = {v1}
  Node = {o, a}
  Connected = {a}
  FirstCommit <- MainAndTag
  Edited = {}
  MaxCommit = 1
  MaxQueue = 1
  Scenarios <- Quiet
PROPERTY CatchesUp
