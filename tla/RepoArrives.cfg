SPECIFICATION Spec
CONSTANTS
  main = main
  dev = dev
  v1 = v1
  o = o
  a = a
  b = b
  HeadRef = HEAD
  Remotes = {}
  CheckedOut = {main}
  Owner = o
  Heads = {main}
  Tags = {}
  Node = {o, a}
  Connected = {a}
  FirstCommit <- OnlyMain
  Edited = {main}
  MaxCommit = 2
  MaxQueue = 1
  Scenarios <- Quiet
PROPERTY BundleArrives
