SPECIFICATION Spec
CONSTANTS
  node = node
  cli = cli
  repo = repo
  Process = {node, cli}
  NodeProc = {node}
  Repo = {repo}
  Starts <- AllStarts
  MaxAbort = 1
  MaxLoss = 1
INVARIANTS TypeOK MigrationKeeps OpenIsCurrent PairMatches
PROPERTIES RowsKept ImplementsRecords FailsOnlyIfDamaged NodeOpens NodeComesBack
CHECK_DEADLOCK FALSE
