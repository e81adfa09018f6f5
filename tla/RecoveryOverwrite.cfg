CONSTANTS
  Tx = {1, 2, 3}
  Key = {A, B}
  Row = {x, y}
  NoRow = NoRow
  Workloads <- OverwriteWorkloads
SPECIFICATION FairSpec
PROPERTY RollbackKeepsCommitted
