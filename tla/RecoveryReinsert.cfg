CONSTANTS
  Tx = {1, 2, 3}
  Key = {A, B}
  Row = {x, y}
  NoRow = NoRow
  Workloads <- ReinsertWorkloads
SPECIFICATION Spec
SYMMETRY Symmetric
INVARIANT VisibleIsCurrent
