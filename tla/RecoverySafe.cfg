CONSTANTS
  Tx = {1, 2, 3}
  Key = {A, B}
  Row = {x, y}
  NoRow = NoRow
  Workloads <- SafeWorkloads
SPECIFICATION Spec
SYMMETRY Symmetric
INVARIANTS TypeOK VisibleIsCurrent CleanRowsOnDisk UndoInformationKept
PROPERTIES ImplementsAtomicStore
