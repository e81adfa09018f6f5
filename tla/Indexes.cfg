SPECIFICATION Spec
CONSTANTS
  k1 = k1
  k2 = k2
  k3 = k3
  k4 = k4
  k5 = k5
  Key <- MCKey
  Value = {1, 2, 3}
  Padded <- MCText
  Stripped <- MCText
  NoRow = NoRow
  NoFile = NoFile
  Tables <- MCTables
  Order = 3
  BlockSize = 5
  RowSize = 2
  MaxWrites = 2
SYMMETRY KeySymmetry
INVARIANTS
  TypeOK
  FileMatchesStore
  TreeOrdered
  HashScanAnswers
  TreeScanAnswers
  RangeScanAnswers
