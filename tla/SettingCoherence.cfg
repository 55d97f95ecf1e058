SPECIFICATION HSpec
CONSTANTS
  Tx = {t1, t2}
  Reader = {r1}
  MaxId = 2
  BootParent <- MCBootLeaf
  MaxCalls = 3
  LockTimeouts = TRUE
  Original = original
  Absent = absent
  Unset = unset
  NoTx = noTx
  NoCall = noCall
INVARIANTS
  TypeOK
  OnlyClosedVisible
  NoLeftover
  NoTornRead
  RowChangeHasTask
  OnlyExplainedDifferences
PROPERTY KeepsPromise
SYMMETRY TxSymmetry
