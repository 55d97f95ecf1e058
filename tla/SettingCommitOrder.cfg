SPECIFICATION HSpec
CONSTANTS
  Tx = {t1, t2}
  Reader = {}
  MaxId = 3
  BootParent <- MCBootParent
  MaxCalls = 2
  LockTimeouts = TRUE
  Original = original
  Absent = absent
  Unset = unset
  NoTx = noTx
  NoCall = noCall
INVARIANT AnyCommitCombinationAgrees
SYMMETRY TxSymmetry
