SPECIFICATION FairSpec
CONSTANTS
  Tx = {t1, t2}
  Reader = {}
  MaxId = 2
  BootParent <- MCBootLeaf
  MaxCalls = 3
  LockTimeouts = TRUE
  Original = original
  Absent = absent
  Unset = unset
  NoTx = noTx
  NoCall = noCall
PROPERTIES
  CallReturns
  EndReturns
