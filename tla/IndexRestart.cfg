SPECIFICATION HSpec
CONSTANTS
  Thread = {t1, t2}
  MaxChanges = 2
  MaxCrashes = 1
  NoThread = noThread
  Absent = absent
INVARIANT RestartIndexesRecord
CHECK_DEADLOCK FALSE
SYMMETRY ThreadSymmetry
