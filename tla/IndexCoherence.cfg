SPECIFICATION HSpec
CONSTANTS
  Thread = {t1, t2}
  MaxChanges = 3
  MaxCrashes = 1
  NoThread = noThread
  Absent = absent
INVARIANTS
  TypeOK
  
  RestartComparesDates
CHECK_DEADLOCK FALSE
SYMMETRY ThreadSymmetry
