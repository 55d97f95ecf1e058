SPECIFICATION Spec
CONSTANTS
  Harvester = {h1, h2}
  Request = {r1, r2}
  Record = {k1}
  OneRunOnly = {h1}
  MaxFirings = 0
  MaxRestarts = 1
  NoOne = noOne
  Absent = absent
  Unset = unset
INVARIANTS
  TypeOK
  
  
  NothingRemains
  VisibleIsManaged
SYMMETRY RequestSymmetry
