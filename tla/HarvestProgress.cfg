SPECIFICATION FairSpec
CONSTANTS
  Harvester = {h1}
  Request = {r1, r2}
  Record = {k1}
  OneRunOnly = {h1}
  MaxFirings = 0
  MaxRestarts = 0
  NoOne = noOne
  Absent = absent
  Unset = unset
PROPERTIES
  
  TriggerFires
