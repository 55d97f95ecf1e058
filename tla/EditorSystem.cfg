SPECIFICATION Spec
CONSTANTS
  Window = {w1, w2}
  Slot = {s1, s2}
  Session = {u1, u2}
  Edit = {e1}
  Element = {x1}
  MaxRequests = 4
  NoWindow = noWindow
  NoRequest = noRequest
INVARIANTS
  TypeOK
  AppliedIsComplete
  QuietSessionAgrees
PROPERTIES
  LossNeedsRace
CHECK_DEADLOCK FALSE
SYMMETRY EditorSymmetry
