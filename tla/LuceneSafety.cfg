SPECIFICATION Spec
CONSTANTS
  Language = {eng, fre}
  DefaultLanguage = eng
  Session = {s1, s2}
  MaxVersion = 2
  MaxCategories = 1
  MaxToken = 4
  MaxRefs = 5
  MaxResets = 1
INVARIANTS
  TypeOK
  HeldIsOpen
  TokenKept
  TaxonomyCovers
SYMMETRY SessionSymmetry
CHECK_DEADLOCK FALSE
