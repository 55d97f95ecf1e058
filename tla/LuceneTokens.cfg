SPECIFICATION Spec
CONSTANTS
  Language = {eng, fre}
  DefaultLanguage = eng
  Session = {s1, s2}
  MaxVersion = 3
  MaxCategories = 1
  MaxToken = 4
  MaxRefs = 5
  MaxResets = 0
INVARIANT TokenNamesPage
CHECK_DEADLOCK FALSE
