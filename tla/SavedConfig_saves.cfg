SPECIFICATION Spec
CONSTANTS
  Products = {1, 2}
  PsiPages = 2
  Lengths <- MCLengths
  Rejected = {1}
  Failing <- MCFailing
  TRY_MAX = 1
  MaxOps = 2
  MaxFaults = 1
INVARIANTS NoForeignWrite SavedIsCurrent
PROPERTIES SavesComplete
CHECK_DEADLOCK FALSE
