CONSTANTS
  old = old
  shaky = shaky
  both = both
  NoTest = NoTest
  Tests <- MCTests
  Durations = {1, 3}
  Slips = {0, 1}
  Contexts <- MCContexts
  Circumstances <- MCCircumstances

SPECIFICATION Spec

INVARIANTS
  NobodyPaysTwice
  GateStands
  ShortfallIsSaid
PROPERTIES
  BudgetBinds
  NobodyIsStarved
