CONSTANTS
  a1 = a1
  a2 = a2
  b1 = b1
  A = A
  B = B
  Session = Session
  Tests <- MCTests
  Order <- MCOrder
  ModuleOf <- MCModuleOf
  MaxExecutions = 3
  Plans <- MCPlans

SPECIFICATION Spec
CHECK_DEADLOCK FALSE

INVARIANT NextTestFindsItsOwnStack
