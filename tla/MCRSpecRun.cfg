CONSTANTS
  a = a
  b = b
  c = c
  gone = gone
  g1 = g1
  g2 = g2
  NoExample = NoExample
  Everything = Everything
  Ids <- MCIds
  Examples <- MCExamples
  Groups <- MCGroups
  GroupOf <- MCGroupOf
  Environments <- MCEnvironments
  Filters <- MCFilters
  Quarantines <- MCQuarantines
  Contexts <- MCContexts
  Answers <- MCAnswers

SPECIFICATION Spec

INVARIANTS
  
  FlakyIsEarned
  VerdictAgreesWithExit
PROPERTY
  ImplementsContract
