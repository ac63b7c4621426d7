CONSTANTS
  f1 = f1
  f2 = f2
  c1 = c1
  c2 = c2
  c3 = c3
  a = a
  b = b
  gone = gone
  Tests <- MCTests
  Everything = Everything
  Cases <- MCCases
  Files <- MCFiles
  FileOf <- MCFileOf
  NameOf <- MCNameOf
  Retry = 1
  Environments <- MCEnvironments
  Quarantines <- MCQuarantines
  Contexts <- MCContexts
  Answers <- MCAnswers

SPECIFICATION Spec

INVARIANTS
  GreenHonoursTheAnswer
  VerdictAgreesWithExit
  OutcomesAreTheRepeats
  AbsorbedNeverReadsGreen
  QuarantineHolds
  ReportIsTrue
PROPERTY
  ImplementsContract
