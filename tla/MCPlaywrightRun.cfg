CONSTANTS
  login = login
  p = p
  q = q
  r = r
  home = home
  cart = cart
  auth = auth
  gone = gone
  Tests <- MCTests
  Everything = Everything
  Cases <- MCCases
  Readonly = {login}
  DependsOn <- MCDependsOn
  Serial = {q, r}
  NameOf <- MCNameOf
  Retries <- MCRetries
  Statuses = {"passed", "failed", "skipped", "interrupted"}
  Declares <- MCDeclares
  Halting = {"interrupted", "maxFailures"}
  Durations = {1}
  RerunLines = 1
  Receiving = {"stored"}
  Environments <- MCEnvironments
  Quarantines <- MCQuarantines
  Contexts <- MCContexts
  Answers <- MCAnswers

SPECIFICATION Spec

INVARIANTS
  GreenHidesNothing
  VerdictNamesEveryFailure
  NothingUnrunReadsDone
  AbsorbedIsCaught
  FlakyIsEarned
  ReportIsTrue
PROPERTY
  ImplementsContract
