---------------------------- MODULE BudgetEngine ----------------------------
(***************************************************************************)
(* The rerun budget engine the clients share                               *)
(* (crates/mergify-ci-api/src/budget.rs): which tests flaky detection and  *)
(* test retry rerun, how long each may spend in a session, and what a test *)
(* is given of it.  Milliseconds are natural numbers, a ratio is a         *)
(* percentage, and a share is rounded down.                                *)
(***************************************************************************)
EXTENDS Naturals, FiniteSets

CONSTANT Tests   \* the tests a context may name and a session may hold

Modes == {"new", "unhealthy"}

\* What the server says of the repository (models.rs, FlakyDetectionContext).
Context == [existing   : SUBSET Tests,
            unhealthy  : SUBSET Tests,
            flaky      : SUBSET Tests,
            mean       : Nat,              \* existing_tests_mean_duration_ms
            ratio      : [Modes -> Nat],   \* budget_ratio_for_new_tests, ..._unhealthy_tests
            retryRatio : Nat,
            floor      : Nat,              \* min_budget_duration_ms
            min        : Nat,              \* bounds on one test's executions
            max        : Nat]

AtLeast(n, floor) == IF n < floor THEN floor ELSE n

\* A suite with no baseline would look new as a whole.
ShouldRun(context, mode) == mode = "new" => context.existing # {}

\* The budget follows the baseline tests this session holds, in both modes.
PlanBudget(context, mode, session) ==
  AtLeast((context.ratio[mode] * context.mean * Cardinality(session \cap context.existing)) \div 100,
          context.floor)

PlanTests(context, mode, session, excluded) ==
  (IF mode = "new" THEN session \ context.existing ELSE session \cap context.unhealthy) \ excluded

\* The whole session: a repository that opted into retry alone has no baseline.
RetryBudget(context, session) ==
  AtLeast((context.retryRatio * context.mean * Cardinality(session)) \div 100, context.floor)

\* Mutated form: retry also answers for a failure that gates the merge.
EligibleAnyhow(context, session, excluded, detected, gates) ==
  (session \cap context.flaky) \ excluded

\* Whose failures retry answers for.
EligibleTests(context, session, excluded, detected, gates) ==
  ((session \cap context.flaky) \ excluded) \ (IF gates THEN detected ELSE {})

\* Mutated form: retry pays for every test it answers for.
RetryEveryEligible(context, session, excluded, detected, gates) ==
  EligibleTests(context, session, excluded, detected, gates)

\* The ones it pays to rerun.
RetryTests(context, session, excluded, detected, gates) ==
  EligibleTests(context, session, excluded, detected, gates) \ detected

StaticShare(available, tests) == available \div AtLeast(tests, 1)

\* Mutated form: the tests that were given their share are counted again.
ShareOfAll(available, used, tests, processed) ==
  (IF used < available THEN available - used ELSE 0) \div AtLeast(tests, 1)

\* Mutated form: what was used already is given out again.
ShareOfTheWhole(available, used, tests, processed) ==
  available \div AtLeast(IF processed < tests THEN tests - processed ELSE 0, 1)

\* What is left, over the tests that were given nothing yet.
DynamicShare(available, used, tests, processed) ==
  (IF used < available THEN available - used ELSE 0)
    \div AtLeast(IF processed < tests THEN tests - processed ELSE 0, 1)
=============================================================================
