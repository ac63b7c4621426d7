--------------------------- MODULE TsFlakyDetector ---------------------------
(***************************************************************************)
(* Flaky detection and quarantine as the TypeScript clients share them     *)
(* (clients/ts/packages/core/src/flaky-detection.ts and quarantine.ts):    *)
(* which tests may be repeated, how often, and what the outcomes of the    *)
(* repeats say.  The plan (which tests a mode targets, the session's       *)
(* budget, each test's share of it) is the native engine's: external.      *)
(***************************************************************************)
EXTENDS Integers, FiniteSets

CONSTANT Names   \* test names the plan may speak of

\* What the server's baseline and the engine's plan come to for a run:
\* the tests to process, those whose names are over the length limit, the
\* milliseconds available, and the bounds on one test's executions.
FlakyContexts == [mode     : {"new", "unhealthy"},
                  usable   : BOOLEAN,      \* shouldRunFlakyDetection
                  toProcess: SUBSET Names,
                  tooLong  : SUBSET Names,
                  budget   : Nat,
                  min      : Nat,
                  max      : Nat,
                  mean     : Nat]          \* existing_tests_mean_duration_ms

NoContext == [mode |-> "unhealthy", usable |-> FALSE, toProcess |-> {}, tooLong |-> {},
              budget |-> 0, min |-> 0, max |-> 0, mean |-> 0]

\* fetchFlakyDetectionContext: dormant, a failed fetch and a context the engine
\* has nothing to do with are all null (NoContext).
FetchFlakyContext(outcome, context) ==
  IF outcome = "answered" /\ context.usable THEN context ELSE NoContext

\* fetchQuarantineList: dormant and a failed fetch leave nothing quarantined.
FetchQuarantineList(outcome, names) == IF outcome = "answered" THEN names ELSE {}

-----------------------------------------------------------------------------
\* The plan for the tests of one session, over-long names dropped.
Candidates(context, session) == (context.toProcess \cap session) \ context.tooLong

\* nativeStaticShareMs.
PerTestDeadline(context, session) ==
  LET n == Cardinality(Candidates(context, session))
  IN IF n = 0 THEN 0 ELSE context.budget \div n

AtMost(a, b) == IF a < b THEN a ELSE b

\* How many runs beyond the first fit in a test's share; a test too slow for
\* the least number of executions gets none, and so does one of no duration.
ComputeRepeatBudget(context, session, duration) ==
  LET deadline == PerTestDeadline(context, session)
      extra    == IF duration = 0 THEN 0
                  ELSE AtMost((deadline \div duration) - 1, context.max - 1)
  IN IF duration * context.min > deadline \/ extra < 0 THEN 0 ELSE extra

-----------------------------------------------------------------------------
\* TestMetrics: what was recorded of one test.
NoMetrics == [outcomes |-> {}, attempts |-> 0, tooSlow |-> FALSE]

Metrics == [outcomes : SUBSET {"pass", "fail"}, attempts : Nat, tooSlow : BOOLEAN]

\* getMaxRepeats, beside the number it returns.
NoteDuration(metrics, repeats, duration) ==
  [metrics EXCEPT !.tooSlow = @ \/ (repeats = 0 /\ duration > 0)]

RecordOutcome(metrics, outcome) ==
  [metrics EXCEPT !.outcomes = @ \cup {outcome}, !.attempts = @ + 1]

IsFlaky(metrics) == {"pass", "fail"} \subseteq metrics.outcomes

\* Reruns beyond the first attempt.
RerunCount(metrics) == IF metrics.attempts = 0 THEN 0 ELSE metrics.attempts - 1
=============================================================================
