----------------------------- MODULE RerunBudget -----------------------------
(***************************************************************************)
(* How pytest-mergify spends time on reruns over a whole session: both     *)
(* mechanisms plan at the end of the collection, each test that is to be   *)
(* rerun is given a share of its mechanism's budget, and its loop goes on  *)
(* until that share, the executions or the question is exhausted           *)
(* (rerun.py, flaky_detection.py, test_retry.py).  One process: a session, *)
(* or one worker of pytest-xdist, whose collection is the whole suite and  *)
(* which is handed only part of it.                                        *)
(*                                                                         *)
(* PytestRerun says what becomes of one test's attempts; here an attempt   *)
(* is what it came to and how long it took, its phases taken together.     *)
(***************************************************************************)
EXTENDS BudgetEngine

CONSTANTS
  Durations,    \* how long an attempt may take, in ms
  Slips,        \* what may pass between two looks at the clock, in ms
  Contexts,     \* what the server may say
  Circumstances, \* flaky detection's mode, xdist, who opted out of what
  NoTest

Mechanisms == {"detector", "retrier"}

\* An attempt that breaks in its setup never reaches its call.
Outcomes == {"passed", "failed", "skipped", "broken"}

Circumstance == [mode    : Modes \cup {"none"},
                 worker  : BOOLEAN,
                 optOut  : [Mechanisms -> SUBSET Tests],
                 tooLong : SUBSET Tests,   \* names over max_test_name_length
                 timeout : Nat]            \* pytest-timeout's, 0 without one

ASSUME BudgetConstants ==
  /\ IsFiniteSet(Tests) /\ NoTest \notin Tests
  /\ Durations \subseteq Nat \ {0} /\ Slips \subseteq Nat /\ 0 \in Slips
  /\ Contexts \subseteq Context /\ Circumstances \subseteq Circumstance

VARIABLES
  context, run,        \* what the session was planned under
  todo,                \* the tests not started
  item,                \* the test in hand
  metrics, left,       \* the item's: RerunLoop._test_metrics, ms to its deadline
  used, processed,     \* per mechanism: ms of reruns so far, tests given a share
  failedInitially, rescued, exhausted,   \* TestRetrier's
  broke,               \* the retrier's loop was left over a broken attempt
  paid,                \* history: who reran the item
  late                 \* history: the deadline passed between retry's two looks at it

planned == <<context, run>>
spent   == <<used, processed>>
retry   == <<failedInitially, rescued, exhausted, broke>>
vars == <<planned, todo, item, metrics, left, spent, retry, paid, late>>

-----------------------------------------------------------------------------
\* pytest_collection_finish: detection plans first, and retry is told what it took.
Detected ==
  IF run.mode # "none" /\ ShouldRun(context, run.mode)
  THEN PlanTests(context, run.mode, Tests, run.optOut["detector"]) ELSE {}

Gates == run.mode = "new" /\ ShouldRun(context, run.mode)

Eligible == EligibleTests(context, Tests, run.optOut["retrier"], Detected, Gates)

Targets(m) ==
  IF m = "detector" THEN Detected
  ELSE RetryTests(context, Tests, run.optOut["retrier"], Detected, Gates)

Budget(m) ==
  IF m = "retrier" THEN RetryBudget(context, Tests)
  ELSE IF run.mode = "none" THEN 0 ELSE PlanBudget(context, run.mode, Tests)

NoMetrics == [kept |-> FALSE, calls |-> 0, initial |-> 0, deadline |-> FALSE,
              tooSlow |-> FALSE, last |-> FALSE]

Init ==
  /\ context \in Contexts /\ run \in Circumstances
  /\ todo = Tests /\ item = NoTest
  /\ metrics = [m \in Mechanisms |-> NoMetrics] /\ left = [m \in Mechanisms |-> 0]
  /\ used = [m \in Mechanisms |-> 0] /\ processed = [m \in Mechanisms |-> 0]
  /\ failedInitially = {} /\ rescued = {} /\ exhausted = {} /\ broke = FALSE
  /\ paid = {} /\ late = FALSE

\* A loop that gives every target a share: it divides by all of them.  Retry
\* divides by the tests that failed.
SharingBudget(m, failed) == Cardinality(IF m = "detector" THEN Targets(m) ELSE failed)

\* Whatever the share, a test's own timeout comes first, with a margin.
BeforeTimeout(share) ==
  IF run.timeout # 0 /\ (run.timeout * 9) \div 10 < share THEN (run.timeout * 9) \div 10 ELSE share

\* set_test_deadline: workers cannot coordinate what they used, so theirs is static.
Share(m, failed) ==
  IF run.worker THEN StaticShare(Budget(m), SharingBudget(m, failed))
  ELSE DynamicShare(Budget(m), used[m], AtLeast(SharingBudget(m, failed), 1), processed[m])

TimeGiven(m, failed) == BeforeTimeout(Share(m, failed))

\* executions_needed_to_answer.
Needed(m) == IF m = "detector" THEN context.min ELSE 1

\* The first attempt's reports: a skip leaves no metrics, a setup that fails
\* leaves them without an execution.
Filled(m, t, outcome, duration) ==
  IF outcome # "skipped" /\ t \in Targets(m) \ run.tooLong
  THEN [NoMetrics EXCEPT !.kept = TRUE, !.initial = duration,
                         !.calls = IF outcome = "broken" THEN 0 ELSE 1]
  ELSE NoMetrics

\* has_test_executed, and the retrier's wants_rerun.
WantsRerun(m, t, filled, failed) ==
  filled.kept /\ filled.calls >= 1 /\ (m = "retrier" => t \in failed)

\* A test's first attempt, up to its teardown, where each mechanism that wants to
\* rerun it sets its deadline and decides whether it is too slow.
FirstAttempt(t, outcome, duration) ==
  LET failed == IF t \in Eligible /\ outcome = "failed"
                THEN failedInitially \cup {t} ELSE failedInitially
      filled(m) == Filled(m, t, outcome, duration)
      wants(m)  == WantsRerun(m, t, filled(m), failed)
      slow(m)   == wants(m) /\ duration * Needed(m) > TimeGiven(m, failed)
  IN /\ item = NoTest /\ t \in todo
     /\ todo' = todo \ {t} /\ item' = t /\ broke' = FALSE
     /\ failedInitially' = failed
     /\ left' = [m \in Mechanisms |-> IF wants(m) THEN TimeGiven(m, failed) ELSE 0]
     /\ metrics' = [m \in Mechanisms |->
                      [filled(m) EXCEPT !.deadline = wants(m), !.tooSlow = slow(m)]]
     /\ processed' = [m \in Mechanisms |-> processed[m] + (IF wants(m) THEN 1 ELSE 0)]
     /\ exhausted' = IF slow("retrier") THEN exhausted \cup {t} ELSE exhausted
     /\ UNCHANGED <<planned, used, rescued, paid, late>>

\* Whether a run as long as the test's first would end past the deadline, as the
\* clock stands `slip' ms from now.
WillExceedDeadline(m, slip) == left[m] <= metrics[m].initial + slip

\* Mutated form: the deadline is looked at when the test has run past it.
ReachedLimitPastDeadline(m, slip) ==
  \/ m = "retrier" /\ item \in rescued
  \/ left[m] <= slip
  \/ metrics[m].calls + 1 >= context.max

\* _reached_rerun_limit, asked before the rerun it guards.  TestRetrier's looks at
\* the clock once, and then has RerunLoop's look again.
ReachedLimit(m, slip) ==
  \/ m = "retrier" /\ item \in rescued
  \/ WillExceedDeadline(m, slip)
  \/ metrics[m].calls + 1 >= context.max

\* Whether the mechanism's loop goes on.
WantsAnother(m) ==
  /\ item # NoTest /\ metrics[m].deadline /\ ~metrics[m].tooSlow /\ ~metrics[m].last
  /\ m = "retrier" => item \notin rescued /\ ~broke

\* Mutated form: only a test that could not start is noted.
NotesNoShortfall(m, slip) == FALSE

\* TestRetrier notes a test its budget stopped: the limit is the second look's, the
\* budget the first one's.
NotesShortfall(m, slip) ==
  /\ m = "retrier" /\ item \notin rescued
  /\ ReachedLimit(m, slip)
  /\ WillExceedDeadline(m, 0)

\* One more attempt; detection's loop comes first, and looks at the clock once.
Rerun(m, outcome, duration, slip) ==
  /\ WantsAnother(m) /\ (m = "retrier" => ~WantsAnother("detector"))
  /\ m = "detector" => slip = 0
  /\ metrics' = [metrics EXCEPT ![m].last = ReachedLimit(m, slip),
                                ![m].calls = IF outcome = "broken" THEN @ ELSE @ + 1]
  /\ exhausted' = IF NotesShortfall(m, slip) THEN exhausted \cup {item} ELSE exhausted
  /\ late' = (WillExceedDeadline(m, slip) /\ ~WillExceedDeadline(m, 0))
  /\ rescued' = IF outcome = "passed" /\ item \in failedInitially
                THEN rescued \cup {item} ELSE rescued
  /\ broke' = (m = "retrier" /\ outcome = "broken")
  /\ used' = [used EXCEPT ![m] = @ + duration]
  /\ left' = [n \in Mechanisms |-> IF metrics[n].deadline /\ left[n] > duration + slip
                                   THEN left[n] - (duration + slip) ELSE 0]
  /\ paid' = paid \cup {m}
  /\ UNCHANGED <<planned, todo, item, processed, failedInitially>>

FinishTest ==
  /\ item # NoTest /\ \A m \in Mechanisms : ~WantsAnother(m)
  /\ item' = NoTest /\ paid' = {} /\ late' = FALSE
  /\ metrics' = [m \in Mechanisms |-> NoMetrics] /\ left' = [m \in Mechanisms |-> 0]
  /\ UNCHANGED <<planned, todo, spent, retry>>

\* The session is over; a worker is not handed every test it collected.
Over ==
  /\ item = NoTest /\ (todo = {} \/ run.worker)
  /\ UNCHANGED vars

Next ==
  \/ \E t \in Tests, o \in Outcomes, d \in Durations : FirstAttempt(t, o, d)
  \/ \E m \in Mechanisms, o \in Outcomes, d \in Durations, slip \in Slips : Rerun(m, o, d, slip)
  \/ FinishTest \/ Over

Spec == Init /\ [][Next]_vars

-----------------------------------------------------------------------------
(* Properties.                                                             *)

Metrics == [kept : BOOLEAN, calls : Nat, initial : Nat,
            deadline : BOOLEAN, tooSlow : BOOLEAN, last : BOOLEAN]

\* Each variable holds what its place in the code may hold; the tests given a
\* share are tests with metrics, and none is rerun without one.
TypeOK ==
  /\ context \in Contexts /\ run \in Circumstances
  /\ todo \subseteq Tests /\ item \in (Tests \ todo) \cup {NoTest}
  /\ metrics \in [Mechanisms -> Metrics] /\ left \in [Mechanisms -> Nat]
  /\ used \in [Mechanisms -> Nat] /\ processed \in [Mechanisms -> Nat]
  /\ failedInitially \subseteq Tests \ todo /\ rescued \subseteq failedInitially
  /\ exhausted \subseteq failedInitially /\ broke \in BOOLEAN
  /\ paid \subseteq Mechanisms /\ late \in BOOLEAN

Reran(m) == item # NoTest /\ item' = item /\ used'[m] > used[m]

\* A mechanism keeps to its budget, up to the one rerun it always finishes with:
\* any other rerun starts only if what was used, by all tests so far, leaves room
\* for a run as long as the test's first.  On a worker the room is in the equal
\* part of the budget that a detected test has.
BudgetBinds ==
  [][\A m \in Mechanisms :
       Reran(m) /\ ~metrics'[m].last =>
         IF run.worker THEN m = "detector" => metrics[m].initial * Cardinality(Detected) < Budget(m)
         ELSE used[m] + metrics[m].initial < Budget(m)]_vars

\* No test is starved by those before it: as long as these used no more than an
\* equal part each, the next one is given at least an equal part (detection,
\* outside of xdist).
NobodyIsStarved ==
  [][\A t \in todo :
       /\ item' = t /\ metrics'["detector"].deadline /\ ~run.worker /\ run.timeout = 0
       /\ used["detector"] * Cardinality(Detected) <= processed["detector"] * Budget("detector")
       => left'["detector"] >= Budget("detector") \div Cardinality(Detected)]_vars

\* No two mechanisms rerun one test, and what detection spends is never retry's.
NobodyPaysTwice ==
  /\ Cardinality(paid) <= 1
  /\ "retrier" \in paid => item \in failedInitially \ Detected

\* A failure that gates the merge is not answered by its reruns.
GateStands == run.mode = "new" => rescued \cap Detected = {}

\* The report says of every failure retry gave up on that it could not afford
\* another attempt, unless it made all the executions it may, or broke: what
\* _budget_exhausted_tests is for (test_retry.py:45-47).  There is one more way out
\* of the loop, on which the code says nothing: the clock is looked at twice
\* (test_retry.py:180, and rerun.py:315 through super()), and a deadline that passes
\* in between stops the retry without the test being noted.
ShortfallIsSaid ==
  /\ item \in failedInitially \cap (Targets("retrier") \ run.tooLong)
  /\ \A m \in Mechanisms : ~WantsAnother(m)
  /\ item \notin rescued /\ ~broke /\ metrics["retrier"].calls < context.max
  => item \in exhausted \/ late
=============================================================================
