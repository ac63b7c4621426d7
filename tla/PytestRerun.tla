---------------------------- MODULE PytestRerun ----------------------------
(***************************************************************************)
(* How pytest-mergify runs one test: its first attempt, then the reruns    *)
(* flaky detection or test retry ask for, what of all that pytest is       *)
(* allowed to log, and where the finalizers of the higher-scoped fixtures  *)
(* are meanwhile.  One process, no xdist.                                  *)
(*                                                                         *)
(* Modelled: the protocol, setup, teardown, makereport and logreport hooks *)
(* of pytest_mergify/__init__.py, rerun.py (RerunLoop), test_retry.py      *)
(* (TestRetrier) and flaky_detection.py (FlakyDetector); SessionVerdict is *)
(* the fold of what is logged.  External: pytest's SetupState and its      *)
(* fixtures, and the clock, of which only what it decides is kept: whether *)
(* a test is too slow, and whether its deadline has passed.                *)
(***************************************************************************)
EXTENDS SessionVerdict, SequencesExt

CONSTANTS
  Order,          \* the collected items, in the order the session runs them
  ModuleOf,       \* the module each item is in
  Session,        \* the node every item's chain of collectors starts at
  MaxExecutions,  \* the context's max_test_execution_count
  Plans           \* what the engine may have planned for the session

Modules    == {ModuleOf[t] : t \in Tests}
Collectors == {Session} \cup Modules
Mechanisms == {"detector", "retrier"}
Phases     == {"setup", "call", "teardown"}
Outcomes   == {"passed", "failed", "skipped"}

\* A plan: flaky detection's mode ("none" when there is no detector), the tests
\* it reruns, the known-flaky tests that did not opt out of retry, and the tests
\* whose names exceed the limit.
Plan == [mode     : {"none", "new", "unhealthy"},
         detected : SUBSET Tests,
         flaky    : SUBSET Tests,
         overlong : SUBSET Tests]

ASSUME RerunAssumption ==
  /\ Order \in Seq(Tests) /\ IsInjective(Order)
  /\ ModuleOf \in [Tests -> Modules]
  /\ Session \notin Modules /\ Collectors \cap Tests = {}
  /\ MaxExecutions \in Nat
  /\ Plans \subseteq Plan
  /\ \A p \in Plans : p.mode = "none" => p.detected = {}

VARIABLES
  plan,
  pos, pc,         \* the item in hand, and where its protocol is
  attempt,         \* who asked for the attempt: "first", or a mechanism
  reports, held,   \* outcomes by phase: of this attempt, of the held-back first one
  metrics,         \* RerunLoop._test_metrics of the item in hand, by mechanism
  expired,         \* the item's deadline has passed
  failedInitially, rescued,            \* TestRetrier's
  stack, fin,      \* SetupState.stack, and its entries that hold their fixture's finalizer
  suspended,       \* _suspended_item_finalizers: <<node, has the finalizer>>, by mechanism
  alive, created,  \* the collectors whose fixture is set up; how often it was set up
  final, red,      \* the verdict's fold; pytest has logged a failure
  hasError,        \* what the session span's status is read from
  seen             \* history of the item in hand

running  == <<pos, pc, attempt, reports, held>>
loop     == <<metrics, expired>>
retry    == <<failedInitially, rescued>>
fixtures == <<stack, fin, suspended, alive, created>>
logged   == <<final, red, hasError>>
vars == <<plan, running, loop, retry, fixtures, logged, seen>>

item     == Order[pos]
Chain(t) == <<Session, ModuleOf[t], t>>
NextChain == IF pos < Len(Order) THEN Chain(Order[pos + 1]) ELSE <<>>

\* Whose failures retry answers for, and whom each mechanism reruns
\* (mergify-ci-api's budget::plan and budget::retry_plan).
Eligible == plan.flaky \ (IF plan.mode = "new" THEN plan.detected ELSE {})
Targets  == [m \in Mechanisms |->
               IF m = "detector" THEN plan.detected ELSE Eligible \ plan.detected]

NotRun     == [p \in Phases |-> "none"]
NoMetrics  == [kept |-> FALSE, count |-> 0, deadline |-> FALSE, tooSlow |-> FALSE, last |-> FALSE]
NothingYet == [first |-> "none", passedLater |-> FALSE, failed |-> FALSE,
               phaseFailed |-> FALSE, calls |-> 0, results |-> 0]

-----------------------------------------------------------------------------
Init ==
  /\ plan \in Plans
  /\ pos = 1 /\ pc = "idle" /\ attempt = "first" /\ reports = NotRun /\ held = NotRun
  /\ metrics = [m \in Mechanisms |-> NoMetrics] /\ expired = FALSE
  /\ failedInitially = {} /\ rescued = {}
  /\ stack = <<>> /\ fin = {} /\ suspended = [m \in Mechanisms |-> {}]
  /\ alive = {} /\ created = [c \in Collectors |-> 0]
  /\ final = NothingRecorded /\ red = FALSE /\ hasError = FALSE
  /\ seen = NothingYet

HasExecuted(m) == metrics[m].kept /\ metrics[m].count >= 1

WantsRerun(m) ==
  /\ HasExecuted(m)
  /\ m = "retrier" => item \in failedInitially /\ item \in Targets[m]

\* try_fill_metrics_from_report, of one mechanism.
Filled(m, phase, outcome) ==
  CASE outcome = "skipped" /\ ~HasExecuted(m) -> NoMetrics
    [] /\ outcome # "skipped" \/ HasExecuted(m)
       /\ item \in Targets[m] \ plan.overlong
       /\ metrics[m].kept \/ phase = "setup"
         -> [metrics[m] EXCEPT !.kept = TRUE,
                               !.count = IF phase = "call" THEN @ + 1 ELSE @]
    [] OTHER -> metrics[m]

Reported(phase, outcome) == reports' = [reports EXCEPT ![phase] = outcome]

StartTest ==
  /\ pc = "idle" /\ pos <= Len(Order)
  /\ pc' = "setup" /\ attempt' = "first" /\ reports' = NotRun /\ held' = NotRun
  /\ metrics' = [m \in Mechanisms |-> NoMetrics] /\ expired' = FALSE
  /\ seen' = NothingYet
  /\ UNCHANGED <<plan, pos, retry, fixtures, logged>>

\* SetupState refuses an item when the stack holds a node that is not on its
\* chain; otherwise the missing nodes are pushed, the collectors' fixtures that
\* are not cached are set up, and the item's own may fail or skip.
Setup ==
  /\ pc = "setup"
  /\ \E o \in Outcomes :
       /\ IF Range(stack) \subseteq Range(Chain(item))
            THEN LET fresh == {Session, ModuleOf[item]} \ alive IN
                 /\ stack' = Chain(item)
                 /\ fin' = fin \cup fresh
                 /\ alive' = alive \cup fresh
                 /\ created' = [c \in Collectors |->
                                  IF c \in fresh THEN created[c] + 1 ELSE created[c]]
            ELSE o = "failed" /\ UNCHANGED <<stack, fin, alive, created>>
       /\ Reported("setup", o)
       /\ metrics' = [m \in Mechanisms |-> Filled(m, "setup", o)]
       /\ pc' = IF o = "passed" THEN "call" ELSE "teardown"
       /\ seen' = [seen EXCEPT !.phaseFailed = @ \/ o = "failed"]
  /\ UNCHANGED <<plan, pos, attempt, held, expired, retry, suspended, logged>>

\* Mutated form: a later pass rescues a test whatever its first attempt did.
RescuesRegardless(o) == item \in Eligible /\ seen.calls > 0 /\ o = "passed"

\* _record_attempt: a later attempt's pass answers for a first failure.
Rescues(o) ==
  /\ item \in Eligible /\ seen.calls > 0
  /\ o = "passed" /\ item \in failedInitially

\* The test's body, and what pytest_runtest_makereport does with its report:
\* the retrier counts the attempts of every eligible test, rerun by whomever,
\* and the span takes the first call's error unless retry is to answer for it.
Call ==
  /\ pc = "call"
  /\ \E o \in Outcomes :
       /\ Reported("call", o)
       /\ metrics' = [m \in Mechanisms |-> Filled(m, "call", o)]
       /\ failedInitially' =
            IF item \in Eligible /\ seen.calls = 0 /\ o = "failed"
              THEN failedInitially \cup {item} ELSE failedInitially
       /\ rescued' = IF Rescues(o) THEN rescued \cup {item} ELSE rescued
       /\ hasError' = (hasError \/ (seen.calls = 0 /\ o = "failed" /\ item \notin Eligible))
       /\ seen' = [seen EXCEPT !.first = IF seen.calls = 0 THEN o ELSE @,
                               !.passedLater = @ \/ (seen.calls > 0 /\ o = "passed"),
                               !.failed = @ \/ o = "failed",
                               !.calls = @ + 1]
  /\ pc' = "teardown"
  /\ UNCHANGED <<plan, pos, attempt, held, expired, fixtures, final, red>>

\* SetupState.teardown_exact(nextitem) on a stack s with finalizers f: what of
\* the stack is kept, the longest part the next item's chain starts with.
Agreed(s, chain) == {i \in DOMAIN s \cap DOMAIN chain : \A j \in 1..i : s[j] = chain[j]}
Kept(s, chain)   == SubSeq(s, 1, Cardinality(Agreed(s, chain)))
TeardownExact(s, f, chain) ==
  LET k == Kept(s, chain)
  IN  /\ stack' = k
      /\ fin' = f \cap Range(k)
      /\ alive' = alive \ (f \ Range(k))

\* Mutated form: the finalizers are not taken off the stack for the reruns.
SuspendNothing(m) == suspended' = suspended /\ TeardownExact(stack, fin, NextChain)

\* suspend_item_finalizers and restore_item_finalizers, then pytest's teardown.
Suspend(m) ==
  IF item \in Range(stack)
    THEN LET nodes == Range(stack) \ {item}
             known == {e[1] : e \in suspended[m]}
         IN  /\ suspended' = [suspended EXCEPT
                  ![m] = @ \cup {<<c, c \in fin>> : c \in nodes \ known}]
             /\ TeardownExact(<<item>>, {}, NextChain)
    ELSE suspended' = suspended /\ TeardownExact(stack, fin, NextChain)

Missing(m) == {e[1] : e \in suspended[m]} \ Range(stack)
RestoredStack(m) ==
  stack \o (IF Session \in Missing(m) THEN <<Session>> ELSE <<>>)
        \o SetToSeq(Missing(m) \ {Session})
RestoredFin(m) ==
  (fin \ {e[1] : e \in suspended[m]}) \cup {e[1] : e \in {x \in suspended[m] : x[2]}}

Restore(m, chain) ==
  /\ suspended' = [suspended EXCEPT ![m] = {}]
  /\ TeardownExact(RestoredStack(m), RestoredFin(m), chain)

TornDown(o) ==
  /\ Reported("teardown", o)
  /\ pc' = "after"
  /\ seen' = [seen EXCEPT !.phaseFailed = @ \/ o = "failed"]
  /\ UNCHANGED <<plan, pos, attempt, held, expired, retry, created, logged>>

TeardownPlainly ==
  /\ pc = "teardown"
  /\ \A m \in Mechanisms : ~WantsRerun(m)
  /\ TeardownExact(stack, fin, NextChain)
  /\ \E o \in {"passed", "failed"} :
       TornDown(o) /\ metrics' = [m \in Mechanisms |-> Filled(m, "teardown", o)]
  /\ UNCHANGED suspended

\* _prepare_next_rerun: the first teardown sets the deadline and decides whether
\* the test is too slow; only then do finalizers move.
TeardownTooSlow(m) ==
  /\ pc = "teardown" /\ WantsRerun(m) /\ ~metrics[m].deadline
  /\ metrics' = [metrics EXCEPT ![m].deadline = TRUE, ![m].tooSlow = TRUE]
  /\ TeardownExact(stack, fin, NextChain)
  /\ \E o \in {"passed", "failed"} : TornDown(o)
  /\ UNCHANGED suspended

\* Mutated form: the attempt that rescues a test is not taken for its last.
RestoresOnlyIfFlagged(m) == metrics[m].last

RestoresAtTeardown(m) == metrics[m].last \/ (m = "retrier" /\ item \in rescued)

TeardownForRerun(m) ==
  /\ pc = "teardown" /\ WantsRerun(m)
  /\ metrics' = [metrics EXCEPT ![m].deadline = TRUE]
  /\ IF RestoresAtTeardown(m) THEN Restore(m, NextChain) ELSE Suspend(m)
  /\ \E o \in {"passed", "failed"} : TornDown(o)

-----------------------------------------------------------------------------
\* Mutated form: a retry's call is logged like any other report.
LoggedAsUsual(phase) ==
  CASE attempt = "first" /\ item \in Eligible -> "none"
    [] attempt = "detector" /\ plan.mode # "new" /\ phase = "call" /\ reports[phase] # "none"
         -> "rerun"
    [] OTHER -> reports[phase]

\* The outcome the report of a phase is logged with once the attempt is over,
\* "none" when it is not logged then.
LoggedAs(phase) ==
  CASE attempt = "first" /\ item \in Eligible -> "none"
    [] attempt = "detector" /\ plan.mode # "new" /\ phase = "call" /\ reports[phase] # "none"
         -> "rerun"
    [] attempt = "retrier" /\ phase = "call" -> "none"
    [] OTHER -> reports[phase]

AttemptLog == [p \in Phases |-> LoggedAs(p)]

\* Mutated form: a rescued failure is logged as the failure it was.
HeldLogUnswapped(reps) == reps

\* _report_held_back_attempt: a rescued failure is logged as a pass.
HeldLog(reps) ==
  [p \in Phases |-> IF p = "call" /\ item \in rescued /\ reps[p] = "failed"
                      THEN "passed" ELSE reps[p]]

LogReport(f, p, log) ==
  IF log[p] = "none" THEN f
  ELSE Record(f, item, [when |-> p, outcome |-> log[p], wasxfail |-> FALSE, quarantined |-> FALSE])

Folded(f, log) ==
  LogReport(LogReport(LogReport(f, "setup", log), "call", log), "teardown", log)
Failed(log)    == \E p \in Phases : log[p] = "failed"
Results(log)   == IF log["call"] \in Outcomes THEN 1 ELSE 0

WantsDetection ==
  /\ attempt \in {"first", "detector"} /\ HasExecuted("detector")
  /\ ~metrics["detector"].tooSlow /\ ~metrics["detector"].last

WantsRetry ==
  /\ ~WantsDetection
  /\ WantsRerun("retrier") /\ ~metrics["retrier"].tooSlow /\ ~metrics["retrier"].last
  /\ attempt = "retrier" => reports["call"] # "none" /\ item \notin rescued

\* Mutated form: the executions are compared with the cap after the rerun.
ReachedLimitLate(m) ==
  (m = "retrier" /\ item \in rescued) \/ expired \/ metrics[m].count >= MaxExecutions

\* Mutated form: only the executions are counted.
ReachedLimitByCount(m) ==
  (m = "retrier" /\ item \in rescued) \/ metrics[m].count + 1 >= MaxExecutions

ReachedLimit(m) ==
  \/ m = "retrier" /\ item \in rescued
  \/ expired
  \/ metrics[m].count + 1 >= MaxExecutions

Rerun(m) ==
  /\ pc = "after"
  /\ IF m = "detector" THEN WantsDetection ELSE WantsRetry
  /\ metrics' = [metrics EXCEPT ![m].last = ReachedLimit(m)]
  /\ held' = IF attempt = "first" THEN reports ELSE held
  /\ attempt' = m /\ reports' = NotRun /\ pc' = "setup"
  /\ final' = Folded(final, AttemptLog)
  /\ red' = (red \/ Failed(AttemptLog))
  /\ seen' = [seen EXCEPT !.results = @ + Results(AttemptLog)]
  /\ UNCHANGED <<plan, pos, expired, retry, fixtures, hasError>>

\* Mutated form: the suspended finalizers are forgotten instead of put back.
PutBackNowhere ==
  suspended' = [suspended EXCEPT !["retrier"] = {}] /\ UNCHANGED <<stack, fin, alive, created>>

\* An attempt of the retrier that never reached its call ends the loop; its
\* finalizers go back on the stack, and no teardown follows.
PutBack ==
  /\ suspended' = [suspended EXCEPT !["retrier"] = {}]
  /\ stack' = RestoredStack("retrier") /\ fin' = RestoredFin("retrier")
  /\ UNCHANGED <<alive, created>>

FinishTest ==
  /\ pc = "after" /\ ~WantsDetection /\ ~WantsRetry
  /\ IF attempt = "retrier" /\ reports["call"] = "none" THEN PutBack ELSE UNCHANGED fixtures
  /\ LET first == IF attempt = "first" THEN reports ELSE held
         later == IF item \in Eligible THEN HeldLog(first) ELSE NotRun
     IN  /\ final' = Folded(Folded(final, AttemptLog), later)
         /\ red' = (red \/ Failed(AttemptLog) \/ Failed(later))
         /\ seen' = [seen EXCEPT !.results = @ + Results(AttemptLog) + Results(later)]
  /\ hasError' = (hasError \/ (item \in Eligible /\ item \notin rescued /\ seen.failed))
  /\ pos' = pos + 1 /\ pc' = "idle"
  /\ UNCHANGED <<plan, attempt, reports, held, loop, retry>>

\* The clock, which only matters once the item has a deadline.
Expire ==
  /\ pc \notin {"idle", "done"} /\ ~expired
  /\ \E m \in Mechanisms : metrics[m].deadline
  /\ expired' = TRUE
  /\ UNCHANGED <<plan, running, metrics, retry, fixtures, logged, seen>>

\* pytest's own session finish tears down whatever is on the stack.
SessionFinish ==
  /\ TeardownExact(stack, fin, <<>>)
  /\ pc' = "done"
  /\ UNCHANGED <<plan, pos, attempt, reports, held, loop, retry, suspended, created, logged, seen>>

EndSession == pc = "idle" /\ pos > Len(Order) /\ SessionFinish

\* Ctrl-C, or pytest.exit() from a test: the loops are left where they are.
Interrupt == pc \in {"setup", "call"} /\ SessionFinish

Step ==
  \/ StartTest \/ Setup \/ Call \/ TeardownPlainly
  \/ \E m \in Mechanisms : TeardownTooSlow(m) \/ TeardownForRerun(m) \/ Rerun(m)
  \/ FinishTest \/ EndSession

Next == Step \/ Expire \/ Interrupt

Spec == Init /\ [][Next]_vars

\* pytest's loop keeps going and time passes; nobody has to interrupt it.
FairSpec == Spec /\ WF_vars(Step) /\ WF_vars(Expire)

-----------------------------------------------------------------------------
MetricsTypes ==
  metrics \in [Mechanisms -> [kept : BOOLEAN, count : Nat, deadline : BOOLEAN,
                              tooSlow : BOOLEAN, last : BOOLEAN]]
RunningTypes ==
  /\ plan \in Plans
  /\ pos \in 1..(Len(Order) + 1)
  /\ pc \in {"idle", "setup", "call", "teardown", "after", "done"}
  /\ attempt \in {"first"} \cup Mechanisms
  /\ reports \in [Phases -> Outcomes \cup {"none"}]
  /\ held \in [Phases -> Outcomes \cup {"none"}]
  /\ expired \in BOOLEAN
FixtureTypes ==
  /\ stack \in Seq(Collectors \cup Tests)
  /\ fin \subseteq Collectors /\ fin \subseteq Range(stack)
  /\ suspended \in [Mechanisms -> SUBSET (Collectors \X BOOLEAN)]
  /\ alive \subseteq Collectors
  /\ created \in [Collectors -> Nat]
LogTypes ==
  /\ failedInitially \subseteq Tests /\ rescued \subseteq failedInitially
  /\ final \in [Tests -> Status]
  /\ red \in BOOLEAN /\ hasError \in BOOLEAN
HistoryTypes ==
  seen \in [first : Outcomes \cup {"none"}, passedLater : BOOLEAN, failed : BOOLEAN,
            phaseFailed : BOOLEAN, calls : Nat, results : Nat]

\* What the hooks keep about the item in hand, the session and its fixtures.
TypeOK == MetricsTypes /\ RunningTypes /\ FixtureTypes /\ LogTypes /\ HistoryTypes

\* No rerun, of either mechanism, strands a finalizer: whatever sequence of attempts
\* a test goes through, when the next test's turn comes no mechanism still holds what
\* it took off pytest's stack, and a session that was not interrupted ends with every
\* higher-scoped fixture it set up torn down.
NoFinalizerIsLost ==
  /\ pc = "idle" => \A m \in Mechanisms : suspended[m] = {}
  /\ pc = "done" /\ pos > Len(Order) => alive = {}

\* How often, up to the item in hand, the session has come to the tests under c:
\* once to its own, and to a module's once unless they were ordered apart.
Under(c, i) == c \in Range(Chain(Order[i]))
Visits(c) ==
  Cardinality({i \in DOMAIN Order : i <= pos /\ Under(c, i) /\ (i > 1 => ~Under(c, i - 1))})

\* The fixtures of a test's module and session outlive its reruns: however many
\* attempts its tests take, nothing sets one up again before the session has left
\* the tests under it and come back, which only an order that mixes modules does.
FixturesOutliveReruns ==
  \A c \in Collectors : created[c] <= Visits(c)

\* The last test that ran to its end.
Latest == Order[pos - 1]
AtTestEnd == pc = "idle" /\ pos > 1

\* What a session must conclude about a test from its attempts: in `new' mode a
\* detected test fails on any failed attempt; a test retry answers for fails when
\* it failed first and no later attempt passed; any other on its first attempt.  A
\* fixture that fails in any attempt is an error of its own.
FailsByContract(t) ==
  \/ seen.phaseFailed
  \/ IF plan.mode = "new" /\ t \in plan.detected THEN seen.failed
     ELSE IF t \in plan.flaky THEN seen.first = "failed" /\ ~seen.passedLater
     ELSE seen.first = "failed"

\* The verdict's final status of a test, folded from reports held back, swapped or
\* left unlogged, and logged after later attempts' ones, is that conclusion; and the
\* test is reported once, however often it ran, except where every failure gates: a
\* second result, or none, would be counted by pytest and junit.
VerdictIsTheContract ==
  AtTestEnd =>
    /\ final[Latest] = "failed" <=> FailsByContract(Latest)
    /\ ~(plan.mode = "new" /\ Latest \in plan.detected)
         => seen.results = (IF seen.calls > 0 THEN 1 ELSE 0)

\* A test never executes more often than the context allows; two executions are
\* always possible, since the cap is only looked at before a rerun that then runs.
WithinTheCap ==
  seen.calls <= (IF MaxExecutions > 2 THEN MaxExecutions ELSE 2)

\* Every session ends, also when a rerun's setup keeps failing, which advances no
\* counter: it is the deadline that ends flaky detection's loop then.
SessionEnds == <>(pc = "done")

-----------------------------------------------------------------------------
\* __init__.py:821-823: the session's error state follows the verdict, rather
\* than marking the session span errored for a run pytest exits 0 on.
ErrorFollowsTheVerdict ==
  AtTestEnd /\ hasError => red

\* __init__.py:895-897: the finalizers suspended for a rerun that is no longer
\* coming are put back -- where pytest expects them, which between two tests is a
\* stack that holds nothing but collectors of the next one.
NextTestFindsItsOwnStack ==
  AtTestEnd /\ pos <= Len(Order) => Range(stack) \subseteq Range(Chain(item))
=============================================================================
