# Formal models of mergify-ci-integrations

TLA+ models, TLC configurations and TLAPS proofs of the test integrations that
report CI sessions to Mergify: a pytest plugin, a vitest and a Playwright
reporter and an RSpec gem, over a shared Rust client. Paths below are relative
to `src/`. `PROJECT.json` names, for every definition, the lines it translates.

The integrations make three promises that are hard to keep together:

- **they may only ever cost time**: whatever the server, the disk or a worker
  does, no test is skipped unless Mergify said so about this very collection,
  and no test runs twice where a user could see it;
- **what they say is true**: the session verdict, from which the *next* rerun of
  the job is answered, and the spans describe the run that happened;
- **they answer for reruns**: a flaky test rerun in place must be reported once,
  with the outcome the product promises, and pytest's fixtures must not notice.

## 1. Inventory

| component | state it keeps | operations | what is hard |
|---|---|---|---|
| pytest: test selection under xdist (`clients/pytest-mergify/.../__init__.py`, `test_selection.py`) | controller: nodes handed a path, first collection, answer, kept ids, could-not-read, crashed, withheld; worker: what it read | configure, configure_node, collection_finished, testnodedown, runtest_protocol, sessionfinish, atexit | three kinds of process that only share a file and xdist's events; crashes, replacements, remote gateways, interruptions |
| pytest: decision on an answer (`test_selection.py`) | answer, not-applied reason | `__post_init__`, `resolve` | all-or-nothing on partly unknown ids; declared reasons |
| pytest: session verdict fold (`session_verdict.py`) | one status per test | `record_logged_report`, counts | reports come in pytest's order, not the attempts' |
| pytest: rerun loops (`rerun.py`, `flaky_detection.py`, `test_retry.py`) | metrics, deadlines, suspended finalizers, rescued tests, held-back reports | the protocol, setup, teardown, makereport, logreport hooks | two mechanisms on one item; pytest's fixture stack; a verdict swapped after the fact; deadlines |
| pytest: quarantine (`quarantine.py`) | quarantined ids | mark, report | the marker and the verdict's reading of it |
| pytest: session, spans, tracing (`tracing.py`, `ci_insights.py`) | span per test, session span | start, finish, export | order of verdict and export |
| API client (`crates/mergify-ci-api/src/client.rs`, `verdict.rs`, `trace.rs`) | a call's locals | three fetches, `send_verdict`, `upload` | lost answers and retries, pagination loops, 413, splitting |
| budget engine (`crates/mergify-ci-api/src/budget.rs`) | none | plan, retry_plan, shares | rounding, division by what is left |
| collection fingerprint (`crates/mergify-ci-core/src/fingerprint.rs`) | none | fingerprint | order-insensitive, repetition-sensitive |
| CI detection (`crates/mergify-ci-core/src/`) | none | reads the environment and git | pure |
| language bindings | none | marshal values | none of ours |
| TypeScript core (`clients/ts/packages/core/src/`) | detector metrics, verdict fold, application of an answer | compute repeats, record, fold, apply | zero durations, caps, precedence |
| vitest runner and reporter (`clients/ts/packages/vitest/src/`) | tries per test, subset provided to workers, fold | runner hooks, reporter hooks | runner and reporter in different processes; repeats decided before the test ran; absorption and quarantine of one failure |
| Playwright reporter, set-up, fixture (`clients/ts/packages/playwright/src/`) | state file, slice, phase-1 outcomes | preprocess, onBegin, onTestEnd, onEnd, fixture | several processes, shards, an emptied run's exit status |
| RSpec plugin (`clients/rspec-mergify/lib/mergify/rspec/`) | filtered examples, metrics, verdict | select_examples, around hook, formatter | a fault must cost only the reduction; state of a rerun example |

How they interact: a framework's hooks feed the client's own state; before the
first test the client asks the API for the flaky context, the quarantine list
and (with the collection's fingerprint) the selection; while tests run it folds
what the framework *logs*; at the end it sends the verdict and only then uploads
the trace. Under xdist the controller asks and the workers act, over a file.

What makes each correct: selection - no skip on another collection's answer, a
verdict of a reduced run only over a run that was reduced; rerun loops - one
result per test, equal to the contract's, and no fixture torn down early, twice
or never; API client - true receipts, complete and disjoint batches, bounded
retries; the TypeScript and Ruby clients - the same, in their frameworks'
order of events. `PROJECT.json` lists the hazards, each at its line, with the
properties that cover it or why none does yet.

## 2. Plan

Modules in the order of what matters most. A check mark means written.

1. ✓ `TestSelection` (the decision, pure) and `SessionVerdict` (the fold, pure);
2. ✓ `XdistSelection`, which composes both: the whole distributed protocol, with
   its proofs in `XdistSelection_proofs`;
   ✓ `SelectionContract`, the abstract specification of a selected run, which
   `XdistSelection` implements (`XdistSelection_proofs`): the same contract is
   what all four clients promise, and the models of the other three implement it;
3. ✓ `PytestRerun`, on the same `SessionVerdict`: one test through both rerun
   mechanisms, and pytest's fixture stack (`PytestRerun_proofs`);
4. ✓ `ApiClient`: a session's calls, their retries and the upload
   (`ApiClient_proofs`);
5. ✓ `TsSelection`, `TsVerdict`, `TsFlakyDetector` (what the two TypeScript
   integrations share, pure; proofs in `TsVerdict_proofs`) and `VitestRun`, on
   top of them: the reporter in the main process and the runner in the workers
   (`VitestRun_proofs`);
6. ✓ `PlaywrightRun`: the global setup, the reporter and the workers' fixture over
   a state file, shard listing, both phases of flaky detection, `onEnd`
   (`PlaywrightRun_proofs`). It and `VitestRun` implement `SelectionContract`, as `XdistSelection` does;
7. ✓ `RSpecRun`: selection and its fail-open rescue, the loop around an example,
   the quarantine's after hook (`RSpecRun_proofs`); it implements `SelectionContract`;
8. ✓ `BudgetEngine`: `plan`, `retry_plan` and the shares as pure operators, and
   `RerunBudget`, the pytest session that spends them, against the promise that a
   mechanism stays within its budget but for the rerun already under way
   (`RerunBudget_proofs`; the TypeScript repeat budget is in `TsFlakyDetector`).

Runs: 12, seven passing and five violations that back the findings.

Theorems: those of section 5, among them every safety property of every passing run.
Left: pytest's quarantine marker as a part of `PytestRerun`; an RSpec session that spends the budget it plans, on `BudgetEngine`, as `RerunBudget`
does for pytest.

## 3. The models

### TestSelection, SessionVerdict

`Keep(a, c)`, `NotApplied(a, c)` and `Refuses(a)` are `TestSelection.resolve`
on answer `a` and collected sequence `c`; `None` is `Everything`. `Fingerprint`
is the multiset of ids, the hash being taken to be injective. Any selection
value the client predates is `"newer"`. `SessionVerdict!Record` is
`record_logged_report`: the mapping of a report to a status and the precedence
that never downgrades.

### XdistSelection

One controller, `Workers` and the `Spares` xdist may start in place of crashed
ones. Variables and code:

| variable | code |
|---|---|
| `disabled`, `handed`, `collected`, `answer`, `keep`, `couldNotRead`, `crashed`, `differ` | `XdistSelectionController` and the controller's `TestSelection` |
| `file`, `diskFailed` | the answer file; whether writing it met an `OSError` |
| `failedOnSkipped`, `withheld`, `notApplied`, `echo`, `final`, `sent` | the plugin's and `MergifyCIInsights`' account of the run |
| `wphase`, `wcoll`, `wread`, `wkeep` | each worker: its life cycle, its collection, what it made of the file |
| `ran`, `skipped`, `crashItem` | history the properties speak about |
| `red` | history: pytest has a failure of its own to exit non-zero over (a failed report, the refusal's `UsageError`, collections xdist will not schedule) |

Actions: `ConfigureNode`/`ReplaceNode` (`pytest_configure_node`, which xdist also
calls for a replacement); `FirstCollectionDisabled`, `FirstCollectionAsks`,
`FirstCollectionRefused`, `LaterCollection` (the branches of
`pytest_xdist_node_collection_finished`, asking, publishing and reporting
included, in one step, as the hook is); `Schedule` (xdist's: every worker has
reported and, under `load`, the collections agree) and `RefuseToSchedule` (they
do not: xdist logs a failed collection and hands out nothing); `RunTest`, `SkipTest`,
`CrashInTest` (the worker loads the file at its first test, so the load is part
of each); `CrashIdle`, `WorkerFinish`, `NodeDown`, `NodeErrorDown`
(`pytest_testnodedown`); `SessionFinish` (settle, finalize); `AtexitBackstop`
(finalize without the settling).

Abstracted: a test is passed or failed, its teardown as part of it, except for
the teardown of a skipped test, which is where earlier fixtures come down and
which has consequences of its own. Which worker gets which test is free. The
bounded wait of a worker is one choice: the file shows in time or not.

### SelectionContract

What the whole of it amounts to, for a client of any shape: it decides once,
before the first test; from then on it executes what it likes but leaves out only
what the decision leaves out (one test at a time, or all of them at once); it
concludes once, and nothing runs after. A
conclusion that states the reduction needs a run that executed nothing else.
`XdistSelection!Contract` maps `decided` to "a collection was recorded",
`executed` and `leftOut` to what all workers ran and skipped, and `conclusion` to
"reduced" in a settled session that sent its verdict under a reduction *with
every worker's account in*. Without an account, or when the backstop flushed the
session, the mapping is "other", about which the contract says nothing: there
the code does not keep it (finding 1, and what section 6 says of an interrupted session).

`VitestRun` keeps it with `keep` the list the workers read with `inject()`,
`executed` the names of the cases that were started and `leftOut` those marked
deselected. `PlaywrightRun` keeps it with `keep` what the applied answer lets run,
`leftOut` the names of the run's own share that its suite lacks and `executed` the
names with an attempt that was not skipped. Both conclude "reduced" exactly when
the application they settle on has the outcome `empty` or `subset`. `RSpecRun` keeps
it with `leftOut` what its filters left and `select_examples` removed, from the start
of the suite on, and concludes "reduced" when its echo says so and the verdict was
not withheld.

### PytestRerun

One process. `Setup`, `Call`, `Teardown...` are pytest's phases of one attempt
with the hooks' work in each; `Rerun` is the head of either loop's next
iteration; `FinishTest` is what follows the loops (the held-back first attempt
logged last, the rescue swap, the session's error state); `Expire` is the clock;
`EndSession`/`Interrupt` end the session. pytest's `SetupState` is modelled as
its `stack` and the subset `fin` of it that holds a fixture's finalizer; `alive`
and `created` say what of the higher-scoped fixtures exists. `Suspend` and
`Restore` are `suspend_item_finalizers` and `restore_item_finalizers`. Metrics
hold what decides: kept, number of calls, deadline set, too slow, last. Times are
not numbers: "too slow" and "the deadline has passed" are choices. Of two names put
back on the stack the session's comes first, as `_suspended_item_finalizers` keeps the
stack's order; `RestoredStack` says so for stacks of a session and one module, which
are the model's. `Visits` is how often the session came to the tests under a
collector, against which `FixturesOutliveReruns` counts the set-ups of its fixture.

### BudgetEngine, RerunBudget

`BudgetEngine` is `budget.rs`, one operator per function, over natural numbers:
durations in milliseconds, ratios in percent, a share rounded down (the code has
floats, and rounds by no more than it would lose in one). `RerunBudget` is one
process that plans and spends: `context` and `run` are what the server said and
the circumstances; `metrics` and `left` are the item's `TestMetrics`, its deadline
as the time left to it; `used` and `processed` are `_get_used_budget_duration` and
`_count_processed_tests`; `failedInitially`, `rescued`, `exhausted` are the
retrier's; `paid` and `late` are history. Retry's loop looks at its deadline twice
(`test_retry.py:180`, then `rerun.py:315` through `super()`): `slip` is the time that
passes in between, and `late` remembers a stop only the second look saw. `FirstAttempt` is a test's first attempt
up to the teardown that sets its deadlines; `Rerun` the head and the body of either
loop; `FinishTest` what follows them; `Over` the end. A worker collects the whole
suite and is handed any part of it. `PytestRerun` has the same loops with deadlines
that pass at any time and with every phase of an attempt; here an attempt is one
outcome and one duration, and time is what is accounted for.

### ApiClient

The five calls of a session in the order the pytest client makes them. Fetches
are one request each, the quarantine listing one per page; the verdict and each
batch of the trace go through the retry policy (`post_gzipped`). The server may
do the work of a request whose answer is lost (`Works`). `pending` is the stack
of span intervals of `upload_with_cap`, split while their weight exceeds `Cap`.
The back-off between attempts and the wording of errors are left out.

### TsSelection, TsVerdict, TsFlakyDetector

`packages/core`. `FetchTestSelection` is what asking comes back as (every way of
failing is a full run with a reason); `ApplyToCollected` the application of an
answer to the collected identities, `SelectionEcho` and `FormatTestSelectionReport`
what the verdict and the terminal say of it (the block as the one of its texts that
is chosen, and its numbers). `Fold` is the verdict's map from identity to status
after any number of `record` calls: a status is never replaced by one of lower
precedence, so the fold of a *set* of pairs is well defined (`RecordFolds` proves
it). `BuildSessionVerdict` and `SendSessionVerdict` follow. `TsFlakyDetector` is
`flaky-detection.ts`: candidates by mode, the repeat budget, `recordOutcome`, and
with the two fetches of `quarantine.ts` and `flaky-detection.ts`.

### VitestRun

| variable | code |
|---|---|
| `fetching`, `quarantineList`, `flakyContext` | the promises `onInit` starts, and the reporter's fields they fill |
| `setupInstalled`, `provided` | `_configureRunner`: the setup file, and what `project.provide` hands to the workers |
| `selection`, `collection` | the reporter's answer; whether it owes a verdict |
| `file`, `hooksFailed`, `unhandled`, `stopped` | Vitest's: each file's life cycle, failed suite hooks, unhandled errors, a bail or a cancellation |
| `state`, `meta` | each case's result and `task.meta.mergify`, as the main process ends up seeing them |
| `tries`, `at`, `errors`, `metrics` | the runner's `TryState` and detector; where Vitest is in a test's repeats and retries; the errors it has counted |
| `final`, `verdict`, `receipt`, `application`, `echo`, `block`, `red` | what `onTestRunEnd` settles, sends, prints and exits with |
| `truth`, `raw` | history: what each repeat came to; the result before it was rewritten |

`QuarantineArrives` and `FlakyArrives` come in either order; `DoesNotAsk`,
`ShardSliceUnavailable`, `NoFingerprint` and `AsksForSelection` are
`onTestRunStart`; `ImportFile` (with `onBeforeRunSuite`'s walk), `ImportFails`,
`HookFails`, `DeselectTask` and `BeforeRunTask` (the two halves of
`onBeforeRunTask`), `Try` (`onBeforeTryTask`, then the test), `FinishTask`
(`afterRunTask`) and `FinishFile` are the workers, whose files run in parallel;
`UnhandledError` and `Stops` are Vitest's; `RunEnd` is `onTestRunEnd`. `env.runner`
is a user's own runner that overrides one of the hooks and does not call `super`.

### PlaywrightRun

| variable | code |
|---|---|
| `stateFile` | what the global setup leaves for the reporter and the workers |
| `selection`, `application`, `collection`, `excluded`, `sharding` | the reporter's fields after `preprocess` |
| `suite`, `detector` | `onBegin`: the cases Playwright runs, the context read from the file |
| `results`, `expected`, `annotated` | each case's attempts, `expectedStatus`, the quarantine annotation |
| `runErrors`, `halted` | `onError`; an interruption, the global timeout, `maxFailures` |
| `caught`, `phase1`, `metrics`, `reruns` | `quarantinedCaught`, phase 1's outcomes, the detector, what the rerun subprocess left |
| `final`, `verdict`, `receipt`, `echo`, `block`, `reported`, `status` | `onEnd`, and the status Playwright is handed back |
| `kept`, `witnessed` | history: what the applied answer lets run; the outcomes of final attempts |

`GlobalSetup` writes the file, or leaves one that is of no use. `DoesNotAsk`,
`SliceUnavailable`, `ShardingTaken`, `AsksNothing` and `AsksForSelection` are the
ways through `preprocess`; the last two may stop halfway, where `exclude` throws (in
the first of them while the other shards' cases are taken out, so that the leg runs
more than its share).
Under `--no-deps` (`env.deps` false) no setup or teardown project is loaded, so an
emptied suite is left without a test, which is Playwright's "No tests found".
`OnBegin`; `Attempt` (Playwright's attempt, the fixture's teardown and
`onTestEnd`); `Halts`, `RunError`; `RunEnd` (`onEnd`: phase 2, the status, the
verdict, the block). Playwright's `outcome()`, its dependencies between projects
and its serial groups are modelled, since what they leave unstarted or skipped is
what the verdict has to account for.

### RSpecRun

| variable | code |
|---|---|
| `env`, `context`, `quarantined` | the process's environment; what `CIInsights` fetched when the gem was required |
| `filtered` | `RSpec.world.filtered_examples` before the gem narrows it |
| `phase`, `attached` | how far the suite hooks are; whether the formatter listens |
| `selection`, `keep`, `echo` | `TestSelection` after `resolve`, what it returned, `@selection_echo` |
| `session` | the ids `prepare_for_session` plans for |
| `group`, `status`, `quit`, `outside` | RSpec's: its groups, each reported result, `wants_to_quit`, `non_example_failure` |
| `example` | the one in hand: the exception, pending message and notes its attempts left on it, and `rerun`'s locals |
| `flaky` | `metadata[:mergify_flaky]` |
| `verdict`, `receipt`, `red` | what the formatter's `stop` sends, what became of it, RSpec's exit code |
| `seen`, `interrupted` | history: how the attempts of each example ended; a Ctrl-C |

`EarlierHookFails`, `DoesNotAsk`, `AsksForSelection`, `SuiteStarts` and
`LaterHookFails` are the suite hooks in the order RSpec runs them. `FirstAttempt` and
`Rerun` are `run_detecting_flakiness` and a turn of `rerun`'s loop; what an attempt
leaves is `AfterAttempt`: the author's exception, the quarantine's after hook, RSpec's
verification of mocks *after* it, the note `run_attempt` takes. An `around` hook of
the author's may raise past all of that. `FinishExample` is `Example#finish` and the
formatter; `RunEnd` the end of the suite and `stop`. A deadline is a choice here; the
arithmetic of shares is `BudgetEngine`'s, whose plan says which examples are rerun.

## 4. The runs

| run | module, configuration | shows | size |
|---|---|---|---|
| `xdist_selection` | 2 workers, 1 replacement, 2 tests, 2 collections, 4 kinds of answer, all circumstances | `SkipsOnlyTheLeftOut`, `VerdictDescribesTheRun`, `NoFalseReduction`, `RedRunHasAFailure`, `NoWorkerWaitsInVain`, `RefusalRunsNothing`, and `ImplementsContract` | 3.8 M states |
| `xdist_unsettled` | the same | finding 1: the backstop sends what was never settled | counterexample |
| `pytest_rerun` | 3 tests in 2 modules, 8 plans, at most 3 executions | `TypeOK`, `NoFinalizerIsLost`, `FixturesOutliveReruns`, `VerdictIsTheContract`, `WithinTheCap`, and that every session ends | 41 k states |
| `pytest_error` | the same | finding 2: the span is in error over a green run | counterexample |
| `pytest_stack` | the same | finding 3: the next module's first test is refused | counterexample |
| `rerun_budget` | 3 tests, 3 contexts, 6 circumstances (new, unhealthy, retry alone, a timeout, workers), attempts of 1 or 3 ms, slips of 0 or 1 | `NobodyPaysTwice`, `GateStands`, `ShortfallIsSaid`, `BudgetBinds`, `NobodyIsStarved` | 323 k states |
| `api_client` | 3 pages in 5 listings, 3 attempts, 4 traces | `ReadyListIsWhole`, `ReceiptIsTrue`, `UploadIsExact`, and that the calls end | 207 k states |
| `vitest_run` | 3 tests in 2 files, one identity shared by both, 1 repeat, 1 retry, 6 environments, 5 answers | `GreenHonoursTheAnswer`, `VerdictAgreesWithExit`, `OutcomesAreTheRepeats`, `AbsorbedNeverReadsGreen`, `QuarantineHolds`, `ReportIsTrue`, and `ImplementsContract` | 1.75 M states |
| `vitest_bail` | the same | finding 4: a bailed run reads complete | counterexample |
| `playwright_run` | 4 cases: a login, one test in two projects, a serial pair; 9 environments, 4 answers | `GreenHidesNothing`, `VerdictNamesEveryFailure`, `NothingUnrunReadsDone`, `AbsorbedIsCaught`, `FlakyIsEarned`, `ReportIsTrue`, and `ImplementsContract` | 304 k states |
| `playwright_setup` | the same | finding 5: a failed setup reads complete | counterexample |
| `rspec_run` | 3 examples in 2 groups, 3 environments, 3 filters, 5 answers, 3 executions | `OneRuleDecides`, `FlakyIsEarned`, `VerdictAgreesWithExit`, and `ImplementsContract` | 1.24 M states |

**Bounds.** `xdist_selection`: a second worker is what makes collections differ,
accounts incomplete and a file read by somebody else's collection; one spare is
what lets a replacement act on an answer it did not see decided; two tests let
one be kept and one left out. The proofs of section 5 drop these bounds
altogether. The two workers are symmetric, so the configuration declares it; a
remote gateway is tried on one of them, no other circumstance tells them apart.
`pytest_rerun`: a test in mid-module, the last of its module and the first of
the next are the three places a finalizer can go wrong; the cap of 3 leaves room
for a rerun that is not the last. No fixture is set up more often than the session
comes to its collector and the calls never exceed the cap, so nothing is cut off by a
constraint: the space is finite. The proofs hold for every suite, in any order (one
that mixes modules included), every plan and every cap.
`rerun_budget`: a test of the baseline, a known flaky one and one that may be new,
unhealthy and flaky at once are what the two plans can disagree about; a duration
of 3 against budgets of 3 to 6 fills a share with one or two attempts, and one of 1
leaves room for the execution cap of 3 to come first; a slip of 1 is enough for a
deadline to pass between two looks; the proofs drop all of it.
`api_client`: three pages make loops onto the first, an inner and the same page;
the traces need no split, one split, and several, with one span over the cap;
3 attempts against the source's 6 are a first, a middle and a last. `Read` stops
recording pages one past the listing's length, which every loop has been noticed
by: a list that long already holds a page twice.
`vitest_run`: two files are what runs in parallel, fails to import or is bailed
out of; a test whose identity the other file shares is what makes counting by case
and by identity differ; one repeat and one retry give every order of a failed try,
a retried one and a repeat; the answers are a subset that was collected, one that
was in part, an empty one, a refusal and no answer. `playwright_run`: a setup
project and a dependent one, an identity two projects share, and a serial pair
with one retry are the ways a test goes unstarted, is reported twice or is run
again after it passed; a shard runs two of the four cases; one environment loads no
setup, so that an empty answer empties the suite, "No tests found" comes alone and
with other errors, and the rewriting to `passed` happens; the rerun leaves at most
one line per test. `rspec_run`: a group of two, one of which is rerun and may be
quarantined, and a group of one are what context hooks, fail-fast and an interruption
can part; the list is fetched or is not, so that in either mode the rerun example is
seen both in and out of quarantine; the environments are a merge-queue run, a pull request that stops at its
first failure and a job without a name; three executions are a first, a middle and a
last. These spaces are finite without a constraint, and the proofs of
section 5 hold for any suite, retries and number of repeats.

**Fairness.** `XdistSelection` states none: only safety is claimed, and any
process may stop at any time. `PytestRerun`'s `FairSpec` is weak fairness of
`Step` (pytest's own loop and the hooks it calls, one thread that nothing
blocks) and of `Expire` (time passes); interruptions are not fair. Without the
clock `SessionEnds` is false, and that is the point of the property: the
executions of a rerun whose set-up keeps failing are not counted.
`VitestRun`, `PlaywrightRun`, `RSpecRun` and `RerunBudget` state none either: they end
when Vitest, Playwright, RSpec or pytest end, and nothing of ours bounds a test. `ApiClient` has weak fairness of `Next`: the client is sequential and each of
its requests is bounded by a timeout; what the server answers is not
constrained. No run needs strong fairness.

**Deadlock** is checked in the xdist, vitest, Playwright, RSpec and budget runs (a finished
session has an explicit `Exited`, `Ended` or `Over` step). In `PytestRerun` and `ApiClient` a session that is over
has nothing left to do, so the check is off there and termination is stated as a
property instead.

**Violations.** The five runs that expect one each state what a comment or a
docstring of the source says:

1. `NothingLeavesUnsettled` - `_settle_xdist_selection` says it decides what the
   run may say "before anything leaves"; the atexit backstop
   (`__init__.py:108-115`) exports without it.
2. `ErrorFollowsTheVerdict` - `hasError` is set over a test that passed first and
   failed an unlogged rerun (`__init__.py:824`), on a session pytest exits 0 from.
3. `NextTestFindsItsOwnStack` - the finalizers of a retry that broke before its
   call are restored after the last teardown that could have run them
   (`__init__.py:898`); if the next test is in another module, pytest refuses its
   set-up.
4. `BailedReadsIncomplete` - the comment at `vitest/src/reporter.ts:763-765` says the
   tests a bailed run never finished make it read as incomplete, so that its retry
   runs in full; the count (`reporter.ts:707`) is of the modules Vitest hands over,
   and a file the bail left unimported is in neither the count nor the fold.
5. `FailedSetupReadsIncomplete` - the README of the Playwright package (lines 175-178)
   says a setup failure makes the next attempt run everything. The fold
   (`playwright/src/reporter.ts:866`) leaves the setup out, being read-only, and its
   unstarted dependents too; where another project passed a test of the same
   identity nothing is missing, and the verdict is complete and names no failure.

`TypeOK` is checked in the run of `PytestRerun`; every module's is a theorem of section 5.

Every property of a passing run has a mutant: a plausible slip in one mapped
definition (written beside it as "Mutated form") under which TLC finds the
property violated.

## 5. The proofs

For every set of workers, spares and tests, every collection, every answer and
every circumstance, from the assumptions `ConstantsAssumption` (workers and
spares are disjoint, the constants have their kinds) and `EverythingIsNoSet` -
and likewise, for every suite, environment, retry count, server and user's runner,
`VitestConstants` (the suite is finite and has a test: a refused run over an empty
collection would read complete), `PlaywrightConstants` and `EverythingIsNoTestSet`,
for every context, circumstance and duration `BudgetConstants` (the tests are
finite, durations positive, the constants have their kinds), for every suite and
process `RSpecConstants` (the same), for every order of the items, plan and cap
`RerunAssumption` (an item runs once, nodes of different kinds differ, without flaky
detection nothing is detected), and for every server `ClientAssumption` (at least
one attempt, a finite listing):

| theorem | says |
|---|---|
| in `XdistSelection_proofs`: `AllOrNothing` | a served subset is honoured whole or not at all |
| `DeclinedSubsetIsDeclared` | one that is not honoured is declared, with a reason |
| `TypeCorrect` | `Spec => []TypeOK` |
| `Invariance` | `Spec => []IInv` |
| `NeverSkipsWronglyOnAWorker` | `[]SkipsOnlyTheLeftOut` |
| `SentVerdictDescribesTheRun` | `[]VerdictDescribesTheRun` |
| `NoReductionIsClaimedFalsely` | `[]NoFalseReduction` |
| `NoCleanVerdictOverARedRun` | `[]RedRunHasAFailure`, which excepts a run pytest stopped before its first test |
| `OnlyADiskErrorKeepsWaiting` | `[]NoWorkerWaitsInVain` |
| `RefusedRunRunsNothing` | `[]RefusalRunsNothing` |
| `Refinement` | `Spec => ImplementsContract` |
| in `TsVerdict_proofs`: `RecordFolds` | recording reports one after another is `Fold` of their set, so the verdict does not depend on the order they came in |
| `SubsetWholeOrNotAtAll` | a served subset is honoured whole or not at all |
| `CountsAddUp` | no test is counted by two of the verdict's lists |
| in `VitestRun_proofs`: `TypeCorrect`, `Refinement` | `[]TypeOK`, `ImplementsContract` |
| and `OutcomesEarned`, `AbsorptionEarned`, `QuarantineEarned`, `GreenEarned`, `ReportEarned`, `VerdictEarned` | each of the other properties of `vitest_run` |
| in `PlaywrightRun_proofs`: `TypeCorrect`, `Refinement`, `BlockTold` | `[]TypeOK`, `ImplementsContract`, `[]ReportIsTrue` |
| and `GreenEarned`, `FailuresAreNamed`, `AbsorbedAreCaught`, `UnrunReadsUnrun`, `FlakyMarksEarned` | each of the other properties of `playwright_run` |
| in `PytestRerun_proofs`: `TypeCorrect`, `FinalizersAreKept`, `FixturesAreKept`, `VerdictIsKept`, `CapIsKept` | `[]TypeOK`, and each of the other safety properties of `pytest_rerun` |
| and `Invariance`, `ExitIsTheFold` | `[]IInv`; pytest logged a failure exactly when some final status is one |
| and `StackIsTheNextTests`, `ErrorFollowsOneAnswer` | findings 3 and 2 have no other cause than the one they name |
| in `RerunBudget_proofs`: `Types`, `OneMechanismPays`, `TheGateStands`, `EveryShortfallIsSaid`, `TheBudgetBinds`, `AnEqualPartIsLeft` | each of the properties of `rerun_budget` |
| in `RSpecRun_proofs`: `Types`, `Rule`, `Flaky`, `Verdict`, `Refinement` | `[]TypeOK`, and each of the properties of `rspec_run` |
| in `ApiClient_proofs`: `Types`, `Whole`, `Receipt`, `Upload` | `[]TypeOK`, and each of the safety properties of `api_client` |

So every safety property of every passing run is a theorem.

**xdist.** None of the safety properties is inductive. `SkipsOnlyTheLeftOut` is about what
a worker did; that it did right depends on what it read, hence on what is in the
file, hence on the order in which nodes were handed a path, collections arrived
and the answer was published. `IInv` states that chain, one link per conjunct:

- `Decided`: there is no file and nothing is scheduled before a collection is
  recorded; only a run that opted in, with no remote node, is reduced; a refused
  one is never scheduled;
- `OnFile`: the file, when there is one, holds what was decided, about the
  collection that was recorded; when a running session has a collection and no
  file, the disk failed or no node was handed a path, for a reason;
- `WorkerInv`: per node, `Configured` (who holds a path), `Reading` (what it read
  agrees with the decision, and whom it agrees about) and `Reported` (what it ran
  and skipped follows from what it read);
- `Recorded`: the verdict's fold holds nothing but tests some worker ran or died
  in; every failed report is in it or in `failedOnSkipped`; the echo never
  declares another reason than the controller's;
  a run that is red without a failed report was `StoppedAtTheStart`, before any test;
- `Concluded`: the three properties of a settled session, which hold when
  `SessionFinish` sets them up (`SessionFinishConcludes`) and stay, as nothing
  moves after.

Each action has a lemma that it preserves `IInv`, in which each conjunct it can
disturb is a step. `NextIInv` collects them, and the temporal theorems follow.
`Refinement` rests on the same invariant: `IInv` is what makes a skip the
contract's `LeaveOut` (by way of `WhatIsRead`), a test's start come after the
decision, and a settled conclusion true. Each action is one of the contract's, or
a stutter of it.

TLC had agreed that `IInv` is an invariant on the configuration of
`xdist_selection` before the proof was begun; the parts of the vitest invariants were checked so too.

**pytest's reruns.** None of the five is inductive: what the session ends up with depends
on which of two mechanisms holds what in which phase of which attempt. `IInv` follows the
item in hand through them (`AttemptInv`), and the fixtures through the session
(`FixtureInv`):

- `Counted`, `Rerunning`: metrics are kept only of a test the mechanism targets, and
  their count is the number of calls. The two target disjoint sets, so a test has at
  most one mechanism to rerun it (`OneMechanism`), and an attempt it asked for has a
  deadline and is not too slow;
- `Suspending`, `Stacked`: a mechanism holds the item's two collectors, each with its
  finalizer, exactly from the first teardown after which its loop goes on (`GoesOn`)
  to the teardown after which it does not; meanwhile the stack is empty between
  attempts and the item's chain within one. Nothing but a fresh set-up is ever added
  to what is held, because the later suspensions find every node known;
- `Conserved`: the fixtures that are set up are those whose finalizer is on the stack
  or held. With `suspended` empty it makes the end of a session complete;
- `Levels`, `Created`: a node is at its depth, so `teardown_exact` keeps what the
  next item shares (`SharedStays`); a fixture that is `Due` to be set up was set up
  less often than the session came to it. `Due` looks one item ahead at teardown,
  which is what pytest's `nextitem` is for;
- `Capped`: how far a rerun that is not the last is from the cap;
- `Remembered`, `Concluding`: the retrier's two sets are functions of what the
  attempts came to, and the verdict so far, with what is about to be logged, is the
  part of the contract that is settled so far. What remains open until `FinishTest`
  is just the held-back call.

TLC had found no violation of `IInv` on the run's instance, on an order that mixes the
modules (`a1`, `b1`, `a2`) and with caps of 1 and 4. Two findings are delimited: the
stack holds a stranger only after `PutBackLast`, a retry that ended without a call
(`StackInv`), and the span's error outruns the verdict only where one test is both
rerun by detection and answered for by retry, which `new` mode excludes
(`ErrorInv`, `NoneAnsweredTwice`).

**Playwright.** `IInv` is `TypeOK`, `DecisionInv` and `EndInv`. `DecisionInv` says what
the several ways through `preprocess` have in common: nothing is excluded before
it (`Undecided`), no attempt is made before the suite is known (`Unbegun`), the
suite is what was left of the collection, and of the run's share alone once an answer
is in force (`SuiteIsLeft`, `WithinShare`), a case of
the share is missing only by the answer (`LeftOutByAnswer`), and an application is
on record only if it was applied whole (`Applied`, `AppliedOrNothing`) - which is
what an `exclude` that throws halfway could break. `EndInv` says what `onEnd`
computed is of a state nothing moves after. That suffices for the contract and the
block. The verdict needs `AttemptInv` besides: an absorbed failure is the *last*
attempt of its case and the one expected (`AbsorbedLast`), from which it follows
that Playwright neither retries it nor counts it; phase 1 has kept a failure once
any project had one (`OutcomeOfAll`), and the metrics are those of the outcomes
(`MetricsOfAll`). `GreenEarned` needs what may be wrong with a run nothing halted
(`TroubleInv`).

**Vitest.** `IInv` is, besides the types, `HandedInv` (what the workers hold is what
the reporter was told, in whichever order it was told: `Offered`, `Current`,
`Installed`, `WellAnswered`, `Unstarted`), `CaseInv` (a case is known once its file
was imported; one that is marked deselected is skipped and outside the subset; one
in the subset is never marked: `Present`, `MarkedOut`, `Unabsorbed`), `FileInv` and
`EndInv`. The properties about repeats need `RepeatInv`, one conjunction per case:
what a case not yet tried holds (`Untried`); that the try still open, which
`onBeforeTryTask` closes only when the next one starts, is the one the outcomes
lack (`Recording`, `Retrying`); what a judged case's outcomes and metrics are of
(`Checked`, `Measured`); and of what each absorption is (`Absorbed`). The
off-by-one between a try and its closing is the reason `OutcomesAreTheRepeats` is
not inductive by itself.

**Budget.** `IInv` is `TypeOK` and four facts. `Owned`: a mechanism that gave the item
a deadline kept its metrics, so it targets it, and what retry targets failed.
`Afforded`: what is left to the item and what was used so far are together within
the budget (on a worker, what is left is within an equal part) - each rerun takes
from the one what it adds to the other. `SharesAreOfTargets`: no more shares were
given than targets were started, without which the divisor of the dynamic split
could reach one early. `Accounted`: why retry's loop ended, the second look at the
clock included. The two bounds then are
arithmetic about rounded quotients (`BelowShare`, `ShareGrows`,
`AtLeastAnEqualPart`), proved once for all naturals.

**RSpec.** `IInv` is the types and three facts. `Turns`: one example is in hand at a
time, of an open group, and none but it has attempts and no result. `InHand` ties what
stands on that example to the history of its attempts: while the loop goes on, `rerun`'s
locals are exactly what the attempts left (`Going`); when it is over, the exception is
the one the rule says (`DecidedBy`), and the pending message is the first attempt's
unless a rerun left one (`Calm`). `Settled` says it of the reported ones. The note
of a quarantined failure is where equality fails: it may be left over from an attempt
that failed twice (`Twice`), and the exception in `FlakyIsEarned` is that case and no
other. The verdict needs `EInv` besides: what each suite hook prepared (`Prepared`),
and that a run only quits for a reason that turns it red, interrupts it or was a
refusal (`Reasons`).

**API client.** `IInv` is the types and three facts. `Chained`: the pages read follow
each other's links from the first, and only the page to read next may be one of them -
so a list can only come to its end if no page came twice; that `names` never outgrows
the listing is the pigeonhole principle (`Pigeonhole`), the reason the listing is taken
to be finite. `Rounds`: the body is the flag's, and the requests so far are those of
this round and at most one before it. `Uploading`: the pending intervals cover the
spans up to the batch in hand without a gap or an overlap (`Laid`), every span beyond
has landed, and unless an answer was lost none landed twice (`Sent`). Halving keeps
this because both halves are proper and adjacent (`Split`).

**Only model-checked:** both liveness properties (`SessionEnds` and that the client's
calls end: liveness under fairness is out of the prover's reach); the five violations.
**Assumed:** that the fingerprint's hash is injective, and what
the modules mark external: xdist's scheduling and life cycle, pytest's
`SetupState`, Vitest's and Playwright's loops over tries and attempts, RSpec's over
groups, hooks and mocks, the server.

## 6. Not modelled, and why

- Wording, layout and spans' attributes; the run-time accounting of the verdict.
- CI detection, git and the bindings: pure functions of their environment,
  without state or order.
- Test retry and flaky detection *on an xdist worker*: the two protocols meet
  only in the reports a worker sends, so they are modelled apart.
- pytest's quarantine marker: not yet (plan). RSpec: spans, the terminal block and the
  upload; `parallel_tests`, whose workers share nothing.
- TypeScript: spans, the run's summaries and the wording of the terminal; the
  native engine's plan (a mode that repeats takes the repeats its budget leaves);
  Vitest with several projects, a browser's among them, and type-checked tests,
  which no runner hook sees; Playwright's rerun subprocess beyond the lines it
  leaves in its file, the removal of the state file, and the two forms in which a
  quarantine entry may name a test.

Met while reading, and not backed by a run, because the models abstract what they
are about or because no document of the repository says otherwise.

Rust and Python: a session interrupted before a blind worker's `pytest_testnodedown`
was handled sends its verdict (`__init__.py:591`), where the docstring
(`__init__.py:559`) has a worker that could not read the answer withhold it; a crashed
worker withholds the verdict, but the spans and the
terminal announce the reduction, where the docstring (`__init__.py:575`) has the
answer declared as not applied (`NoFalseReduction` exempts these runs); a refused run,
or one whose workers collected different tests, exits red and sends a verdict that
names no failure (`__init__.py:209-215`; `RedRunHasAFailure` excepts it: nothing was
executed, and the verdict says so); a retry whose deadline passes between the looks
at `test_retry.py:180` and `rerun.py:315` stops without being noted, where the comment
at `test_retry.py:45-47` has every such test among the exhausted (`ShortfallIsSaid`
excepts it, by way of `late`); on a worker, retry divides its budget by the
failures seen so far (`test_retry.py:158`), so the first test is given the whole,
the second a half, and the shares exceed what the comment at `rerun.py:343` calls
equal shares of the total; the same divisor counts failures retry never pays for
(detection's, and those with too long a name), whose part nobody gets, where
`test_retry.py:154-158` says only the ones that spend are counted; a server that
keeps linking to new pages is followed without a bound (`client.rs:150`); `UploadError::is_rejection` (`trace.rs:111`) calls 429 transient
while `is_retryable_status` (`client.rs:460`) never retries it; the comment at
`client.rs:48-50` lists 404 as dormant, but for the quarantine listing it is a
failure (it is modelled as one); the first page of a listing is not in `seen`,
so a listing that loops back to it is read twice before the loop is noticed
(harmless: the result is a failure either way); a fixture first requested during
a rerun loses its finalizers when the suspended ones are put back
(`rerun.py:431`); an interrupted rerun leaves its suspended finalizers unrun; a
session span may be `ok` over a run that is red because of a set-up or a `new`
mode rerun failure; a cap of one execution still allows one rerun; an eligible
failure that ran once because its name is too long, or because detection found it
too slow, is reported as one retry could not afford (`test_retry.py:317-321`), though
retry had no mandate for it (`ShortfallIsSaid` is about the others).

Vitest: an `empty` answer does not reach type-checked tests; a candidate declared
`it.fails` has its expectation applied to each repeat; the quarantined tests
caught are listed by case, so that "unused" entries are wrong where identities are
shared; tests of one name in one file share a detector's metrics; each file's
detector is given the whole session's budget; a served test its author skips at run
time leaves a green run that did not execute it; a run whose subset guard failed
echoes the kept count of the full collection.

RSpec: `OneRuleDecides` states the rule of `configuration.rb:159-161` with its
exceptions, of which that comment knows none. Flaky detection is prepared for every example that was loaded
(`configuration.rb:35-39`), before or after the selection and whatever the filters left
out, so that a session that runs part of a suite has the whole suite's budget, where
`flaky_detection.rb:84-87` says it "now gets its own"; the comment at
`configuration.rb:159-161` says the first attempt stands in `unhealthy` mode, but a
rerun whose failure the quarantine took back, or that skipped itself, leaves its
pending message on an example
that passed first, which is then reported pending, and an author's `around` hook that
raises in a rerun fails the example in either mode.

Playwright: an error outside the tests, or a failing teardown project, makes a
run red whose verdict is complete and names no failure (`reporter.ts:571`); reruns
that timed out are dropped (`reporter.ts:1041-1042`) where the first phase counts a
timeout as a failure; the comment at `reporter.ts:723-726` says the second phase is
skipped after a timeout, but a global one has the status `timedout` and not
`interrupted`; a test retried with its serial group after it passed or was skipped
has two spans, as `onTestEnd` takes either for final; a refusal whose `exclude`
throws halfway is forgotten; a quarantined test that is interrupted after an
unabsorbed failure reads `unexpected`; the rerun subprocess inherits the path of a
state file the global teardown may have deleted.
