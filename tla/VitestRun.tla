------------------------------ MODULE VitestRun ------------------------------
(***************************************************************************)
(* One `vitest run' with the Mergify reporter: the reporter in Vitest's    *)
(* main process (clients/ts/packages/vitest/src/reporter.ts and            *)
(* test-selection.ts) asks for the quarantine list, the flaky-detection    *)
(* context and a test selection, hands them to the workers, and concludes  *)
(* from what the workers report; in each worker the extended runner        *)
(* (extend-runner.ts) leaves tests out, repeats others and rewrites        *)
(* results.  Files run in parallel, the tests of one file in turn; files   *)
(* may not import, hooks may fail, the run may be bailed out of or         *)
(* cancelled.                                                              *)
(*                                                                         *)
(* External: Vitest's own loop over files, tests, repeats and retries; the *)
(* engine's answers; the workers' transport (what a test was left as is    *)
(* known to the main process by the end of the run).                       *)
(***************************************************************************)
EXTENDS TsVerdict, Sequences

CONSTANTS Cases,        \* the tests of the suite, as Vitest sees them
          Files,
          FileOf,       \* the file of each case
          NameOf,       \* its identity: two files may hold one each of the same
          Retry,        \* Vitest's `retry' option
          Environments, \* what a run may be started under
          Quarantines,  \* lists the server may hold
          Contexts,     \* flaky-detection contexts it may hold
          Answers       \* what asking for a selection may come back with

F == INSTANCE TsFlakyDetector WITH Names <- Tests

\* runner: which of the hooks the extension relies on a custom runner of the
\* user's overrides without calling super.  engine: the worker can load the
\* native binding.  shards: the sequencer tells which files this leg runs.
\* fingerprint: the binding takes that of the collection.
Environment == [client     : BOOLEAN,
                enable     : EnableValues,
                attributes : SUBSET AttributeKeys,
                shards     : BOOLEAN,
                fingerprint: BOOLEAN,
                engine     : BOOLEAN,
                runner     : {"extends", "suite", "task", "try"},
                debug      : BOOLEAN]

ASSUME VitestConstants ==
  /\ IsFiniteSet(Cases) /\ Cases # {} /\ IsFiniteSet(Tests)
  /\ FileOf \in [Cases -> Files]
  /\ NameOf \in [Cases -> Tests]
  /\ Retry \in Nat
  /\ Environments \subseteq Environment
  /\ Quarantines \subseteq SUBSET Tests
  /\ Contexts \subseteq F!FlakyContexts
  /\ Answers \subseteq Responses

VARIABLES
  env,
  phase,
  fetching,        \* the promises onInit started and nothing has settled yet
  quarantineList, flakyContext,
  setupInstalled,
  provided,        \* what the workers read with inject()
  selection,
  collection,      \* the run asked with a fingerprint: it owes a verdict
  file, hooksFailed, unhandled, stopped,
  state,           \* each case's result as the main process ends up seeing it
  meta,            \* the marks the extension leaves on it
  tries, at, errors, metrics,
  truth,           \* history: what each repeat of a case really came to
  raw,             \* history: the result Vitest gave it before it was rewritten
  final, verdict, receipt, application, echo, block, red

fetched  == <<fetching, quarantineList, flakyContext>>
handed   == <<setupInstalled, provided>>
asked    == <<selection, collection>>
suite    == <<file, hooksFailed, unhandled, stopped>>
repeats  == <<tries, at, errors, metrics, truth>>
results  == <<state, meta, raw>>
ending   == <<final, verdict, receipt, application, echo, block, red>>
vars == <<env, phase, fetched, handed, asked, suite, repeats, results, ending>>

NoSelection == [FullRun("not_requested") EXCEPT !.selection = "unrecognised"]
NoApplication == Application("full", "none", {}, 0, 0)

NoTries == [watched |-> FALSE, started |-> FALSE, errorsAtTryStart |-> 0,
            lastTryFailed |-> FALSE, outcomes |-> <<>>]
\* Where Vitest is in a test's repeats and retries.
NotTrying == [repeats |-> 0, repeat |-> 0, retry |-> 0, again |-> FALSE]

CaseState == {"absent", "pending", "running", "passed", "failed", "skipped"}
Settled == {"passed", "failed", "skipped"}

Marks == {"deselected", "applied", "flakyUnavailable", "flakyBypassed", "checked",
          "flaky", "quarantined", "absorbedFailure"}

CasesOf(f) == {c \in Cases : FileOf[c] = f}
NamesOf(f) == {NameOf[c] : c \in CasesOf(f)}

-----------------------------------------------------------------------------
(* onInit, onTestRunStart: what the run learns before a worker starts.     *)

Init ==
  /\ env \in Environments
  /\ phase = "initialised"
  /\ fetching = (IF env.client THEN {"flaky"} ELSE {}) \cup
                (IF env.client /\ "branch" \in env.attributes THEN {"quarantine"} ELSE {})
  /\ quarantineList = {} /\ flakyContext = F!NoContext
  /\ setupInstalled = FALSE
  /\ provided = [quarantine |-> {}, selection |-> Everything, flaky |-> F!NoContext]
  /\ selection = NoSelection /\ collection = FALSE
  /\ file = [f \in Files |-> "queued"] /\ hooksFailed = {}
  /\ unhandled = FALSE /\ stopped = FALSE
  /\ state = [c \in Cases |-> "absent"] /\ meta = [c \in Cases |-> {}]
  /\ raw = [c \in Cases |-> "none"]
  /\ tries = [c \in Cases |-> NoTries] /\ at = [c \in Cases |-> NotTrying]
  /\ errors = [c \in Cases |-> 0]
  /\ metrics = [f \in Files |-> [t \in Tests |-> F!NoMetrics]]
  /\ truth = [c \in Cases |-> <<>>]
  /\ final = NothingRecorded /\ verdict = NoVerdict /\ receipt = NotSent
  /\ application = NoApplication /\ echo = NoEcho /\ block = NoBlock /\ red = FALSE

\* _configureRunner: the list as it stands, and the setup file.
ConfigureRunner(list, rest) ==
  /\ provided' = [rest EXCEPT !.quarantine = list]
  /\ setupInstalled' = TRUE

\* Mutated form: an empty list of the moment is what the workers keep.
QuarantineArrivesUnprovided(outcome, names) ==
  /\ phase = "initialised" /\ "quarantine" \in fetching
  /\ fetching' = fetching \ {"quarantine"}
  /\ quarantineList' = F!FetchQuarantineList(outcome, names)
  /\ IF quarantineList' # {} /\ ~setupInstalled THEN ConfigureRunner(quarantineList', provided)
                                                 ELSE UNCHANGED handed
  /\ UNCHANGED <<env, phase, flakyContext, asked, suite, repeats, results, ending>>

QuarantineArrives(outcome, names) ==
  /\ phase = "initialised" /\ "quarantine" \in fetching
  /\ fetching' = fetching \ {"quarantine"}
  /\ quarantineList' = F!FetchQuarantineList(outcome, names)
  /\ IF quarantineList' # {} THEN ConfigureRunner(quarantineList', provided)
                             ELSE UNCHANGED handed
  /\ UNCHANGED <<env, phase, flakyContext, asked, suite, repeats, results, ending>>

FlakyArrives(outcome, context) ==
  /\ phase = "initialised" /\ "flaky" \in fetching
  /\ fetching' = fetching \ {"flaky"}
  /\ flakyContext' = F!FetchFlakyContext(outcome, context)
  /\ IF flakyContext' # F!NoContext
     THEN ConfigureRunner(quarantineList, [provided EXCEPT !.flaky = flakyContext'])
     ELSE UNCHANGED handed
  /\ UNCHANGED <<env, phase, quarantineList, asked, suite, repeats, results, ending>>

\* onTestRunStart has awaited both promises.
RunStarts ==
  /\ phase = "initialised" /\ fetching = {}
  /\ phase' = "running"
  /\ UNCHANGED <<env, fetched, suite, repeats, results, ending>>

MayAsk == env.client /\ IsTestSelectionEnabled(env.enable) /\ HasCoordinates(env.attributes)

DoesNotAsk == ~MayAsk /\ RunStarts /\ UNCHANGED <<handed, asked>>

\* The sequencer threw: the leg runs its own share.
ShardSliceUnavailable ==
  /\ MayAsk /\ ~env.shards
  /\ RunStarts
  /\ selection' = FullRun("shard_slice_unavailable")
  /\ UNCHANGED <<collection, handed>>

NoFingerprint == MayAsk /\ env.shards /\ ~env.fingerprint /\ RunStarts /\ UNCHANGED <<handed, asked>>

\* Mutated form: an empty list of tests is taken for no list at all.
HandsToRunnerUnlessEmpty(s) == s.notApplied = "none" /\ s.selection \in {"subset", "refused"}

\* What _applySelection provides to the runner: nothing for an answer that runs
\* everything, no test at all for an empty one and for a refusal.
HandsToRunner(s) == s.notApplied = "none" /\ s.selection \in {"subset", "empty", "refused"}

AsksForSelection(response) ==
  /\ MayAsk /\ env.shards /\ env.fingerprint
  /\ RunStarts
  /\ collection' = TRUE
  /\ selection' = FetchTestSelection(response)
  /\ IF HandsToRunner(selection')
     THEN ConfigureRunner(quarantineList, [provided EXCEPT !.selection = selection'.tests])
     ELSE UNCHANGED handed

-----------------------------------------------------------------------------
(* The workers: a file is imported, its tests are left out or run.         *)

Reaches(hook) == setupInstalled /\ env.runner # hook

LeftOut(c) == provided.selection # Everything /\ NameOf[c] \notin provided.selection

ImportFails(f) ==
  /\ phase = "running" /\ ~stopped /\ file[f] = "queued"
  /\ file' = [file EXCEPT ![f] = "broken"]
  /\ UNCHANGED <<env, phase, fetched, handed, asked, hooksFailed, unhandled, stopped,
                 repeats, results, ending>>

\* The file is collected, its author's own skips and filters with it, and
\* onBeforeRunSuite walks it: what is outside the subset is skipped and marked,
\* whether or not it was skipped already.
ImportFile(f, skips) ==
  /\ phase = "running" /\ ~stopped /\ file[f] = "queued" /\ skips \subseteq CasesOf(f)
  /\ file' = [file EXCEPT ![f] = "running"]
  /\ LET out == {c \in CasesOf(f) : Reaches("suite") /\ LeftOut(c)}
     IN /\ state' = [c \in Cases |-> IF c \in skips \cup out THEN "skipped"
                                     ELSE IF c \in CasesOf(f) THEN "pending" ELSE state[c]]
        /\ meta' = [c \in Cases |-> IF c \in out THEN {"deselected"} ELSE meta[c]]
  /\ UNCHANGED <<env, phase, fetched, handed, asked, hooksFailed, unhandled, stopped, repeats,
                 raw, ending>>

InTurn(c) ==
  /\ phase = "running" /\ file[FileOf[c]] = "running"
  /\ \A d \in CasesOf(FileOf[c]) : state[d] # "running"

\* A hook of a suite fails before its tests S, or after they ran (S is empty).
HookFails(f, S) ==
  /\ phase = "running" /\ file[f] = "running" /\ f \notin hooksFailed
  /\ S \subseteq {c \in CasesOf(f) : state[c] = "pending"}
  /\ \A c \in CasesOf(f) : state[c] # "running"
  /\ hooksFailed' = hooksFailed \cup {f}
  /\ state' = [c \in Cases |-> IF c \in S THEN "skipped" ELSE state[c]]
  /\ UNCHANGED <<env, phase, fetched, handed, asked, file, unhandled, stopped, repeats,
                 meta, raw, ending>>

IsCandidate(c) == NameOf[c] \in F!Candidates(provided.flaky, NamesOf(FileOf[c]))

MaxRepeats(c) ==
  F!ComputeRepeatBudget(provided.flaky, NamesOf(FileOf[c]), provided.flaky.mean)

\* onBeforeRunTask, where the file walk did not reach the test; Vitest calls it
\* for a test its author skips too.
AwaitsDeselection(c) == Reaches("task") /\ LeftOut(c) /\ "deselected" \notin meta[c]

DeselectTask(c) ==
  /\ InTurn(c) /\ state[c] \in {"pending", "skipped"}
  /\ AwaitsDeselection(c)
  /\ state' = [state EXCEPT ![c] = "skipped"]
  /\ meta' = [meta EXCEPT ![c] = @ \cup {"applied", "deselected"}]
  /\ UNCHANGED <<env, phase, fetched, handed, asked, suite, repeats, raw, ending>>

\* The extension repeats the test: `again' is Vitest's, a try is to start.
Watches(c) == Reaches("task") /\ env.engine /\ IsCandidate(c)

BeforeRunTask(c) ==
  /\ InTurn(c) /\ ~stopped /\ state[c] = "pending"
  /\ ~AwaitsDeselection(c)
  /\ state' = [state EXCEPT ![c] = "running"]
  /\ meta' = [meta EXCEPT ![c] = @ \cup
       (IF Reaches("task") THEN {"applied"} ELSE {}) \cup
       (IF Reaches("task") /\ provided.flaky # F!NoContext /\ ~env.engine
        THEN {"flakyUnavailable"} ELSE {})]
  /\ at' = [at EXCEPT ![c] = [NotTrying EXCEPT !.again = TRUE,
                                !.repeats = IF Watches(c) THEN MaxRepeats(c) ELSE 0]]
  /\ tries' = [tries EXCEPT ![c] = [NoTries EXCEPT !.watched = Watches(c)]]
  /\ metrics' = IF ~Watches(c) THEN metrics
                ELSE [metrics EXCEPT ![FileOf[c]][NameOf[c]] =
                        F!NoteDuration(@, MaxRepeats(c), provided.flaky.mean)]
  /\ UNCHANGED <<env, phase, fetched, handed, asked, suite, raw, errors, truth, ending>>

-----------------------------------------------------------------------------
(* Repeats and retries.                                                    *)

\* closeTry: a try failed if it added errors.
CloseTry(t, count) ==
  [t EXCEPT !.lastTryFailed = count > t.errorsAtTryStart, !.errorsAtTryStart = count]

OutcomeOf(t) == IF t.lastTryFailed THEN "fail" ELSE "pass"
RecordRepeat(t) == [t EXCEPT !.outcomes = Append(@, OutcomeOf(t))]

\* Mutated form: every try of a repeat is taken for its outcome.
BeforeTryRecordsEach(c) ==
  LET t == tries[c]  closed == CloseTry(t, errors[c]) IN
  IF ~t.watched \/ ~Reaches("try") THEN UNCHANGED <<tries, metrics>>
  ELSE IF ~t.started
  THEN /\ tries' = [tries EXCEPT ![c].started = TRUE, ![c].errorsAtTryStart = errors[c]]
       /\ UNCHANGED metrics
  ELSE /\ tries' = [tries EXCEPT ![c] = RecordRepeat(closed)]
       /\ metrics' = [metrics EXCEPT ![FileOf[c]][NameOf[c]] =
                        F!RecordOutcome(@, OutcomeOf(closed))]

\* onBeforeTryTask: the previous try is closed; a retry replaces it, and the
\* last one of a repeat is that repeat's outcome.
BeforeTry(c) ==
  LET t == tries[c]  closed == CloseTry(t, errors[c]) IN
  IF ~t.watched \/ ~Reaches("try") THEN UNCHANGED <<tries, metrics>>
  ELSE IF ~t.started
  THEN /\ tries' = [tries EXCEPT ![c].started = TRUE, ![c].errorsAtTryStart = errors[c]]
       /\ UNCHANGED metrics
  ELSE IF at[c].retry > 0
  THEN tries' = [tries EXCEPT ![c] = closed] /\ UNCHANGED metrics
  ELSE /\ tries' = [tries EXCEPT ![c] = RecordRepeat(closed)]
       /\ metrics' = [metrics EXCEPT ![FileOf[c]][NameOf[c]] =
                        F!RecordOutcome(@, OutcomeOf(closed))]

\* One try: the hook, then the test with its own hooks, which leaves an error
\* or none.  Where Vitest goes from there is its own: a failed try is retried
\* while retries are left, and a passed one may be, in a repeated test.
Try(c, fails, retries) ==
  /\ state[c] = "running" /\ at[c].again
  /\ BeforeTry(c)
  /\ errors' = [errors EXCEPT ![c] = IF fails THEN @ + 1 ELSE @]
  /\ LET here == at[c] IN
     IF retries
     THEN /\ here.retry < Retry /\ (fails \/ here.repeats > 0)
          /\ at' = [at EXCEPT ![c].retry = @ + 1]
          /\ UNCHANGED truth
     ELSE /\ fails => here.retry = Retry
          /\ at' = [at EXCEPT ![c].retry = 0, ![c].repeat = @ + 1,
                              ![c].again = here.repeat < here.repeats]
          /\ truth' = [truth EXCEPT ![c] = Append(@, IF fails THEN "fail" ELSE "pass")]
  /\ UNCHANGED <<env, phase, fetched, handed, asked, suite, results, ending>>

\* What Vitest makes of the repeats (external): a failure of one is kept, unless
\* retries of a later one start the state over.
RawResults(outcomes) ==
  LET all == {outcomes[i] : i \in DOMAIN outcomes}
  IN IF Cardinality(all) = 1 THEN all ELSE IF Retry = 0 THEN {"fail"} ELSE {"pass", "fail"}

\* afterRunTask: what the repeats said is noted, a failure the mode only learns
\* from is absorbed, and then one of a quarantined test.
AfterRunTask(c, result) ==
  LET t        == tries[c]
      judged   == t.watched /\ t.started
      closed   == RecordRepeat(CloseTry(t, errors[c]))
      measured == F!RecordOutcome(metrics[FileOf[c]][NameOf[c]], OutcomeOf(CloseTry(t, errors[c])))
      absorbed == judged /\ provided.flaky.mode = "unhealthy" /\ result = "fail"
                    /\ closed.outcomes[1] = "pass"
      caught   == result = "fail" /\ NameOf[c] \in provided.quarantine
  IN /\ tries' = IF judged THEN [tries EXCEPT ![c] = closed] ELSE tries
     /\ metrics' = IF judged THEN [metrics EXCEPT ![FileOf[c]][NameOf[c]] = measured] ELSE metrics
     /\ meta' = [meta EXCEPT ![c] = @
                    \cup (IF t.watched /\ ~t.started THEN {"flakyBypassed"} ELSE {})
                    \cup (IF judged THEN {"checked"} ELSE {})
                    \cup (IF judged /\ F!IsFlaky(measured) THEN {"flaky"} ELSE {})
                    \cup (IF absorbed THEN {"absorbedFailure"} ELSE {})
                    \cup (IF caught THEN {"quarantined"} ELSE {})]
     /\ state' = [state EXCEPT ![c] =
                    IF result = "pass" \/ absorbed \/ caught THEN "passed" ELSE "failed"]

\* The test's repeats are over; its result reaches the reporter.
FinishTask(c, result) ==
  /\ state[c] = "running" /\ ~at[c].again
  /\ result \in RawResults(truth[c])
  /\ raw' = [raw EXCEPT ![c] = result]
  /\ IF Reaches("task") THEN AfterRunTask(c, result)
     ELSE /\ state' = [state EXCEPT ![c] = IF result = "pass" THEN "passed" ELSE "failed"]
          /\ UNCHANGED <<tries, metrics, meta>>
  /\ at' = [at EXCEPT ![c] = NotTrying]
  /\ UNCHANGED <<env, phase, fetched, handed, asked, suite, errors, truth, ending>>

FinishFile(f) ==
  /\ phase = "running" /\ file[f] = "running"
  /\ \A c \in CasesOf(f) :
       /\ state[c] \in Settled \/ (stopped /\ state[c] = "pending")
       /\ AwaitsDeselection(c) => stopped \/ f \in hooksFailed
  /\ file' = [file EXCEPT ![f] = "done"]
  /\ UNCHANGED <<env, phase, fetched, handed, asked, hooksFailed, unhandled, stopped,
                 repeats, results, ending>>

UnhandledError ==
  /\ phase = "running" /\ ~unhandled
  /\ unhandled' = TRUE
  /\ UNCHANGED <<env, phase, fetched, handed, asked, file, hooksFailed, stopped,
                 repeats, results, ending>>

\* Vitest stops: it was interrupted, or `bail' met its number of failures.  What
\* is running finishes; no file is imported and no test is started any more.
Stops ==
  /\ phase = "running" /\ ~stopped
  /\ stopped' = TRUE
  /\ UNCHANGED <<env, phase, fetched, handed, asked, file, hooksFailed, unhandled,
                 repeats, results, ending>>

-----------------------------------------------------------------------------
(* onTestRunEnd.                                                           *)

Collected == {NameOf[c] : c \in {d \in Cases : state[d] # "absent"}}
Deselected == {c \in Cases : "deselected" \in meta[c]}
Executed == {c \in Cases : state[c] \in {"running", "passed", "failed"}}

Actionable == selection # NoSelection /\ selection.notApplied = "none"

Refused == Actionable /\ selection.selection = "refused"

\* Mutated form: the part of the subset that matched is enough.
SubsetGuardFailsOnNothing ==
  Actionable /\ selection.selection = "subset" /\ selection.tests \cap Collected = {}

\* The stale-subset guard: a served test that no case collected here is.
SubsetGuardFails ==
  Actionable /\ selection.selection = "subset" /\ ~(selection.tests \subseteq Collected)

\* Mutated form: the count of a reduced run is of the identities left out.
SettleSelectionByIdentity ==
  IF selection = NoSelection THEN NoApplication ELSE ApplyToCollected(selection, Collected)

\* _settleSelection: the count of a reduced run is of the tests that reported
\* themselves deselected.
SettleSelection ==
  IF selection = NoSelection THEN NoApplication
  ELSE LET applied == ApplyToCollected(selection, Collected)
       IN IF applied.outcome \in {"empty", "subset"}
          THEN [applied EXCEPT !.deselectedCount = Cardinality(Deselected)] ELSE applied

\* Mutated form: an absorbed failure counts as the pass it was rewritten to.
FinalStatusOfQuarantinedOnly(c) ==
  IF "quarantined" \in meta[c] THEN "quarantined_failed" ELSE state[c]

\* finalStatus.
FinalStatusOf(c) ==
  IF meta[c] \cap {"quarantined", "absorbedFailure"} # {} THEN "quarantined_failed" ELSE state[c]

\* _foldVerdict: what was deselected and what never finished is left out.
Records == {<<NameOf[c], FinalStatusOf(c)>> :
              c \in {d \in Cases \ Deselected : state[d] \in Settled}}

\* Mutated form: a failing hook is somebody else's failure.
WithheldForFilesOnly == unhandled \/ \E f \in Files : file[f] = "broken"

\* ... and it is withheld whenever the run failed somewhere no test carries.
Withheld == unhandled \/ hooksFailed # {} \/ \E f \in Files : file[f] = "broken"

\* Vitest's own exit code, and process.exitCode as the reporter sets it.
EndsRed ==
  \/ Withheld \/ stopped \/ Refused \/ SubsetGuardFails
  \/ \E c \in Cases : state[c] = "failed"

\* _sendVerdict; with MERGIFY_CI_DEBUG it is written to stderr and not sent.
SendVerdict(how) ==
  IF ~collection \/ Withheld \/ ~HasVerdictIdentity(env.attributes)
  THEN verdict' = NoVerdict /\ receipt' = NotSent
  ELSE /\ verdict' = BuildSessionVerdict(Cardinality(Collected), final', echo')
       /\ receipt' = SendSessionVerdict(IF env.debug THEN "stored" ELSE how)

\* _reportTestSelection: a failed guard has said everything already.
ReportTestSelection ==
  IF selection = NoSelection \/ SubsetGuardFails THEN NoBlock
  ELSE FormatTestSelectionReport(selection, SettleSelection)

RunEnd(how) ==
  /\ phase = "running"
  /\ \A f \in Files : file[f] \in {"done", "broken"} \/ (stopped /\ file[f] = "queued")
  /\ phase' = "ended"
  /\ application' = SettleSelection
  /\ final' = Fold(Records)
  /\ echo' = IF selection = NoSelection THEN NoEcho ELSE SelectionEcho(selection, application')
  /\ SendVerdict(how)
  /\ block' = ReportTestSelection
  /\ red' = EndsRed
  /\ UNCHANGED <<env, fetched, handed, asked, suite, repeats, results>>

\* _reportReach: where the features could not apply, among the tests that ran.
ReportReach ==
  LET ran == {c \in Cases : state[c] \in {"passed", "failed"}}
      with(mark) == {c \in ran : mark \in meta[c]}
  IN IF ~setupInstalled THEN {}
     ELSE (IF ran # {} /\ with("applied") = {} THEN {"did not apply"} ELSE {})
          \cup (IF with("flakyUnavailable") # {} THEN {"no flaky detection: binding"} ELSE {})
          \cup (IF with("flakyBypassed") # {} THEN {"no flaky detection: runner"} ELSE {})

Ended == phase = "ended" /\ UNCHANGED vars

Learns ==
  \/ \E outcome \in {"answered", "dormant", "threw"}, names \in Quarantines :
       QuarantineArrives(outcome, names)
  \/ \E outcome \in {"answered", "dormant", "threw"}, context \in Contexts :
       FlakyArrives(outcome, context)
  \/ DoesNotAsk \/ ShardSliceUnavailable \/ NoFingerprint
  \/ \E response \in Answers : AsksForSelection(response)

Runs ==
  \/ \E f \in Files : ImportFails(f) \/ FinishFile(f)
  \/ \E f \in Files, S \in SUBSET Cases : ImportFile(f, S) \/ HookFails(f, S)
  \/ \E c \in Cases : DeselectTask(c) \/ BeforeRunTask(c)
  \/ \E c \in Cases, fails, retries \in BOOLEAN : Try(c, fails, retries)
  \/ \E c \in Cases, result \in {"pass", "fail"} : FinishTask(c, result)
  \/ UnhandledError \/ Stops
  \/ \E how \in Receipts : RunEnd(how)

Next == Learns \/ Runs \/ Ended

Spec == Init /\ [][Next]_vars

-----------------------------------------------------------------------------
(* Properties.                                                             *)

\* Each variable holds what its place in the code may hold.
TypeOK ==
  /\ env \in Environments
  /\ phase \in {"initialised", "running", "ended"}
  /\ fetching \subseteq {"quarantine", "flaky"}
  /\ quarantineList \in Quarantines \cup {{}}
  /\ flakyContext \in Contexts \cup {F!NoContext}
  /\ setupInstalled \in BOOLEAN /\ collection \in BOOLEAN
  /\ provided \in [quarantine : Quarantines \cup {{}}, selection : {Everything} \cup SUBSET Tests,
                   flaky : Contexts \cup {F!NoContext}]
  /\ selection \in TestSelection
  /\ file \in [Files -> {"queued", "running", "done", "broken"}]
  /\ hooksFailed \subseteq Files /\ unhandled \in BOOLEAN /\ stopped \in BOOLEAN
  /\ state \in [Cases -> CaseState] /\ meta \in [Cases -> SUBSET Marks]
  /\ raw \in [Cases -> {"none", "pass", "fail"}]
  /\ errors \in [Cases -> Nat]
  /\ at \in [Cases -> [repeats : Nat, repeat : Nat, retry : 0..Retry, again : BOOLEAN]]
  /\ final \in [Tests -> Status] /\ application \in Applications
  /\ receipt \in Results /\ red \in BOOLEAN
  /\ \A f \in Files, t \in Tests : metrics[f][t] \in F!Metrics

\* A run that ends green did what the answer asked: under an applied subset every
\* served identity was collected, and each case of it ran unless its author
\* skips it; a refused run is red and ran nothing (_settleSelection's guard).
GreenHonoursTheAnswer ==
  phase = "ended" /\ Actionable =>
    /\ ~red /\ selection.selection = "subset" =>
         /\ selection.tests \subseteq Collected
         /\ \A c \in Cases : NameOf[c] \in selection.tests =>
              state[c] = "passed" \/ (state[c] = "skipped" /\ meta[c] = {})
    /\ selection.selection = "refused" => red /\ Executed = {}

\* What the retry is answered from agrees with how the run ended: a verdict that
\* names no failure, covers the whole collection and states no unapplied answer
\* comes from a run that is green, unless the run was cut short; and a green run
\* names none (_foldVerdict withholds it otherwise).
VerdictAgreesWithExit ==
  phase = "ended" /\ receipt.sent =>
    /\ ~red => verdict.failing = {}
    /\ red /\ ~stopped /\ IsComplete(verdict) /\ verdict.echo.notApplied = "none"
         => verdict.failing # {}

\* What the detector holds of a repeated test is what each of its repeats came
\* to, in order, whatever was retried in between (onBeforeTryTask closes a try
\* only when the next one starts).
OutcomesAreTheRepeats ==
  \A c \in Cases : "checked" \in meta[c] =>
    /\ tries[c].outcomes = truth[c]
    /\ (\A d \in CasesOf(FileOf[c]) \ {c} : NameOf[d] # NameOf[c]) =>
         LET m == metrics[FileOf[c]][NameOf[c]]
         IN /\ F!RerunCount(m) = Len(truth[c]) - 1
            /\ F!IsFlaky(m) <=> {"pass", "fail"} \subseteq {truth[c][i] : i \in DOMAIN truth[c]}
            /\ "flaky" \in meta[c] <=> F!IsFlaky(m)

\* A failure Vitest saw and the job did not is one the features are there to
\* absorb, a quarantined test's or one after a first repeat that passed in
\* unhealthy mode; and it never reads as a pass in the verdict.
AbsorbedNeverReadsGreen ==
  \A c \in Cases : raw[c] = "fail" /\ state[c] = "passed" =>
    /\ \/ NameOf[c] \in quarantineList
       \/ flakyContext.mode = "unhealthy" /\ IsCandidate(c) /\ truth[c][1] = "pass"
    /\ phase = "ended" => final[NameOf[c]] \in {"quarantined_failed", "failed"}

\* A test on the list that was fetched never fails the job, in whatever order
\* the fetches came back, except under a runner that keeps the extension from
\* its tests; and the run then says so (_reportReach).
QuarantineHolds ==
  \A c \in Cases : NameOf[c] \in quarantineList /\ state[c] = "failed" =>
    env.runner = "task" /\ "did not apply" \in ReportReach

\* The terminal block states what happened: nothing was left out of a run it
\* calls full, no test ran in one it calls skipped or stopped, and the tests it
\* says were skipped are the ones that were left out.
ReportIsTrue ==
  /\ block.text \in {"in full", "not matching, in full", "could not be asked"} => Deselected = {}
  /\ block.text \in {"none executed", "stopped"} => Executed = {}
  /\ block.text \in {"all re-executed", "only those re-executed"} =>
       {NameOf[c] : c \in Executed} \subseteq provided.selection
  /\ block.text \in {"only those re-executed", "none executed"} =>
       block.skipped = Cardinality(Deselected)

\* reporter.ts:761-765: a bailed run, some files of which were never imported,
\* reads as incomplete, so that its retry runs in full.
BailedReadsIncomplete ==
  phase = "ended" /\ stopped /\ receipt.sent
    /\ verdict.failing # {} /\ (\E f \in Files : file[f] = "queued")
    => ~IsComplete(verdict)

\* What the run promises its caller: it decides before the first test and leaves
\* out only what the decision leaves out.
Decided == phase # "initialised"
Conclusion ==
  IF phase # "ended" THEN "open"
  ELSE IF application.outcome \in {"empty", "subset"} THEN "reduced" ELSE "other"

Contract == INSTANCE SelectionContract WITH
  decided <- Decided, keep <- provided.selection, executed <- {NameOf[c] : c \in Executed},
  leftOut <- {NameOf[c] : c \in Deselected}, conclusion <- Conclusion

ImplementsContract == Contract!Spec
=============================================================================
