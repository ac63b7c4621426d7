---------------------------- MODULE PlaywrightRun ----------------------------
(***************************************************************************)
(* One `playwright test' with Mergify's global setup, reporter and fixture *)
(* (clients/ts/packages/playwright/src): the global setup writes what the  *)
(* server says to a file; the reporter's preprocess asks for a test        *)
(* selection and takes tests out of the run, sharding included; in each    *)
(* worker the fixture absorbs the failures of quarantined tests; onTestEnd *)
(* follows the attempts; onEnd reruns candidates in a subprocess, settles  *)
(* the run's status and sends the verdict.                                 *)
(*                                                                         *)
(* External: Playwright's own loop over attempts and what it concludes of  *)
(* a test; its partition of a sharded run; the engine's answers; what the  *)
(* rerun subprocess leaves in its file.                                    *)
(***************************************************************************)
EXTENDS TsVerdict, Sequences

CONSTANTS Cases,       \* the tests Playwright loads, one per project
          Readonly,    \* those of setup and teardown projects
          DependsOn,   \* the setup cases a case's project waits for
          Serial,      \* the cases of a serial group, retried together
          NameOf,      \* a case's identity: without project prefixes two
                       \* projects' cases share one
          Retries,     \* the retries each case is given
          Declares,    \* what each case may declare it expects of itself
          Statuses,    \* how an attempt may end
          Halting,     \* what may halt the run
          Durations,   \* averages the first phase may come to, in ms
          RerunLines,  \* bound on the lines a rerun may leave for one test
          Receiving,   \* what sending the verdict may come to
          Environments, Quarantines, Contexts, Answers

F == INSTANCE TsFlakyDetector WITH Names <- Tests

Collectable == Cases \ Readonly

\* setup: the global setup is installed beside the reporter.  deps: FALSE under
\* Playwright's --no-deps, which loads no setup nor teardown project.  hook: this
\* Playwright calls preprocess.  sharded, share: the run is a shard
\* and these are the cases Playwright gives it.  yields: it can hand sharding
\* over.  taken: another reporter took it over.  excludes: exclude() does not
\* throw.  reruns: its CLI is found.
Environment == [enabled    : BOOLEAN,
                setup      : BOOLEAN,
                deps       : BOOLEAN,
                client     : BOOLEAN,
                enable     : EnableValues,
                attributes : SUBSET AttributeKeys,
                hook       : BOOLEAN,
                sharded    : BOOLEAN,
                share      : SUBSET Cases,
                yields     : BOOLEAN,
                taken      : BOOLEAN,
                excludes   : BOOLEAN,
                fingerprint: BOOLEAN,
                failOnFlaky: BOOLEAN,
                reruns     : BOOLEAN,
                debug      : BOOLEAN]

AttemptStatus == {"passed", "failed", "timedOut", "interrupted", "skipped"}

ASSUME PlaywrightConstants ==
  /\ Readonly \subseteq Cases /\ Serial \subseteq Collectable
  /\ DependsOn \in [Cases -> SUBSET Readonly]
  /\ NameOf \in [Cases -> Tests] /\ IsFiniteSet(Tests)
  /\ Retries \in [Cases -> Nat] /\ RerunLines \in Nat
  /\ Declares \in [Cases -> SUBSET {"passed", "failed", "skipped"}]
  /\ Statuses \subseteq AttemptStatus
  /\ Halting \subseteq {"interrupted", "timedout", "maxFailures"}
  /\ Receiving \subseteq Receipts
  /\ Durations \subseteq Nat \ {0}
  /\ Environments \subseteq Environment
  /\ \A e \in Environments : e.share \subseteq Collectable /\ (~e.sharded => e.share = Collectable)
  /\ Quarantines \subseteq SUBSET Tests
  /\ Contexts \subseteq F!FlakyContexts
  /\ Answers \subseteq Responses

VARIABLES
  env,
  phase,
  stateFile,
  selection, application,  \* testSelection, undefined while the first is NoSelection
  collection,              \* the run asked, with the fingerprint of these identities
  excluded,                \* cases preprocess took out
  sharding,                \* who partitions: Playwright or the reporter
  kept,                    \* history: what the answer lets run, once one was applied
  suite,                   \* the cases Playwright runs, as onBegin sees them
  detector,                \* the flaky context onBegin read
  results, expected, annotated,
  runErrors, halted,
  caught, phase1,
  witnessed,               \* history: outcomes of the final attempts of candidates
  metrics, reruns,
  final, verdict, receipt, echo, block, reported, status

decision == <<selection, application, collection, excluded, sharding, kept>>
begun    == <<suite, detector>>
attempts == <<results, expected, annotated, caught, phase1, witnessed>>
trouble  == <<runErrors, halted>>
ending   == <<metrics, reruns, final, verdict, receipt, echo, block, reported, status>>
vars == <<env, phase, stateFile, decision, begun, attempts, trouble, ending>>

NoSelection == [FullRun("not_requested") EXCEPT !.selection = "unrecognised"]
NoApplication == Application("full", "none", {}, 0, 0)
NotAsked == [asked |-> FALSE, ids |-> {}]

NamesOf(C) == {NameOf[c] : c \in C}

Init ==
  /\ env \in Environments
  /\ phase = "setup"
  /\ stateFile = [shape |-> "unusable", quarantined |-> {}, flaky |-> F!NoContext]
  /\ selection = NoSelection /\ application = NoApplication
  /\ collection = NotAsked /\ excluded = {} /\ sharding = "playwright" /\ kept = Everything
  /\ suite = {} /\ detector = F!NoContext
  /\ results = [c \in Cases |-> <<>>] /\ expected = [c \in Cases |-> "passed"]
  /\ annotated = {} /\ runErrors = {} /\ halted = "no"
  /\ caught = {} /\ phase1 = [t \in Tests |-> "none"] /\ witnessed = [t \in Tests |-> {}]
  /\ metrics = [t \in Tests |-> F!NoMetrics] /\ reruns = [t \in Tests |-> <<>>]
  /\ final = NothingRecorded /\ verdict = NoVerdict /\ receipt = NotSent
  /\ echo = NoEcho /\ block = NoBlock /\ reported = "none" /\ status = "none"

-----------------------------------------------------------------------------
(* The global setup, and the file it leaves for the reporter and workers.  *)

\* How the file ends up: whole, with a block about flaky detection that lacks a
\* field, or no use to anyone (not written, cut short, of another version).
Shapes == {"whole", "flaky malformed", "unusable"}

GlobalSetup(list, names, flaky, context, shape) ==
  /\ phase = "setup"
  /\ phase' = "loading"
  /\ stateFile' =
       IF /\ env.setup /\ env.enabled /\ env.client /\ "branch" \in env.attributes
          /\ shape # "unusable"
       THEN [shape |-> shape, quarantined |-> F!FetchQuarantineList(list, names),
             flaky |-> F!FetchFlakyContext(flaky, context)]
       ELSE stateFile
  /\ UNCHANGED <<env, decision, begun, attempts, trouble, ending>>

\* What a reader makes of a block it cannot use.
Malformed == [F!NoContext EXCEPT !.usable = TRUE]

NoState == [read |-> FALSE, quarantined |-> {}, flaky |-> F!NoContext]

\* readStateFile: null for a file that is missing, unreadable or not whole; a
\* malformed flaky block is stripped and the rest kept.
ReadStateFile(readable) ==
  IF ~readable \/ stateFile.shape = "unusable" THEN NoState
  ELSE [read |-> TRUE, quarantined |-> stateFile.quarantined,
        flaky |-> IF stateFile.shape = "whole" THEN stateFile.flaky ELSE F!NoContext]

\* loadWorkerState: the unhealthy tests are absorbed like quarantined ones.
WorkerList ==
  LET s == ReadStateFile(TRUE)
  IN s.quarantined \cup (IF s.flaky.mode = "unhealthy" THEN s.flaky.toProcess ELSE {})

-----------------------------------------------------------------------------
(* preprocess: before the run, with the whole collection at hand.          *)

Preprocessed ==
  /\ phase = "loading" /\ phase' = "loaded"
  /\ UNCHANGED <<env, stateFile, begun, attempts, trouble, ending>>

MayAsk ==
  /\ env.hook /\ env.enabled /\ IsTestSelectionEnabled(env.enable)
  /\ env.client /\ HasCoordinates(env.attributes)

DoesNotAsk ==
  /\ ~MayAsk \/ (env.sharded /\ ~env.yields)
  /\ Preprocessed /\ UNCHANGED decision

\* What the listing subprocess may print: ids it saw before and after sharding.
\* It is Playwright's own partition: over the same suite, the same slice.
Listings == {l \in [corpus : SUBSET Collectable, slice : SUBSET Collectable] :
               l.corpus = Collectable => l.slice = env.share}

\* Mutated form: only a surplus is a disagreement.
ListingAgreesOneWay(l) == l.corpus \subseteq Collectable /\ l.slice \subseteq l.corpus

\* listingDisagreement is undefined.
ListingAgrees(l) == l.corpus = Collectable /\ l.slice \subseteq l.corpus

MayTakeShard == MayAsk /\ env.sharded /\ env.yields

\* The listing failed (null), or describes another suite.
SliceUnavailable ==
  /\ MayTakeShard
  /\ Preprocessed
  /\ selection' = FullRun("shard_slice_unavailable")
  /\ application' = ApplyToCollected(selection', {})
  /\ UNCHANGED <<collection, excluded, sharding, kept>>

\* skipSharding throws: preprocess catches it, nothing was taken over.
ShardingTaken ==
  /\ MayTakeShard /\ env.taken
  /\ \E l \in Listings : ListingAgrees(l)
  /\ Preprocessed /\ UNCHANGED decision

\* The cases this leg collects, and whoever shards them: all of them without
\* shards, and the listed slice once sharding was taken over.
Collects(mine) ==
  IF env.sharded
  THEN /\ MayTakeShard /\ ~env.taken
       /\ \E l \in Listings : ListingAgrees(l) /\ mine = l.slice
       /\ sharding' = "reporter"
  ELSE /\ MayAsk /\ mine = Collectable
       /\ UNCHANGED sharding

\* The binding cannot fingerprint the collection, or exclude() threw while the
\* other shards' cases were taken out, with `missed' of them left.
AsksNothing(mine, missed) ==
  /\ Collects(mine) /\ missed \subseteq Collectable \ mine
  /\ IF missed = {} THEN ~env.fingerprint ELSE ~env.excludes
  /\ Preprocessed
  /\ excluded' = (Collectable \ mine) \ missed
  /\ UNCHANGED <<selection, application, collection, kept>>

\* The cases of this leg an answer takes out.
TakenOut(a, mine) ==
  IF a.outcome \in {"refused", "empty"} THEN mine
  ELSE IF a.outcome = "subset" THEN {c \in mine : NameOf[c] \notin a.keep} ELSE {}

\* The answer is applied, up to `missed': exclude() threw with these left, and
\* preprocess forgets the selection it could not apply.
AsksForSelection(mine, response, missed) ==
  LET s == FetchTestSelection(response)
      a == ApplyToCollected(s, NamesOf(mine))
  IN /\ env.fingerprint /\ Collects(mine)
     /\ Preprocessed
     /\ collection' = [asked |-> TRUE, ids |-> NamesOf(mine)]
     /\ missed \subseteq TakenOut(a, mine) /\ (env.excludes => missed = {})
     /\ excluded' = (Collectable \ mine) \cup (TakenOut(a, mine) \ missed)
     /\ kept' = IF a.outcome = "full" THEN Everything ELSE a.keep
     /\ IF missed = {} THEN selection' = s /\ application' = a
                       ELSE UNCHANGED <<selection, application>>

-----------------------------------------------------------------------------
(* onBegin: the suite as Playwright runs it.                               *)

SuiteLeft ==
  (IF env.deps THEN Readonly ELSE {}) \cup ((IF sharding = "playwright" THEN env.share ELSE Collectable) \ excluded)

IsCandidate(t) == t \in F!Candidates(detector, NamesOf(suite))

\* A suite left without a test is an error of Playwright's own, on a run that is
\* not sharded.
OnBegin(readable) ==
  /\ phase = "loaded"
  /\ phase' = "running"
  /\ suite' = SuiteLeft
  /\ detector' = ReadStateFile(readable).flaky
  /\ runErrors' = IF suite' = {} /\ ~env.sharded THEN {"no tests found"} ELSE {}
  /\ UNCHANGED <<env, stateFile, decision, attempts, halted, ending>>

-----------------------------------------------------------------------------
(* Attempts: Playwright's loop, the fixture's teardown, onTestEnd.         *)

Attempts(c) == {results[c][i] : i \in DOMAIN results[c]}

\* TestCase.outcome(), as Playwright computes it (external).
Outcome(c) ==
  LET seen    == Attempts(c) \ {"interrupted"}
      met     == expected[c] \in seen \ {"skipped"}
      unmet   == seen \ {"skipped", expected[c]} # {}
      skipped == "skipped" \in seen /\ expected[c] = "skipped"
  IN IF ~met /\ ~unmet THEN "skipped" ELSE IF ~unmet THEN "expected"
     ELSE IF ~met /\ ~skipped THEN "unexpected" ELSE "flaky"

Ok(c) == Outcome(c) # "unexpected"

\* Playwright counts it against the job.
Gates(c) == ~Ok(c) \/ (env.failOnFlaky /\ Outcome(c) = "flaky")

Failing(c) ==
  results[c] # <<>> /\ results[c][Len(results[c])] \notin {"skipped", expected[c]}

MustRetry(c) == halted = "no" /\ Failing(c) /\ Len(results[c]) <= Retries[c]

Finished(c) == results[c] # <<>> /\ ~MustRetry(c)

\* The setup cases a case waits for, if they are loaded.
Waits(c) == IF env.deps THEN DependsOn[c] ELSE {}

MayStart(c) ==
  /\ \A d \in Waits(c) : Finished(d) /\ Ok(d)
  /\ Len(results[c]) <= Retries[c]
  /\ \/ results[c] = <<>>
     \/ halted = "no" /\ Failing(c)
     \/ halted = "no" /\ c \in Serial /\ \E d \in Serial \ {c} : Failing(d)

\* An attempt that declares its expectation and ends: skipped by its author, run,
\* or not run because of another failure or the run's end.
MayEnd(c, declared, how) ==
  /\ declared = "skipped" => how = "skipped"
  /\ how = "skipped" /\ declared # "skipped" =>
       /\ declared = expected[c]
       /\ halted # "no" \/ \E d \in suite \ {c} : Failing(d)
  /\ how = "interrupted" => halted # "no"
  /\ halted # "no" => how \in {"interrupted", "skipped"}

FailedStatuses == {"failed", "timedOut", "interrupted"}

\* applyQuarantine's condition; `reached': the fixture's teardown saw the failure
\* (a beforeAll or a later teardown's it does not) and read the file.
Absorbs(c, how, reached) ==
  reached /\ how \in FailedStatuses /\ NameOf[c] \in WorkerList

\* Mutated form: an absorbed failure waits for retries that never come.
IsFinalByRetries(c, how, quarantined) ==
  how \in {"passed", "skipped"} \/ Len(results[c]) >= Retries[c]

\* Read before the attempt is counted: Len is its retry.
IsFinal(c, how, quarantined) ==
  quarantined \/ how \in {"passed", "skipped"} \/ Len(results[c]) >= Retries[c]

PassOrFail(how) == IF how = "passed" THEN "pass" ELSE "fail"

\* Mutated form: the last project to report a test speaks for all of them.
Phase1LastWord(t, how) == [phase1 EXCEPT ![t] = PassOrFail(how)]

\* One outcome per identity, a failure preserved.
Phase1With(t, how) == [phase1 EXCEPT ![t] = IF @ = "fail" THEN @ ELSE PassOrFail(how)]

OnTestEnd(c, how, quarantined) ==
  LET t     == NameOf[c]
      last == IsFinal(c, how, quarantined)
  IN /\ caught' = IF last /\ quarantined THEN caught \cup {t} ELSE caught
     /\ IF last /\ IsCandidate(t) /\ how # "skipped"
        THEN /\ phase1' = Phase1With(t, how)
             /\ witnessed' = [witnessed EXCEPT ![t] = @ \cup {PassOrFail(how)}]
        ELSE UNCHANGED <<phase1, witnessed>>

Attempt(c, declared, how, reached) ==
  /\ phase = "running" /\ c \in suite /\ MayStart(c)
  /\ MayEnd(c, declared, how)
  /\ results' = [results EXCEPT ![c] = Append(@, how)]
  /\ LET absorbed == Absorbs(c, how, reached)
     IN /\ expected' = [expected EXCEPT ![c] = IF absorbed THEN how ELSE declared]
        /\ annotated' = IF absorbed THEN annotated \cup {c} ELSE annotated \ {c}
        /\ OnTestEnd(c, how, absorbed)
  /\ UNCHANGED <<env, phase, stateFile, decision, begun, trouble, ending>>

\* Playwright is through: each case ran, or its setup failed or never ran, or the
\* run was halted.
Unstarted(c) == results[c] = <<>> /\ \E d \in Waits(c) : results[d] = <<>> \/ ~Ok(d)

Over == halted # "no" \/ \A c \in suite : Finished(c) \/ Unstarted(c)

\* The run is interrupted, runs out of time, or meets `maxFailures'.
Halts(why) ==
  /\ phase = "running" /\ halted = "no" /\ ~Over
  /\ why = "maxFailures" => \E c \in suite : Gates(c)
  /\ halted' = why
  /\ UNCHANGED <<env, phase, stateFile, decision, begun, attempts, runErrors, ending>>

\* onError: a worker died, a global teardown threw; onEnd is the first to look.
RunError ==
  /\ phase = "running" /\ Over
  /\ runErrors' = runErrors \cup {"other"}
  /\ UNCHANGED <<env, phase, stateFile, decision, begun, attempts, halted, ending>>

-----------------------------------------------------------------------------
(* onEnd.                                                                  *)

\* FullResult.status (external).
Reported ==
  IF halted \in {"interrupted", "timedout"} THEN halted
  ELSE IF runErrors # {} \/ \E c \in suite : Gates(c) THEN "failed" ELSE "passed"

\* Mutated form: one error about the empty suite hides the others.
FinalRunStatusBySome ==
  IF application.outcome = "refused" THEN "failed"
  ELSE IF /\ application.outcome = "empty" /\ Reported = "failed"
          /\ application.deselectedCount > 0
          /\ runErrors = {} \/ "no tests found" \in runErrors
          /\ \A c \in suite : ~Gates(c)
  THEN "passed" ELSE Reported

\* Mutated form: what a run-level error broke is not looked at.
FinalRunStatusByTests ==
  IF application.outcome = "refused" THEN "failed"
  ELSE IF /\ application.outcome = "empty" /\ Reported = "failed"
          /\ application.deselectedCount > 0
          /\ \A c \in suite : ~Gates(c)
  THEN "passed" ELSE Reported

\* finalRunStatus.
FinalRunStatus ==
  IF application.outcome = "refused" THEN "failed"
  ELSE IF /\ application.outcome = "empty" /\ Reported = "failed"
          /\ application.deselectedCount > 0
          /\ runErrors \subseteq {"no tests found"}
          /\ \A c \in suite : ~Gates(c)
  THEN "passed" ELSE Reported

Measured == {t \in Tests : phase1[t] # "none"}

RepeatEach(duration) == F!ComputeRepeatBudget(detector, NamesOf(suite), duration)

Phase2Runs(duration) ==
  /\ detector # F!NoContext /\ FinalRunStatus # "interrupted"
  /\ Measured # {} /\ RepeatEach(duration) >= 1 /\ env.reruns

\* The attempts a line of the rerun's file is about a verdict on the test; a
\* skipped one is dropped, and so is any status but these two.
Telling(lines) == {i \in DOMAIN lines : lines[i] \in {"passed", "failed"}}

\* recordOutcome for the first phase's outcome, then for each such line.
Recorded(t, lines) ==
  LET first == IF phase1[t] = "none" THEN F!NoMetrics
               ELSE F!RecordOutcome(F!NoMetrics, phase1[t])
  IN [first EXCEPT !.outcomes = @ \cup {PassOrFail(lines[i]) : i \in Telling(lines)},
                   !.attempts = @ + Cardinality(Telling(lines))]

\* runFlakyDetectionPhase2: whatever the subprocess left, some or no lines.
Phase2(duration, lines) ==
  /\ reruns' = [t \in Tests |-> IF Phase2Runs(duration) /\ t \in Measured THEN lines[t] ELSE <<>>]
  /\ metrics' = IF detector = F!NoContext THEN metrics
                ELSE [t \in Tests |-> Recorded(t, reruns'[t])]

\* Mutated form: what did not run counts as skipped by its author.
FinalStatusByOutcome(c) ==
  IF c \in annotated THEN "quarantined_failed"
  ELSE IF results[c] = <<>> THEN "none"
  ELSE IF Outcome(c) = "unexpected" THEN "failed"
  ELSE IF Outcome(c) = "flaky" THEN (IF env.failOnFlaky THEN "failed" ELSE "passed")
  ELSE IF Outcome(c) = "expected" THEN "passed" ELSE "skipped"

\* finalStatus.
FinalStatusOf(c) ==
  IF c \in annotated THEN "quarantined_failed"
  ELSE IF results[c] = <<>> THEN "none"
  ELSE IF Outcome(c) = "unexpected" THEN "failed"
  ELSE IF Outcome(c) = "flaky" THEN (IF env.failOnFlaky THEN "failed" ELSE "passed")
  ELSE IF Outcome(c) = "expected" THEN "passed"
  ELSE IF expected[c] = "skipped" THEN "skipped" ELSE "failed"

\* foldVerdict: the suite without its readonly projects.
FoldVerdict ==
  IF collection.asked
  THEN Fold({<<NameOf[c], FinalStatusOf(c)>> : c \in suite \ Readonly})
  ELSE NothingRecorded

\* sendVerdict: nothing that went wrong in the run withholds it.
SendVerdict(how) ==
  IF ~collection.asked \/ ~env.client \/ ~HasVerdictIdentity(env.attributes)
  THEN verdict' = NoVerdict /\ receipt' = NotSent
  ELSE /\ verdict' = BuildSessionVerdict(Cardinality(collection.ids), final', echo')
       /\ receipt' = SendSessionVerdict(IF env.debug THEN "stored" ELSE how)

\* reportTestSelection.
ReportTestSelection ==
  IF selection = NoSelection THEN NoBlock ELSE FormatTestSelectionReport(selection, application)

RunEnd(how, duration, lines) ==
  /\ phase = "running" /\ Over
  /\ phase' = "ended"
  /\ reported' = Reported /\ status' = FinalRunStatus
  /\ Phase2(duration, lines)
  /\ final' = FoldVerdict
  /\ echo' = IF selection = NoSelection THEN NoEcho ELSE SelectionEcho(selection, application)
  /\ SendVerdict(how)
  /\ block' = ReportTestSelection
  /\ UNCHANGED <<env, stateFile, decision, begun, attempts, trouble>>

\* onEnd's flakyDetection marks.
Flagged == {t \in Measured : F!IsFlaky(metrics[t])}

Ended == phase = "ended" /\ UNCHANGED vars

Prepares ==
  \/ \E list, flaky \in {"answered", "dormant", "threw"}, names \in Quarantines,
       context \in Contexts, shape \in Shapes : GlobalSetup(list, names, flaky, context, shape)
  \/ DoesNotAsk \/ SliceUnavailable \/ ShardingTaken
  \/ \E mine, missed \in SUBSET Collectable : AsksNothing(mine, missed)
  \/ \E mine, missed \in SUBSET Collectable, response \in Answers :
       AsksForSelection(mine, response, missed)
  \/ \E readable \in BOOLEAN : OnBegin(readable)

Runs ==
  \/ \E c \in Cases, how \in Statuses, reached \in BOOLEAN :
       \E declared \in Declares[c] : Attempt(c, declared, how, reached)
  \/ \E why \in Halting : Halts(why)
  \/ RunError

\* What a rerun may leave of the tests that are repeated.
Leaves == UNION {[1..n -> {"passed", "failed", "timedOut", "skipped"}] : n \in 0..RerunLines}

Ends ==
  \E how \in Receiving, duration \in Durations, lines \in [Measured -> Leaves] :
    RunEnd(how, duration, lines)

Next == Prepares \/ Runs \/ Ends \/ Ended

Spec == Init /\ [][Next]_vars

-----------------------------------------------------------------------------
(* Properties.                                                             *)

\* Each variable holds what its place in the code may hold; in particular the
\* detector is never built from a block of the state file that lacks a field.
TypeOK ==
  /\ env \in Environments
  /\ phase \in {"setup", "loading", "loaded", "running", "ended"}
  /\ stateFile \in [shape : Shapes, quarantined : Quarantines \cup {{}},
                    flaky : Contexts \cup {F!NoContext}]
  /\ selection \in TestSelection /\ application \in Applications
  /\ collection \in [asked : BOOLEAN, ids : SUBSET Tests]
  /\ excluded \subseteq Collectable /\ sharding \in {"playwright", "reporter"}
  /\ kept \in {Everything} \cup SUBSET Tests
  /\ suite \subseteq Cases /\ detector \in Contexts \cup {F!NoContext}
  /\ results \in [Cases -> Seq(Statuses)] /\ \A c \in Cases : Len(results[c]) <= Retries[c] + 1
  /\ expected \in [Cases -> AttemptStatus] /\ annotated \subseteq suite
  /\ runErrors \subseteq {"no tests found", "other"}
  /\ halted \in {"no", "interrupted", "timedout", "maxFailures"}
  /\ caught \subseteq Tests /\ phase1 \in [Tests -> {"none", "pass", "fail"}]
  /\ witnessed \in [Tests -> SUBSET {"pass", "fail"}]
  /\ metrics \in [Tests -> F!Metrics]
  /\ final \in [Tests -> Status] /\ receipt \in Results
  /\ {reported, status} \subseteq {"none", "passed", "failed", "interrupted", "timedout"}

\* Rewriting the status of an emptied run hides nothing: one that ends green had
\* no failing attempt but those retried, expected or absorbed, and no run-level
\* error but Playwright's own about the empty suite; a refused one is red.
GreenHidesNothing ==
  phase = "ended" =>
    /\ status = "passed" =>
         /\ "other" \notin runErrors /\ halted = "no"
         /\ \A c \in suite : Failing(c) => env.failOnFlaky = FALSE /\ Outcome(c) = "flaky"
         /\ runErrors # {} => excluded # {} /\ suite = {}
    /\ application.outcome = "refused" => status = "failed" /\ suite \subseteq Readonly

\* A test of the collection that counts against the job is named by the verdict
\* the retry is answered from, whatever another project made of the same test;
\* and every test it names did fail, or did not run.
VerdictNamesEveryFailure ==
  phase = "ended" /\ receipt.sent =>
    /\ \A c \in suite \ Readonly : Gates(c) => NameOf[c] \in verdict.failing \cup verdict.quarantined
    /\ \A t \in verdict.failing : \E c \in suite \ Readonly :
         NameOf[c] = t /\ (Gates(c) \/ (Outcome(c) = "skipped" /\ expected[c] # "skipped"))

\* A test one case stands for, and which was started and never ran to an end of
\* its own, is neither passed nor skipped in the verdict: a rerun that left it
\* out would go green over a test nobody executed.
NothingUnrunReadsDone ==
  phase = "ended" =>
    \A c \in suite \ Readonly :
      /\ \A d \in (suite \ Readonly) \ {c} : NameOf[d] # NameOf[c]
      /\ final[NameOf[c]] \in {"passed", "skipped"}
      => expected[c] \in Attempts(c)

\* A quarantined failure the fixture saw costs the job nothing and is accounted
\* for: it is not retried and, in a run nothing halts, never the test's outcome; it
\* is among those caught, and the verdict lists it as failed and not as passed.
AbsorbedIsCaught ==
  \A c \in annotated :
    /\ ~Failing(c) /\ (halted = "no" => Ok(c))
    /\ NameOf[c] \in caught
    /\ phase = "ended" /\ receipt.sent /\ c \notin Readonly =>
         NameOf[c] \in verdict.failing \cup verdict.quarantined

\* A test is called flaky exactly if the attempts that tell something disagree:
\* its first outcome, a failure where any project's last attempt failed, and
\* those of the reruns; and its rerun count is the number of those.
FlakyIsEarned ==
  phase = "ended" =>
    \A t \in Measured :
      LET first == IF "fail" \in witnessed[t] THEN "fail" ELSE "pass"
          again == {PassOrFail(reruns[t][i]) : i \in Telling(reruns[t])}
      IN /\ t \in Flagged <=> {first} \cup again = {"pass", "fail"}
         /\ F!RerunCount(metrics[t]) = Cardinality(Telling(reruns[t]))

OwnShare == IF phase \in {"running", "ended"} THEN env.share \ suite ELSE {}

\* The terminal block states what happened to this run's own share of the suite.
ReportIsTrue ==
  /\ block.text \in {"in full", "not matching, in full", "could not be asked"} => OwnShare = {}
  /\ block.text \in {"none executed", "nothing to run", "stopped"} => suite \subseteq Readonly
  /\ block.text \in {"only those re-executed", "all re-executed"} =>
       /\ NamesOf(suite \ Readonly) = selection.tests
       /\ block.failed = Cardinality(selection.tests)
  /\ block.text \in {"only those re-executed", "none executed"} =>
       block.skipped = Cardinality(NamesOf(OwnShare))

\* What the run promises its caller: it decides before the first test, and a case
\* of its own share is missing from the suite only if the decision leaves it out.
Decided == phase \notin {"setup", "loading"}
Executed == {c \in suite \ Readonly : Attempts(c) \ {"skipped"} # {}}
Conclusion ==
  IF phase # "ended" THEN "open"
  ELSE IF application.outcome \in {"empty", "subset"} THEN "reduced" ELSE "other"

Contract == INSTANCE SelectionContract WITH
  decided <- Decided, keep <- kept, executed <- NamesOf(Executed),
  leftOut <- NamesOf(OwnShare), conclusion <- Conclusion

ImplementsContract == Contract!Spec

\* README.md:175-178: a setup failure makes the next attempt run everything; in
\* the words of reporter.ts:395-397, the verdict reports the tests it leaves
\* unstarted as not executed.
FailedSetupReadsIncomplete ==
  phase = "ended" /\ receipt.sent /\ (\E c \in suite \ Readonly : \E d \in DependsOn[c] : ~Ok(d))
    => ~IsComplete(verdict) \/ verdict.failing # {}
=============================================================================
