------------------------------- MODULE RSpecRun -------------------------------
(***************************************************************************)
(* One `rspec' process with the rspec-mergify gem                          *)
(* (clients/rspec-mergify/lib/mergify/rspec): before the suite it asks     *)
(* what to run and narrows RSpec's lists, around each example it reruns it *)
(* for flaky detection, after each attempt it takes a quarantined failure  *)
(* back, and at the end it says what the session concluded.  RSpec decides *)
(* an example's result only once every hook has returned, from what the    *)
(* attempts left on it: an exception, a pending message.                   *)
(*                                                                         *)
(* External: RSpec's own loop over groups and examples, its context and    *)
(* suite hooks, mock verification, fail-fast and exit code; the engine's   *)
(* answers; the clock.                                                     *)
(***************************************************************************)
EXTENDS Naturals, FiniteSets

CONSTANTS Ids,          \* example ids the server may name
          Examples,     \* those of the spec files this process loads
          Groups,
          GroupOf,
          NoExample,
          Everything,   \* "run all of them": no set of ids
          Environments, \* what a process may be started under
          Filters,      \* what RSpec's own filters may leave
          Quarantines, Contexts, Answers

B == INSTANCE BudgetEngine WITH Tests <- Ids

\* client: a token, a repository, the native extension.  base: the run has a base
\* branch.  tooLong: ids over max_test_name_length.  limit: RSpec's fail_fast, 0
\* without.
Environment == [client     : BOOLEAN,
                enabled    : BOOLEAN,
                attributes : SUBSET {"branch", "sha", "pipeline", "override", "task"},
                base       : BOOLEAN,
                tooLong    : SUBSET Ids,
                limit      : Nat]

NoContext == [mode |-> "none"]

\* What asking may come back with; "unanswered" is null, or an ApiError.
Selections == {"full", "subset", "empty", "refused", "unrecognised"}
Response == [selection : Selections \cup {"unanswered"}, tests : SUBSET Ids]

ASSUME RSpecConstants ==
  /\ IsFiniteSet(Examples) /\ Examples \subseteq Ids /\ NoExample \notin Ids
  /\ GroupOf \in [Examples -> Groups]
  /\ \A S \in SUBSET Ids : Everything # S
  /\ Environments \subseteq Environment
  /\ Filters \subseteq SUBSET Examples
  /\ Quarantines \subseteq SUBSET Ids /\ Contexts \subseteq B!Context
  /\ Answers \subseteq Response

VARIABLES
  env, context, quarantined,   \* what the gem learnt when it was required
  filtered,        \* what RSpec's filters left of the examples
  phase,
  attached,        \* the formatter listens
  selection, keep, echo,
  session,         \* the ids the budget is planned for
  group,           \* each group: waiting, open, done
  status,          \* each example's result, as RSpec reported it
  quit, outside,   \* RSpec.world: wants_to_quit, non_example_failure
  example,         \* the one in hand, and what its attempts left on it
  flaky,
  verdict, receipt, red,
  seen, interrupted   \* history: each example's attempts; a Ctrl-C

learnt  == <<env, context, quarantined, filtered>>
decided == <<attached, selection, keep, echo>>
world   == <<group, quit, outside, interrupted>>
tests   == <<status, example, flaky, seen>>
ending  == <<verdict, receipt, red>>
vars == <<learnt, phase, decided, session, world, tests, ending>>

Mode == IF env.base THEN "new" ELSE "unhealthy"

NotApplied == {"none", "subset_served_without_tests", "unrecognised_selection",
               "subset_matched_no_collected_test", "subset_partly_absent_from_collection"}
NoSelection == [selection |-> "none", tests |-> {}, served |-> FALSE, notApplied |-> "none"]
NoEcho      == [answer |-> "none", kept |-> 0, notApplied |-> "none"]
NoVerdict   == [failing |-> {}, quarantined |-> {}, executed |-> 0, collected |-> 0, echo |-> NoEcho]

Statuses == {"none", "passed", "failed", "skipped", "quarantined_failed"}
Idle == [id |-> NoExample, step |-> "none", exception |-> FALSE, initial |-> FALSE,
         firstFailure |-> FALSE, outcomes |-> {}, message |-> "none", noted |-> FALSE,
         executions |-> 0]

\* How an attempt may end: quietly, skipping itself, failing, with a failure RSpec
\* only adds once the after hooks have run (an unmet message expectation), or
\* with both; and the author's own around hook may raise after it.
Attempt == [ends : {"passed", "skipped", "failed", "late", "both"}, raises : BOOLEAN]
Unseen == [first |-> {}, later |-> {}]

Init ==
  /\ env \in Environments /\ filtered \in Filters
  /\ context \in {NoContext} \cup {c \in Contexts : env.client /\ B!ShouldRun(c, Mode)}
  /\ quarantined \in {{}} \cup
       {q \in Quarantines : env.client /\ (env.base \/ "branch" \in env.attributes)}
  /\ phase = "loaded" /\ attached = FALSE
  /\ selection = NoSelection /\ keep = Everything /\ echo = NoEcho /\ session = {}
  /\ group = [g \in Groups |-> "waiting"] /\ status = [t \in Examples |-> "none"]
  /\ quit = FALSE /\ outside = FALSE /\ interrupted = FALSE
  /\ example = Idle /\ flaky = {} /\ seen = [t \in Examples |-> Unseen]
  /\ verdict = NoVerdict /\ receipt = "none" /\ red = FALSE

-----------------------------------------------------------------------------
(* Before the suite.                                                       *)

\* A suite hook the author registered before the gem's breaks the chain.
EarlierHookFails ==
  /\ phase = "loaded"
  /\ phase' = "running" /\ quit' = TRUE /\ outside' = TRUE
  /\ UNCHANGED <<learnt, decided, session, group, interrupted, tests, ending>>

HasIdentity ==
  /\ {"branch", "sha", "pipeline"} \subseteq env.attributes
  /\ {"override", "task"} \cap env.attributes # {}

\* A process with nothing to run has nothing to reduce.
Asks == env.client /\ filtered # {} /\ env.enabled /\ HasIdentity

\* TestSelection.unanswered and TestSelection.served.
TestSelection(response) ==
  IF response.selection = "unanswered" THEN [NoSelection EXCEPT !.selection = "full"]
  ELSE [selection  |-> response.selection,
        tests      |-> IF response.selection = "subset" THEN response.tests ELSE {},
        served     |-> TRUE,
        notApplied |-> IF response.selection = "unrecognised" THEN "unrecognised_selection"
                       ELSE IF response.selection = "subset" /\ response.tests = {}
                       THEN "subset_served_without_tests" ELSE "none"]

\* Mutated form: a declined subset is not said to be.
ResolveSilently(s) == s

\* Identities, not counts: all of the subset is among the ids, or none of it counts.
Resolve(s) ==
  IF s.notApplied = "none" /\ s.selection = "subset" /\ ~(s.tests \subseteq filtered)
  THEN [s EXCEPT !.notApplied = IF s.tests \cap filtered = {}
                                THEN "subset_matched_no_collected_test"
                                ELSE "subset_partly_absent_from_collection"]
  ELSE s

\* What resolve leaves to run: nothing of a refused run either.
KeepOf(s) ==
  IF s.notApplied # "none" \/ s.selection \in {"full", "none"} THEN Everything
  ELSE IF s.selection = "subset" THEN (IF s.tests \subseteq filtered THEN s.tests ELSE Everything)
  ELSE {}

KeptCount(k) == Cardinality(IF k = Everything THEN filtered ELSE k)

\* select_examples, and the formatter attached before it.
SelectExamples(asked) ==
  /\ phase = "loaded"
  /\ phase' = "selected" /\ attached' = TRUE
  /\ selection' = Resolve(asked)
  /\ keep' = KeepOf(asked)
  /\ echo' = IF ~asked.served THEN NoEcho
             ELSE [answer |-> asked.selection, kept |-> KeptCount(keep'),
                   notApplied |-> selection'.notApplied]
  /\ quit' = (asked.notApplied = "none" /\ asked.selection = "refused")
  /\ UNCHANGED <<learnt, session, group, outside, interrupted, tests, ending>>

\* It does not ask, or a fault of the gem's own costs the run its reduction.
DoesNotAsk == SelectExamples(NoSelection)

AsksForSelection(response) == Asks /\ SelectExamples(TestSelection(response))

\* Flaky detection is prepared for every example that was loaded.
SuiteStarts ==
  /\ phase = "selected"
  /\ phase' = "running"
  /\ session' = IF context # NoContext THEN Examples ELSE {}
  /\ UNCHANGED <<learnt, decided, world, tests, ending>>

LaterHookFails ==
  /\ phase = "selected"
  /\ phase' = "running" /\ quit' = TRUE /\ outside' = TRUE
  /\ UNCHANGED <<learnt, decided, session, group, interrupted, tests, ending>>

-----------------------------------------------------------------------------
(* The groups, one at a time.                                              *)

ToRun == IF keep = Everything THEN filtered ELSE filtered \cap keep
KeptIn(g) == {t \in ToRun : GroupOf[t] = g}
Reported == {t \in Examples : status[t] # "none"}
WithStatus(s) == {t \in Examples : status[t] = s}

\* reporter.fail_fast_limit_met?
LimitMet(failed) == env.limit # 0 /\ Cardinality(failed) >= env.limit

MayOpen(g) == phase = "running" /\ ~quit /\ \A h \in Groups : group[h] # "open"

StartGroup(g) ==
  /\ MayOpen(g) /\ group[g] = "waiting"
  /\ group' = [group EXCEPT ![g] = "open"]
  /\ UNCHANGED <<learnt, phase, decided, session, quit, outside, interrupted, tests, ending>>

\* A before(:context) hook raises or skips: the group's examples are reported
\* without any of their hooks being run.
ContextHookRaises(g, result) ==
  /\ MayOpen(g) /\ group[g] = "waiting" /\ KeptIn(g) # {}
  /\ group' = [group EXCEPT ![g] = "done"]
  /\ status' = [t \in Examples |-> IF t \in KeptIn(g) THEN result ELSE status[t]]
  /\ quit' = (result = "failed" /\ LimitMet(WithStatus("failed") \cup KeptIn(g)))
  /\ UNCHANGED <<learnt, phase, decided, session, outside, interrupted, example, flaky, seen, ending>>

\* ... and an after(:context) hook that raises is no example's failure.
FinishGroup(g, hookFails) ==
  /\ phase = "running" /\ group[g] = "open" /\ example = Idle
  /\ quit \/ KeptIn(g) \subseteq Reported
  /\ hookFails => KeptIn(g) # {}
  /\ group' = [group EXCEPT ![g] = "done"]
  /\ outside' = (outside \/ hookFails)
  /\ UNCHANGED <<learnt, phase, decided, session, quit, interrupted, tests, ending>>

Interrupt ==
  /\ phase = "running" /\ ~quit
  /\ quit' = TRUE /\ interrupted' = TRUE
  /\ UNCHANGED <<learnt, phase, decided, session, group, outside, tests, ending>>

-----------------------------------------------------------------------------
(* One example.                                                            *)

InTurn(t) ==
  /\ phase = "running" /\ ~quit /\ example = Idle
  /\ t \in ToRun /\ status[t] = "none" /\ group[GroupOf[t]] = "open"

\* RSpec calls no hook for an example its author skips.
SkipExample(t) ==
  /\ InTurn(t)
  /\ status' = [status EXCEPT ![t] = "skipped"]
  /\ UNCHANGED <<learnt, phase, decided, session, world, example, flaky, seen, ending>>

\* An attempt as RSpec can have it: mocks are only verified where no exception
\* stands, and an example that once skipped itself stays pending, so that a pass
\* of it is a failure.
Possible(t, a) ==
  /\ a.ends = "both" => t \in quarantined
  /\ a.ends = "passed" => \A b \in seen[t].first \cup seen[t].later : b.ends # "skipped"

\* The quarantine's after hook takes the failure back, if the example is marked.
Absorbs(t, a) == t \in quarantined /\ a.ends \in {"failed", "both"}

\* What an attempt leaves behind once its after hooks and mocks are done.
Leaves(t, a) == a.ends \in {"late", "both"} \/ (a.ends = "failed" /\ ~Absorbs(t, a))

\* Everything an attempt leaves on the example, up to run_attempt's last line; an
\* around hook that raises goes past all of it.
AfterAttempt(e, t, a) ==
  LET noted == e.noted \/ Absorbs(t, a)
      left  == e.exception \/ Leaves(t, a)
  IN [id |-> t, step |-> e.step, initial |-> e.initial, firstFailure |-> e.firstFailure,
      executions |-> e.executions,
      exception |-> left \/ a.raises,
      message   |-> IF Absorbs(t, a) THEN "quarantine"
                    ELSE IF a.ends = "skipped" THEN "author" ELSE e.message,
      noted     |-> noted /\ (left \/ a.raises),
      outcomes  |-> e.outcomes \cup
                      (IF a.raises THEN {} ELSE {IF left \/ noted THEN "failed" ELSE "passed"})]

Targets == B!PlanTests(context, Mode, session, {}) \ env.tooLong
WantsRerun(t) == context # NoContext /\ t \in Targets

\* run_detecting_flakiness up to the loop: the first attempt, its metrics, and
\* whether the example's share of the budget leaves room for reruns.
FirstAttempt(t, a, tooSlow) ==
  /\ InTurn(t) /\ Possible(t, a)
  /\ LET e == AfterAttempt(Idle, t, a)
     IN example' = [e EXCEPT
          !.step = IF WantsRerun(t) /\ ~a.raises /\ ~tooSlow THEN "rerun" ELSE "finish",
          !.initial = e.exception, !.firstFailure = e.exception, !.executions = 1]
  /\ seen' = [seen EXCEPT ![t].first = {a}]
  /\ UNCHANGED <<learnt, phase, decided, session, world, status, flaky, ending>>

\* Mutated form: what an attempt left is not cleared before the next.
ResetNothing(e) == e

\* reset_for_rerun: RSpec would add the next failure to the one that stands.
ResetForRerun(e) == [e EXCEPT !.exception = FALSE]

\* Mutated form: the last attempt decides.
LastDecides(e) == e.exception

\* Any failure decides where the example is new, the first attempt elsewhere.
Decides(e) == IF Mode = "new" THEN e.firstFailure ELSE e.initial

\* One turn of the loop.  It is the last when the deadline is too close or the
\* next execution reaches the cap; the rule is applied after it.
Rerun(a, expired) ==
  LET t == example.id
      e == AfterAttempt(ResetForRerun(example), t, a)
      counted == [e EXCEPT !.firstFailure = @ \/ e.exception, !.executions = @ + 1]
      last == expired \/ example.executions + 1 >= context.max
  IN /\ phase = "running" /\ example.step = "rerun" /\ Possible(t, a)
     /\ seen' = [seen EXCEPT ![t].later = @ \cup {a}]
     /\ IF a.raises
        THEN example' = [e EXCEPT !.step = "finish"] /\ UNCHANGED flaky
        ELSE IF ~last THEN example' = counted /\ UNCHANGED flaky
        ELSE /\ example' = [counted EXCEPT !.step = "finish", !.exception = Decides(counted)]
             /\ flaky' = IF {"passed", "failed"} \subseteq counted.outcomes
                         THEN flaky \cup {t} ELSE flaky
     /\ UNCHANGED <<learnt, phase, decided, session, world, status, ending>>

\* Example#finish, and the status the formatter takes from it.
ResultOf(e) ==
  IF e.exception THEN "failed"
  ELSE IF e.message = "quarantine" THEN "quarantined_failed"
  ELSE IF e.message = "author" THEN "skipped" ELSE "passed"

FinishExample ==
  /\ phase = "running" /\ example.step = "finish"
  /\ status' = [status EXCEPT ![example.id] = ResultOf(example)]
  /\ quit' = (quit \/ (example.exception /\ LimitMet(WithStatus("failed") \cup {example.id})))
  /\ example' = Idle
  /\ UNCHANGED <<learnt, phase, decided, session, group, outside, interrupted, flaky, seen, ending>>

-----------------------------------------------------------------------------
(* After the suite.                                                        *)

\* RSpec's exit code: something failed, or did not run.
EndsRed(failedOutside) ==
  \/ failedOutside \/ \E g \in Groups : group[g] # "done"
  \/ ~(ToRun \subseteq Reported) \/ WithStatus("failed") # {}

SessionVerdict ==
  [failing |-> WithStatus("failed"), quarantined |-> WithStatus("quarantined_failed"),
   executed |-> Cardinality(Reported), collected |-> Cardinality(filtered), echo |-> echo]

\* Mutated form: it is sent whatever failed outside of the examples.
SendAnyhow(failedOutside, how) ==
  IF ~attached \/ selection = NoSelection
  THEN verdict' = NoVerdict /\ receipt' = "none"
  ELSE verdict' = SessionVerdict /\ receipt' = how

\* It is owed by a run that asked, and withheld where something failed that no
\* example carries.
SendSessionVerdict(failedOutside, how) ==
  IF ~attached \/ selection = NoSelection
  THEN verdict' = NoVerdict /\ receipt' = "none"
  ELSE IF failedOutside THEN verdict' = NoVerdict /\ receipt' = "withheld"
  ELSE verdict' = SessionVerdict /\ receipt' = how

\* The suite is over, its after hooks too; the formatter is told to stop.
RunEnd(hookFails, how) ==
  /\ phase = "running"
  /\ \A g \in Groups : group[g] = "done" \/ (quit /\ group[g] = "waiting")
  /\ phase' = "ended"
  /\ outside' = (outside \/ hookFails)
  /\ SendSessionVerdict(outside', how)
  /\ red' = EndsRed(outside')
  /\ UNCHANGED <<learnt, decided, session, group, quit, interrupted, tests>>

Ended == phase = "ended" /\ UNCHANGED vars

Next ==
  \/ EarlierHookFails \/ DoesNotAsk \/ SuiteStarts \/ LaterHookFails
  \/ \E response \in Answers : AsksForSelection(response)
  \/ \E g \in Groups : StartGroup(g)
  \/ \E g \in Groups, result \in {"failed", "skipped"} : ContextHookRaises(g, result)
  \/ \E g \in Groups, fails \in BOOLEAN : FinishGroup(g, fails)
  \/ Interrupt
  \/ \E t \in Examples : SkipExample(t)
  \/ \E t \in Examples, a \in Attempt, slow \in BOOLEAN : FirstAttempt(t, a, slow)
  \/ \E a \in Attempt, expired \in BOOLEAN : Rerun(a, expired)
  \/ FinishExample
  \/ \E fails \in BOOLEAN, how \in {"sent", "truncated", "dormant", "error"} : RunEnd(fails, how)
  \/ Ended

Spec == Init /\ [][Next]_vars

-----------------------------------------------------------------------------
(* Properties.                                                             *)

\* Each variable holds what its place in the code may hold.
TypeOK ==
  /\ env \in Environments /\ filtered \in Filters
  /\ context \in Contexts \cup {NoContext} /\ quarantined \in Quarantines \cup {{}}
  /\ phase \in {"loaded", "selected", "running", "ended"} /\ attached \in BOOLEAN
  /\ selection \in [selection : Selections \cup {"none"}, tests : SUBSET Ids, served : BOOLEAN,
                    notApplied : NotApplied]
  /\ keep \in {Everything} \cup SUBSET Ids /\ session \in {{}, Examples}
  /\ group \in [Groups -> {"waiting", "open", "done"}]
  /\ status \in [Examples -> Statuses] /\ seen \in [Examples -> [first : SUBSET Attempt, later : SUBSET Attempt]]
  /\ quit \in BOOLEAN /\ outside \in BOOLEAN /\ interrupted \in BOOLEAN
  /\ example \in [id : Examples \cup {NoExample}, step : {"none", "rerun", "finish"},
                  exception : BOOLEAN, initial : BOOLEAN, firstFailure : BOOLEAN,
                  outcomes : SUBSET {"passed", "failed"},
                  message : {"none", "author", "quarantine"}, noted : BOOLEAN, executions : Nat]
  /\ flaky \subseteq Examples
  /\ receipt \in {"none", "withheld", "sent", "truncated", "dormant", "error"} /\ red \in BOOLEAN

Raised(t)   == \E a \in seen[t].first \cup seen[t].later : a.raises
Left(t, A)  == \E a \in A : Leaves(t, a)
Attempted(t) == status[t] # "none" /\ seen[t].first # {}

\* What the first attempt would have made of its example, had it been the only one.
FirstAlone(t) ==
  IF \E a \in seen[t].first : a.raises \/ Leaves(t, a) THEN "failed"
  ELSE IF \E a \in seen[t].first : Absorbs(t, a) THEN "quarantined_failed"
  ELSE IF \E a \in seen[t].first : a.ends = "skipped" THEN "skipped" ELSE "passed"

\* No rerun left what the loop does not put back.
Unmarked(t) == \A a \in seen[t].later : ~a.raises /\ ~Absorbs(t, a) /\ a.ends # "skipped"

\* Which attempt decides (configuration.rb:159-161): in `new' mode any that left an
\* exception fails the example; in `unhealthy' mode the first attempt stands.  From
\* the latter the code departs where that comment does not, and only there: a rerun
\* that an around hook of the author's raises in fails the example, and one whose
\* failure the quarantine took back, or that skipped itself, leaves RSpec's pending
\* note on it, for reset_for_rerun and the rule at 182-183 put back no more than the
\* exception.  In either mode what the quarantine took back is no failure, and an
\* example that passes had nothing held against it by any of its attempts.
OneRuleDecides ==
  \A t \in Examples : Attempted(t) =>
    LET attempts == seen[t].first \cup seen[t].later
    IN /\ Mode # "new" /\ Unmarked(t) => status[t] = FirstAlone(t)
       /\ status[t] = "failed" <=>
            Raised(t) \/ Left(t, IF Mode = "new" THEN attempts ELSE seen[t].first)
       /\ status[t] = "passed" => \A a \in attempts : ~Absorbs(t, a) /\ a.ends # "skipped"
       /\ status[t] = "quarantined_failed" => \E a \in attempts : Absorbs(t, a)

\* Failed in fact, whatever was made of it.
FailedOnce(A) == \E a \in A : a.ends \in {"failed", "late", "both"}
QuietOnce(A)  == \E a \in A : a.ends \in {"passed", "skipped"}

\* An example is called flaky only if its attempts disagreed; and if they did and
\* the loop was not cut short it is, except where a failure the quarantine had
\* taken back stood beside another: the note of it is then left for the next
\* attempt to find (run_attempt).
FlakyIsEarned ==
  \A t \in Examples : Attempted(t) =>
    LET attempts == seen[t].first \cup seen[t].later
    IN /\ t \in flaky => FailedOnce(attempts) /\ QuietOnce(attempts)
       /\ FailedOnce(attempts) /\ QuietOnce(attempts) /\ ~Raised(t) /\ t \notin flaky
            => \E a \in attempts : a.ends = "both"

\* What the next rerun of the job is answered from agrees with how this run ended:
\* one that ends green names no failure and covers what the answer left to run, the
\* whole of a subset included; one that ends red names a failure, unless it was
\* refused or somebody stopped it.
VerdictAgreesWithExit ==
  phase = "ended" /\ receipt \in {"sent", "truncated"} =>
    /\ ~red => /\ verdict.failing = {}
               /\ verdict.echo.answer # "refused"
               /\ verdict.executed = IF selection.served THEN verdict.echo.kept ELSE verdict.collected
               /\ selection.selection = "subset" /\ selection.notApplied = "none"
                    => selection.tests = Reported
    /\ red /\ verdict.failing = {} => interrupted \/ verdict.echo.answer = "refused"

\* What the run promises its caller: it decides before the first example and leaves
\* out only what the decision leaves out.
Started == phase \in {"running", "ended"}
Conclusion ==
  IF phase # "ended" THEN "open"
  ELSE IF receipt # "withheld" /\ verdict.echo.notApplied = "none"
          /\ verdict.echo.answer \in {"subset", "empty"} THEN "reduced" ELSE "other"

Contract == INSTANCE SelectionContract WITH
  Tests <- Ids, decided <- phase # "loaded", keep <- keep, executed <- {t \in Examples : seen[t].first # {}},
  leftOut <- IF Started /\ attached THEN filtered \ ToRun ELSE {}, conclusion <- Conclusion

ImplementsContract == Contract!Spec
=============================================================================
