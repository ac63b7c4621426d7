----------------------------- MODULE TsSelection -----------------------------
(***************************************************************************)
(* The answer to "what should this run execute?" as the TypeScript clients *)
(* hold it (clients/ts/packages/core/src/test-selection.ts): how a raw     *)
(* answer, a dormant repository or a failed request becomes a selection,   *)
(* what a selection leaves of a whole collection to run, and what the run  *)
(* may say of it.  The Vitest and the Playwright client share it.          *)
(*                                                                         *)
(* A test is its identity, the name it is uploaded under; a collection is  *)
(* the set of distinct identities a run collected.                         *)
(***************************************************************************)
EXTENDS Naturals, FiniteSets

CONSTANTS Tests,       \* identities that may be collected or served
          Everything   \* "run all of them": no set of tests

ASSUME EverythingIsNoTestSet == \A S \in SUBSET Tests : Everything # S

\* "unrecognised" stands for every variant this client predates.
Selections == {"full", "subset", "empty", "refused", "unrecognised"}

\* "served" stands for whatever reason the server gave.
Reasons == {"served", "fetch_failed", "not_requested", "shard_slice_unavailable"}

NotAppliedReasons ==
  {"none", "subset_served_without_tests", "unrecognised_selection",
   "subset_matched_no_collected_test", "subset_partly_absent_from_collection"}

\* `served' is FALSE where Mergify did not answer; `notApplied' is set when the
\* answer's own shape cannot be acted on.
TestSelection == [selection  : Selections,
                  reason     : Reasons,
                  tests      : SUBSET Tests,
                  served     : BOOLEAN,
                  notApplied : NotAppliedReasons]

\* What the request may come back with: an answer, null, or a rejection.
Responses == [outcome   : {"answered", "dormant", "threw"},
              selection : Selections,
              tests     : SUBSET Tests]

Answered(selection, tests) ==
  [outcome |-> "answered", selection |-> selection, tests |-> tests]
Dormant == [outcome |-> "dormant", selection |-> "full", tests |-> {}]
Threw   == [outcome |-> "threw",   selection |-> "full", tests |-> {}]

-----------------------------------------------------------------------------
FullRun(reason) ==
  [selection |-> "full", reason |-> reason, tests |-> {}, served |-> FALSE,
   notApplied |-> "none"]

Served(selection, tests, notApplied) ==
  [selection |-> selection, reason |-> "served", tests |-> tests, served |-> TRUE,
   notApplied |-> notApplied]

\* Only a subset carries tests, and one without any is not acted on.
ToTestSelection(selection, tests) ==
  IF selection = "subset"
  THEN Served(selection, tests, IF tests = {} THEN "subset_served_without_tests" ELSE "none")
  ELSE Served(selection, {}, IF selection = "unrecognised" THEN "unrecognised_selection"
                                                           ELSE "none")

FetchTestSelection(response) ==
  IF response.outcome = "threw" THEN FullRun("fetch_failed")
  ELSE IF response.outcome = "dormant" THEN FullRun("not_requested")
  ELSE ToTestSelection(response.selection, response.tests)

\* The resource attributes that name the run; `override' is the job name the
\* operator sets, `task' the provider's own.
AttributeKeys == {"branch", "sha", "pipeline", "override", "task"}

HasJobName(attributes) == attributes \cap {"override", "task"} # {}

\* resolveSelectionCoordinates returns them: nothing is missing.
HasCoordinates(attributes) ==
  {"branch", "sha", "pipeline"} \subseteq attributes /\ HasJobName(attributes)

\* What MERGIFY_TEST_SELECTION_ENABLE may hold; only a value that parses as a
\* true opts in, whatever surrounds it.
EnableValues == {"unset", "blank", "true", "padded true", "false", "mistyped"}
EnvToBool(value) == value = "true"
Trim(value) == IF value = "padded true" THEN "true" ELSE value
IsTestSelectionEnabled(value) == EnvToBool(Trim(value))

-----------------------------------------------------------------------------
(* What the run does with the answer, once it has met the collection.      *)

Outcomes == {"full", "subset", "empty", "refused"}

Applications == [outcome         : Outcomes,
                 notApplied      : NotAppliedReasons,
                 keep            : SUBSET Tests,
                 keptCount       : Nat,
                 deselectedCount : Nat]

Application(outcome, notApplied, keep, kept, deselected) ==
  [outcome |-> outcome, notApplied |-> notApplied, keep |-> keep,
   keptCount |-> kept, deselectedCount |-> deselected]

RunsInFull(why, collected) == Application("full", why, {}, Cardinality(collected), 0)

\* Mutated form: a subset is honoured for the part of it that was collected.
ApplyWhateverMatches(s, collected) ==
  LET keep == s.tests \cap collected IN
  IF s.notApplied # "none" THEN RunsInFull(s.notApplied, collected)
  ELSE IF s.selection = "refused" THEN Application("refused", "none", {}, 0, 0)
  ELSE IF s.selection = "empty" THEN Application("empty", "none", {}, 0, Cardinality(collected))
  ELSE IF s.selection # "subset" THEN RunsInFull("none", collected)
  ELSE IF keep = {} THEN RunsInFull("subset_matched_no_collected_test", collected)
  ELSE Application("subset", "none", keep, Cardinality(keep), Cardinality(collected \ keep))

\* A subset is honoured all or not at all.
ApplyToCollected(s, collected) ==
  LET keep == s.tests \cap collected IN
  IF s.notApplied # "none" THEN RunsInFull(s.notApplied, collected)
  ELSE IF s.selection = "refused" THEN Application("refused", "none", {}, 0, 0)
  ELSE IF s.selection = "empty" THEN Application("empty", "none", {}, 0, Cardinality(collected))
  ELSE IF s.selection # "subset" THEN RunsInFull("none", collected)
  ELSE IF keep # s.tests
  THEN RunsInFull(IF keep = {} THEN "subset_matched_no_collected_test"
                               ELSE "subset_partly_absent_from_collection", collected)
  ELSE Application("subset", "none", keep, Cardinality(keep), Cardinality(collected \ keep))

-----------------------------------------------------------------------------
(* What the run says of the answer: to Mergify, and in the terminal.       *)

NoEcho == [answer |-> "none", kept |-> 0, notApplied |-> "none"]

\* Present exactly when Mergify answered.
SelectionEcho(s, application) ==
  IF ~s.served THEN NoEcho
  ELSE [answer |-> s.selection, kept |-> application.keptCount,
        notApplied |-> application.notApplied]

\* The collection's size travels with or without an answer.
SelectionResourceAttributes(count, echo) == [count |-> count, echo |-> echo]

\* The terminal block: which of its texts, and the two counts it states.
Blocks == {"none", "could not be asked", "stopped", "nothing to run", "none executed",
           "all re-executed", "only those re-executed", "not matching, in full", "in full"}

Block(text, failed, skipped) == [text |-> text, failed |-> failed, skipped |-> skipped]
NoBlock == Block("none", 0, 0)

EmptyBlock(skipped) ==
  Block(IF skipped = 0 THEN "nothing to run" ELSE "none executed", 0, skipped)

SubsetBlock(failed, skipped) ==
  Block(IF skipped = 0 THEN "all re-executed" ELSE "only those re-executed", failed, skipped)

\* fullRunSentences, by what its sentences tell apart: the answer did not match
\* what was collected, or the suite was served in full.
FullRunSentence(why) ==
  IF why \in {"subset_served_without_tests", "subset_matched_no_collected_test",
              "subset_partly_absent_from_collection"}
  THEN "not matching, in full" ELSE "in full"

FormatTestSelectionReport(s, application) ==
  IF s.reason = "fetch_failed" THEN Block("could not be asked", 0, 0)
  ELSE IF application.outcome = "refused" THEN Block("stopped", 0, 0)
  ELSE IF application.outcome = "empty" THEN EmptyBlock(application.deselectedCount)
  ELSE IF application.outcome = "subset"
  THEN SubsetBlock(application.keptCount, application.deselectedCount)
  ELSE Block(FullRunSentence(application.notApplied), 0, 0)
=============================================================================
