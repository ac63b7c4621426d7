------------------------------ MODULE TsVerdict ------------------------------
(***************************************************************************)
(* What a session of the TypeScript clients concludes about each test and  *)
(* writes to Mergify (clients/ts/packages/core/src/session-verdict.ts):    *)
(* the fold of final statuses, the request body, and how sending it went.  *)
(* The next attempt of the job is answered from it.                        *)
(***************************************************************************)
EXTENDS TsSelection

FinalStatus == {"passed", "skipped", "quarantined_failed", "failed"}

\* "none": the test is not in the fold.
Status == FinalStatus \cup {"none"}

\* Above every precedence of a recorded status: 0 is a test not in the map.
Precedence(s) ==
  CASE s = "none" -> 0 [] s = "passed" -> 1 [] s = "skipped" -> 2
    [] s = "quarantined_failed" -> 3 [] s = "failed" -> 4

NothingRecorded == [t \in Tests |-> "none"]

\* SessionVerdictFold.record: a later record never downgrades an earlier one.
Record(final, t, s) ==
  [final EXCEPT ![t] = IF Precedence(s) > Precedence(@) THEN s ELSE @]

\* Mutated form: a pass recorded for the same identity hides its failure.
LowestOf(S) ==
  IF "passed" \in S THEN "passed"
  ELSE IF "skipped" \in S THEN "skipped"
  ELSE IF "quarantined_failed" \in S THEN "quarantined_failed"
  ELSE IF "failed" \in S THEN "failed" ELSE "none"

\* What recording each status of S for one test leaves, in whatever order.
HighestOf(S) ==
  IF "failed" \in S THEN "failed"
  ELSE IF "quarantined_failed" \in S THEN "quarantined_failed"
  ELSE IF "skipped" \in S THEN "skipped"
  ELSE IF "passed" \in S THEN "passed" ELSE "none"

\* The fold once it was fed the <<test, status>> pairs of `records'.
Fold(records) == [t \in Tests |-> HighestOf({r[2] : r \in {q \in records : q[1] = t}})]

WithStatus(final, S) == {t \in Tests : final[t] \in S}

FailingTests(final) == WithStatus(final, {"failed"})
QuarantinedFailingTests(final) == WithStatus(final, {"quarantined_failed"})

Counts(final) ==
  [executed |-> Cardinality(WithStatus(final, FinalStatus)),
   passed   |-> Cardinality(WithStatus(final, {"passed"})),
   failed   |-> Cardinality(WithStatus(final, {"failed", "quarantined_failed"})),
   skipped  |-> Cardinality(WithStatus(final, {"skipped"}))]

-----------------------------------------------------------------------------
\* buildSessionVerdict returns one: the run can be found by what it knows.
HasVerdictIdentity(attributes) ==
  {"sha", "pipeline"} \subseteq attributes /\ HasJobName(attributes)

BuildSessionVerdict(count, final, echo) ==
  [collection  |-> count,
   counts      |-> Counts(final),
   failing     |-> FailingTests(final),
   quarantined |-> QuarantinedFailingTests(final),
   echo        |-> echo]

NoVerdict == BuildSessionVerdict(0, NothingRecorded, NoEcho)

\* Every collected test reached a final status.
IsComplete(verdict) == verdict.counts.executed = verdict.collection

\* What sending may come to: no such method on the client, a null receipt, a
\* receipt, one that says the ids did not fit, or a rejection.
Receipts == {"no method", "dormant", "stored", "truncated", "threw"}

Results == [sent : BOOLEAN, truncated : BOOLEAN, error : BOOLEAN]

SendSessionVerdict(receipt) ==
  [sent      |-> receipt \in {"stored", "truncated"},
   truncated |-> receipt = "truncated",
   error     |-> receipt = "threw"]

NotSent == [sent |-> FALSE, truncated |-> FALSE, error |-> FALSE]

\* The line about the verdict the terminal shows.
FormatSessionVerdictResult(result) ==
  IF result.error THEN "not recorded"
  ELSE IF result.truncated THEN "counts only" ELSE "none"
=============================================================================
