--------------------------- MODULE SessionVerdict ---------------------------
(***************************************************************************)
(* The per-test fold behind the session verdict                            *)
(* (pytest_mergify/session_verdict.py): the reports pytest LOGS, one at a  *)
(* time and in the order pytest logs them, folded into one final status    *)
(* per test.  The next merge-queue rerun of the job is answered from it.   *)
(***************************************************************************)
EXTENDS Naturals, FiniteSets

CONSTANT Tests

FinalStatus == {"passed", "skipped", "quarantined_failed", "failed"}

\* "none": the test is not in _final.
Status == FinalStatus \cup {"none"}

Precedence == [s \in Status |->
  CASE s = "none" -> 0 [] s = "passed" -> 1 [] s = "skipped" -> 2
    [] s = "quarantined_failed" -> 3 [] s = "failed" -> 4]

\* A logged report: the phase it is about, its outcome ("rerun" is the one an
\* `unhealthy' rerun is logged with), whether pytest marked it an expected
\* failure, and whether this plugin had quarantined the item.  "???" is the
\* phase of the report xdist makes up for the test a crashed worker was running.
Report == [when        : {"setup", "call", "teardown", "???"},
           outcome     : {"passed", "failed", "skipped", "rerun"},
           wasxfail    : BOOLEAN,
           quarantined : BOOLEAN]

\* record_logged_report's mapping; "none" where it returns without recording.
StatusOf(r) ==
  CASE r.outcome = "failed"                          -> "failed"
    [] r.outcome = "skipped"
         -> IF r.quarantined /\ r.wasxfail THEN "quarantined_failed" ELSE "skipped"
    [] r.outcome = "passed" /\ r.when = "call"       -> "passed"
    [] OTHER                                         -> "none"

\* A later report never downgrades an earlier one.
Upgrade(old, new) == IF Precedence[new] > Precedence[old] THEN new ELSE old

Record(final, t, r) == [final EXCEPT ![t] = Upgrade(@, StatusOf(r))]

WithStatus(final, S) == {t \in Tests : final[t] \in S}

Executed(final)    == WithStatus(final, FinalStatus)
Failing(final)     == WithStatus(final, {"failed"})
Quarantined(final) == WithStatus(final, {"quarantined_failed"})

Counts(final) ==
  [executed |-> Cardinality(Executed(final)),
   passed   |-> Cardinality(WithStatus(final, {"passed"})),
   failed   |-> Cardinality(WithStatus(final, {"failed", "quarantined_failed"})),
   skipped  |-> Cardinality(WithStatus(final, {"skipped"}))]

NothingRecorded == [t \in Tests |-> "none"]
=============================================================================
