-------------------------- MODULE TsVerdict_proofs --------------------------
(***************************************************************************)
(* What TsSelection and TsVerdict compute, for every collection and every  *)
(* answer: a selection is honoured whole or not at all, the fold does not  *)
(* depend on the order tests finish in, and its counts add up.             *)
(***************************************************************************)
EXTENDS TsVerdict, FiniteSetTheorems, TLAPS

\* One more status for a test that already has those of S.
LEMMA HighestOfOneMore ==
  ASSUME NEW S, NEW s \in FinalStatus
  PROVE  HighestOf(S \cup {s}) =
           IF Precedence(s) > Precedence(HighestOf(S)) THEN s ELSE HighestOf(S)
<1>1. Precedence("none") = 0 /\ Precedence("passed") = 1 /\ Precedence("skipped") = 2
      /\ Precedence("quarantined_failed") = 3 /\ Precedence("failed") = 4
  BY DEF Precedence
<1>2. CASE s = "passed"
  BY <1>1, <1>2 DEF HighestOf
<1>3. CASE s = "skipped"
  BY <1>1, <1>3 DEF HighestOf
<1>4. CASE s = "quarantined_failed"
  BY <1>1, <1>4 DEF HighestOf
<1>5. CASE s = "failed"
  BY <1>1, <1>5 DEF HighestOf
<1> QED
  BY <1>2, <1>3, <1>4, <1>5 DEF FinalStatus

\* SessionVerdictFold.record keeps the fold of everything recorded, so that the
\* fold is the same in whatever order tests and projects report.
THEOREM RecordFolds ==
  ASSUME NEW R, NEW t \in Tests, NEW s \in FinalStatus
  PROVE  Record(Fold(R), t, s) = Fold(R \cup {<<t, s>>})
<1> DEFINE Of(Q, u) == {r[2] : r \in {q \in Q : q[1] = u}}
           Q == R \cup {<<t, s>>}
<1>1. \A u \in Tests : Of(Q, u) = Of(R, u) \cup (IF u = t THEN {s} ELSE {})
  <2> SUFFICES ASSUME NEW u \in Tests
               PROVE  Of(Q, u) = Of(R, u) \cup (IF u = t THEN {s} ELSE {})
    OBVIOUS
  <2>1. CASE u = t
    <3>1. \A x \in Of(Q, u) : x \in Of(R, u) \cup {s}
      BY <2>1
    <3>2. \A x \in Of(R, u) \cup {s} : x \in Of(Q, u)
      <4>1. <<t, s>> \in {q \in Q : q[1] = u} /\ <<t, s>>[2] = s
        BY <2>1
      <4> QED
        BY <4>1
    <3> QED
      BY <2>1, <3>1, <3>2
  <2>2. CASE u # t
    <3>1. {q \in Q : q[1] = u} = {q \in R : q[1] = u}
      BY <2>2
    <3> QED
      BY <2>2, <3>1
  <2> QED
    BY <2>1, <2>2
<1>2. \A u \in Tests : Fold(Q)[u] = HighestOf(Of(Q, u)) /\ Fold(R)[u] = HighestOf(Of(R, u))
  BY DEF Fold
<1>3. Fold(Q)[t] = IF Precedence(s) > Precedence(Fold(R)[t]) THEN s ELSE Fold(R)[t]
  <2> HIDE DEF Of, Q
  <2> QED
    BY <1>1, <1>2, HighestOfOneMore
<1>4. \A u \in Tests \ {t} : Fold(Q)[u] = Fold(R)[u]
  <2> HIDE DEF Of, Q
  <2>1. \A u \in Tests \ {t} : Of(Q, u) = Of(R, u)
    BY <1>1
  <2> QED
    BY <1>2, <2>1
<1> QED
  <2> HIDE DEF Q
  <2>1. DOMAIN Fold(Q) = Tests /\ Fold(Q) = [u \in Tests |-> Fold(Q)[u]]
        /\ Fold(R) = [u \in Tests |-> Fold(R)[u]]
    BY DEF Fold
  <2>2. Record(Fold(R), t, s) =
          [u \in Tests |-> IF u = t THEN (IF Precedence(s) > Precedence(Fold(R)[t]) THEN s
                                          ELSE Fold(R)[t]) ELSE Fold(R)[u]]
    BY <2>1 DEF Record
  <2>3. \A u \in Tests : Record(Fold(R), t, s)[u] = Fold(Q)[u]
    BY <1>3, <1>4, <2>2
  <2>4. Record(Fold(R), t, s) = Fold(Q)
    BY <2>1, <2>2, <2>3
  <2> QED
    BY <2>4 DEF Q

\* A subset is honoured whole or not at all (applyToCollected): a reduced run
\* keeps exactly the tests served, all of which were collected, and no other
\* answer keeps any.
THEOREM SubsetWholeOrNotAtAll ==
  ASSUME NEW s \in TestSelection, NEW C \in SUBSET Tests
  PROVE  LET a == ApplyToCollected(s, C) IN
         /\ a.outcome = "subset" => a.keep = s.tests /\ s.tests \subseteq C
                                    /\ s.selection = "subset" /\ s.notApplied = "none"
         /\ a.outcome # "subset" => a.keep = {}
         /\ a.outcome \in {"empty", "refused"} => a.outcome = s.selection /\ s.notApplied = "none"
  BY DEF ApplyToCollected, Application, RunsInFull, TestSelection, Selections

\* Two finite sets without a common member are counted together by a sum.
LEMMA DisjointCounts ==
  ASSUME NEW A, NEW B, IsFiniteSet(A), IsFiniteSet(B), A \cap B = {}
  PROVE  IsFiniteSet(A \cup B) /\ Cardinality(A \cup B) = Cardinality(A) + Cardinality(B)
<1>1. IsFiniteSet(A \cup B)
      /\ Cardinality(A \cup B) = Cardinality(A) + Cardinality(B) - Cardinality(A \cap B)
  BY FS_Union
<1>2. Cardinality(A \cap B) = 0
  BY FS_EmptySet
<1>3. Cardinality(A) \in Nat /\ Cardinality(B) \in Nat
  BY FS_CardinalityType
<1> QED
  BY <1>1, <1>2, <1>3

\* What the verdict counts is what the fold holds: each test with a status once.
THEOREM CountsAddUp ==
  ASSUME NEW final \in [Tests -> Status], IsFiniteSet(Tests)
  PROVE  LET n == Counts(final) IN n.executed = n.passed + n.failed + n.skipped
<1> DEFINE W(S) == WithStatus(final, S)
<1>1. \A S : W(S) \subseteq Tests /\ IsFiniteSet(W(S))
  BY FS_Subset DEF WithStatus
<1>2. W(FinalStatus) = (W({"passed"}) \cup W({"failed", "quarantined_failed"})) \cup W({"skipped"})
  BY DEF WithStatus, FinalStatus
<1>3. W({"passed"}) \cap W({"failed", "quarantined_failed"}) = {}
      /\ (W({"passed"}) \cup W({"failed", "quarantined_failed"})) \cap W({"skipped"}) = {}
  BY DEF WithStatus
<1>5. /\ IsFiniteSet(W({"passed"}) \cup W({"failed", "quarantined_failed"}))
      /\ Cardinality(W({"passed"}) \cup W({"failed", "quarantined_failed"})) =
           Cardinality(W({"passed"})) + Cardinality(W({"failed", "quarantined_failed"}))
  <2> HIDE DEF W
  <2> QED
    BY <1>1, <1>3, DisjointCounts
<1>6. Cardinality(W(FinalStatus)) =
        Cardinality(W({"passed"}) \cup W({"failed", "quarantined_failed"})) + Cardinality(W({"skipped"}))
  <2> HIDE DEF W
  <2> QED
    BY <1>1, <1>2, <1>3, <1>5, DisjointCounts
<1> QED
  BY <1>5, <1>6 DEF Counts

-----------------------------------------------------------------------------
(* Types of what the operators return, and what an application holds.      *)

\* A full run of this client's own is a selection.
LEMMA FullRunType ==
  ASSUME NEW reason \in Reasons PROVE FullRun(reason) \in TestSelection
  BY DEF FullRun, TestSelection, Selections, NotAppliedReasons

\* What an answer is turned into is a selection.
LEMMA SelectionType ==
  ASSUME NEW response \in Responses
  PROVE  FetchTestSelection(response) \in TestSelection
<1>1. "fetch_failed" \in Reasons /\ "not_requested" \in Reasons
  BY DEF Reasons
<1>2. ToTestSelection(response.selection, response.tests) \in TestSelection
  <2>1. response.selection \in Selections /\ response.tests \in SUBSET Tests
    BY DEF Responses
  <2>2. \A tests \in SUBSET Tests, why \in NotAppliedReasons :
          Served(response.selection, tests, why) \in TestSelection
    BY <2>1 DEF Served, TestSelection, Reasons
  <2>3. {"none", "subset_served_without_tests", "unrecognised_selection"}
          \subseteq NotAppliedReasons
    BY DEF NotAppliedReasons
  <2> QED
    BY <2>1, <2>2, <2>3 DEF ToTestSelection
<1> QED
  BY <1>1, <1>2, FullRunType DEF FetchTestSelection

\* Meeting the collection always comes to an application.
LEMMA ApplicationType ==
  ASSUME IsFiniteSet(Tests), NEW s \in TestSelection, NEW C \in SUBSET Tests
  PROVE  ApplyToCollected(s, C) \in Applications
<1>1. \A S \in SUBSET C : S \in SUBSET Tests /\ Cardinality(S) \in Nat
  BY FS_Subset, FS_CardinalityType
<1>2. s.notApplied \in NotAppliedReasons
  BY DEF TestSelection
<1>3. \A why \in NotAppliedReasons : RunsInFull(why, C) \in Applications
  BY <1>1 DEF RunsInFull, Application, Applications, Outcomes
<1>4. \A o \in Outcomes, S, D \in SUBSET C :
        /\ Application(o, "none", S, Cardinality(S), Cardinality(D)) \in Applications
        /\ Application(o, "none", {}, 0, Cardinality(D)) \in Applications
        /\ Application(o, "none", {}, 0, 0) \in Applications
  BY <1>1 DEF Application, Applications, NotAppliedReasons
<1>5. s.tests \cap C \in SUBSET C /\ C \ (s.tests \cap C) \in SUBSET C /\ C \in SUBSET C
  OBVIOUS
<1>6. {"none", "subset_matched_no_collected_test", "subset_partly_absent_from_collection"}
        \subseteq NotAppliedReasons /\ {"refused", "empty", "subset"} \subseteq Outcomes
  BY DEF NotAppliedReasons, Outcomes
<1> QED
  BY <1>2, <1>3, <1>4, <1>5, <1>6 DEF ApplyToCollected

\* Meeting the collection keeps some of it, and for a subset what was served.
LEMMA KeepsCollected ==
  ASSUME NEW s \in TestSelection, NEW C \in SUBSET Tests
  PROVE  LET a == ApplyToCollected(s, C) IN
         /\ a.keep \subseteq C
         /\ a.outcome \in {"refused", "empty"} => a.keep = {}
         /\ a.outcome = "subset" => a.keep = s.tests
         /\ a.outcome \in {"full", "refused", "empty", "subset"}
  BY DEF ApplyToCollected, Application, RunsInFull

\* What the application states of the share it was made for.
LEMMA ApplicationCounts ==
  ASSUME NEW s \in TestSelection, NEW C \in SUBSET Tests
  PROVE  LET a == ApplyToCollected(s, C) IN
         /\ a.outcome = "empty" => a.keep = {} /\ a.deselectedCount = Cardinality(C \ a.keep)
         /\ a.outcome = "refused" => a.keep = {}
         /\ a.outcome = "subset" =>
              /\ a.keep = s.tests /\ s.tests \subseteq C
              /\ a.keptCount = Cardinality(s.tests)
              /\ a.deselectedCount = Cardinality(C \ a.keep)
<1> DEFINE keep == s.tests \cap C
<1>1. C \ {} = C
  OBVIOUS
<1>2. keep = s.tests => s.tests \subseteq C
  OBVIOUS
<1> HIDE DEF keep
<1> QED
  BY <1>1, <1>2 DEF keep, ApplyToCollected, Application, RunsInFull

\* The fold gives each test a status.
LEMMA FoldType == ASSUME NEW R PROVE Fold(R) \in [Tests -> Status]
  BY DEF Fold, HighestOf, Status, FinalStatus

=============================================================================
