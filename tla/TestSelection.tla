--------------------------- MODULE TestSelection ---------------------------
(***************************************************************************)
(* What a served answer leaves of a collection to run: the decision that   *)
(* pytest_mergify/test_selection.py takes (TestSelection.__post_init__ and *)
(* TestSelection.resolve), as pure operators over an answer and a          *)
(* collection.  The run that holds the items and the pytest-xdist          *)
(* controller that only sees ids both go through it.                       *)
(*                                                                         *)
(* A collection is the sequence of collected node ids (an id may repeat:   *)
(* pytest --keep-duplicates).  An answer is the record the binding hands   *)
(* over; `served' is FALSE for the default one a failed or dormant fetch   *)
(* leaves behind, and NotAsked is the absence of any.                      *)
(***************************************************************************)
EXTENDS Naturals, Sequences, FiniteSets, Functions

CONSTANTS Tests,       \* node ids that may be collected or served
          Everything   \* "run all of them": Python's None where a set of ids may stand

ASSUME EverythingIsNoSet == \A S \in SUBSET Tests : Everything # S

Collection == Seq(Tests)

\* "newer" stands for every value this client predates.
Selections == {"full", "subset", "empty", "refused", "newer"}

Answer == [selection : Selections, tests : SUBSET Tests, served : BOOLEAN]

NotAsked == [selection |-> "none", tests |-> {}, served |-> FALSE]

\* The default TestSelection(): the fetch failed or found the feature dormant.
Unanswered == [selection |-> "full", tests |-> {}, served |-> FALSE]

NotAppliedReason ==
  {"none", "subset_served_without_tests", "unrecognised_selection",
   "subset_matched_no_collected_test", "subset_partly_absent_from_collection",
   "xdist_worker_could_not_read_answer", "xdist_collections_differ"}

KeepSet == {Everything} \cup SUBSET Tests

-----------------------------------------------------------------------------
\* Only a subset carries tests: __post_init__ empties the list of any other answer.
ServedTests(a) == IF a.selection = "subset" THEN a.tests ELSE {}

\* What __post_init__ declares before any collection is known.
DeclinedWhenBuilt(a) ==
  CASE a.selection = "subset" /\ a.tests = {} -> "subset_served_without_tests"
    [] a.selection = "newer"                  -> "unrecognised_selection"
    [] OTHER                                  -> "none"

\* resolve raises pytest.UsageError.
Refuses(a) == a.selection = "refused"

\* The answers resolve acts on: `empty' over a collection that holds something,
\* and a subset every id of which was collected.
Honours(a, c) ==
  \/ a.selection = "empty" /\ c # <<>>
  \/ /\ a.selection = "subset"
     /\ DeclinedWhenBuilt(a) = "none"
     /\ ServedTests(a) \cap Range(c) = ServedTests(a)

Keep(a, c) == IF Honours(a, c) THEN ServedTests(a) ELSE Everything

NotApplied(a, c) ==
  IF DeclinedWhenBuilt(a) # "none" \/ a.selection # "subset" \/ Honours(a, c)
  THEN DeclinedWhenBuilt(a)
  ELSE IF ServedTests(a) \cap Range(c) = {}
  THEN "subset_matched_no_collected_test"
  ELSE "subset_partly_absent_from_collection"

\* How many collected items stay, an id collected twice counting twice.
KeptCount(k, c) ==
  IF k = Everything THEN Len(c) ELSE Cardinality({i \in DOMAIN c : c[i] \in k})

\* compute_test_collection_fingerprint: order does not matter, repetition does.
Fingerprint(c) == [t \in Tests |-> Cardinality({i \in DOMAIN c : c[i] = t})]
=============================================================================
