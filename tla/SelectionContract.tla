-------------------------- MODULE SelectionContract --------------------------
(***************************************************************************)
(* What a client that runs tests under a selection promises, whoever runs  *)
(* the tests and however it learns what to run: it decides once, before    *)
(* the first test; from then on it may execute anything but only leaves    *)
(* out what the decision leaves out; and it concludes once, after which    *)
(* nothing runs.  A conclusion that states the reduction is only drawn     *)
(* over a run that executed nothing else.                                  *)
(*                                                                         *)
(* In the pytest client the decision is TestSelection.resolve's and the    *)
(* conclusion the one _settle_xdist_selection comes to.                    *)
(***************************************************************************)
EXTENDS Naturals

CONSTANTS Tests,
          Everything   \* "run all of them", no set of tests

VARIABLES decided,
          keep,        \* the tests to run, or Everything
          executed,
          leftOut,
          conclusion

vars == <<decided, keep, executed, leftOut, conclusion>>

\* "other": a run without a verdict, a verdict that states no reduction, or a
\* session whose own account is incomplete.
Conclusions == {"open", "reduced", "other"}

Init ==
  /\ decided = FALSE /\ keep = Everything
  /\ executed = {} /\ leftOut = {}
  /\ conclusion = "open"

Decide ==
  /\ conclusion = "open" /\ ~decided
  /\ decided' = TRUE
  /\ keep' \in {Everything} \cup SUBSET Tests
  /\ UNCHANGED <<executed, leftOut, conclusion>>

Execute(t) ==
  /\ conclusion = "open" /\ decided
  /\ executed' = executed \cup {t}
  /\ UNCHANGED <<decided, keep, leftOut, conclusion>>

\* Some tests are passed over, one at a time or a whole file of them.
LeaveOut(S) ==
  /\ conclusion = "open" /\ decided
  /\ keep # Everything /\ S \cap keep = {}
  /\ leftOut' = leftOut \cup S
  /\ UNCHANGED <<decided, keep, executed, conclusion>>

Conclude ==
  /\ conclusion = "open"
  /\ conclusion' \in {"reduced", "other"}
  /\ conclusion' = "reduced" => keep # Everything /\ executed \subseteq keep
  /\ UNCHANGED <<decided, keep, executed, leftOut>>

Next ==
  \/ Decide \/ Conclude
  \/ \E t \in Tests : Execute(t)
  \/ \E S \in SUBSET Tests : LeaveOut(S)

Spec == Init /\ [][Next]_vars
=============================================================================
