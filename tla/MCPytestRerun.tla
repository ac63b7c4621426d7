--------------------------- MODULE MCPytestRerun ---------------------------
(***************************************************************************)
(* PytestRerun on three tests in two modules, under every plan that gives  *)
(* each kind of test a different fate.                                     *)
(***************************************************************************)
EXTENDS PytestRerun

CONSTANTS a1, a2, b1, A, B

MCTests == {a1, a2, b1}
MCOrder == <<a1, a2, b1>>
MCModuleOf == [t \in MCTests |-> IF t = b1 THEN B ELSE A]

Planned(mode, detected, flaky, overlong) ==
  [mode |-> mode, detected |-> detected, flaky |-> flaky, overlong |-> overlong]

\* a2 is the last test of its module; it is rerun by detection, by retry, by
\* both mechanisms' lists, or has a name nothing reruns; a1 is retried before it.
MCPlans ==
  {Planned("none", {}, F, {}) : F \in {{a2}, {a1, a2}}}
  \cup {Planned(mode, {a2}, F, {}) : mode \in {"new", "unhealthy"}, F \in {{a2}, {a1}}}
  \cup {Planned("unhealthy", {a2}, {a1, a2}, {a2}), Planned("none", {}, {a1, a2}, {a2})}
=============================================================================
