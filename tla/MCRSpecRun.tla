----------------------------- MODULE MCRSpecRun -----------------------------
(***************************************************************************)
(* RSpecRun on two groups: one holds an example detection reruns and one   *)
(* it does not, the other a single example.                                *)
(***************************************************************************)
EXTENDS RSpecRun, TLC

CONSTANTS a, b, c, gone, g1, g2

MCIds == {a, b, c, gone}
MCExamples == {a, b, c}
MCGroups == {g1, g2}
MCGroupOf == (a :> g1) @@ (b :> g1) @@ (c :> g2)

Queue == [client |-> TRUE, enabled |-> TRUE,
          attributes |-> {"branch", "sha", "pipeline", "task"},
          base |-> FALSE, tooLong |-> {}, limit |-> 0]

\* A merge-queue run, one of a pull request that stops at its first failure, and
\* one whose job has no name.
MCEnvironments ==
  {Queue, [Queue EXCEPT !.base = TRUE, !.limit = 1],
   [Queue EXCEPT !.attributes = {"branch", "sha", "pipeline"}, !.base = TRUE]}

MCFilters == {{}, {a, b}, {a, c}}
MCQuarantines == {{a}}

\* a is new in a pull request and unhealthy elsewhere; three executions at most.
MCContexts ==
  {[existing |-> {b, c}, unhealthy |-> {a}, flaky |-> {}, mean |-> 1,
    ratio |-> [m \in {"new", "unhealthy"} |-> 100], retryRatio |-> 0, floor |-> 3,
    min |-> 1, max |-> 3]}

MCAnswers ==
  {[selection |-> "subset", tests |-> {a}], [selection |-> "subset", tests |-> {a, gone}],
   [selection |-> "empty", tests |-> {}], [selection |-> "refused", tests |-> {}],
   [selection |-> "unanswered", tests |-> {}]}
=============================================================================
