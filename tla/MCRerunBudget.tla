---------------------------- MODULE MCRerunBudget ----------------------------
(***************************************************************************)
(* RerunBudget on three tests, of which one is in the baseline, one is     *)
(* known to be flaky, and one may be new or unhealthy as well.             *)
(***************************************************************************)
EXTENDS RerunBudget, TLC

CONSTANTS old, shaky, both

MCTests == {old, shaky, both}

\* Budgets that fit a few attempts of one or two milliseconds.
Served(existing, flaky, mean) ==
  [existing |-> existing, unhealthy |-> {both, old}, flaky |-> flaky, mean |-> mean,
   ratio |-> [m \in Modes |-> IF m = "new" THEN 150 ELSE 200],
   retryRatio |-> 50, floor |-> 3, min |-> 2, max |-> 3]

MCContexts ==
  {Served({old}, {shaky, both}, 4), Served({old, both}, {old, shaky, both}, 3),
   Served({}, {shaky, both}, 4)}

Under(mode, worker, timeout, optOut, tooLong) ==
  [mode |-> mode, worker |-> worker, timeout |-> timeout,
   optOut |-> ("detector" :> {}) @@ ("retrier" :> optOut), tooLong |-> tooLong]

MCCircumstances ==
  {Under("new", FALSE, 0, {}, {}), Under("unhealthy", FALSE, 0, {}, {}),
   Under("unhealthy", FALSE, 3, {shaky}, {}), Under("none", FALSE, 0, {}, {both}),
   Under("unhealthy", TRUE, 0, {}, {}), Under("none", TRUE, 0, {}, {})}
=============================================================================
