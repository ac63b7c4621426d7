---------------------------- MODULE MCVitestRun ----------------------------
(***************************************************************************)
(* VitestRun on two files: f1 holds a test a and one of the identity b,    *)
(* f2 another of the identity b.  One repeat and one retry for a test      *)
(* flaky detection repeats.                                                *)
(***************************************************************************)
EXTENDS VitestRun, TLC

CONSTANTS f1, f2, c1, c2, c3, a, b, gone

MCFiles == {f1, f2}
MCCases == {c1, c2, c3}
MCTests == {a, b, gone}
MCFileOf == (c1 :> f1) @@ (c2 :> f1) @@ (c3 :> f2)
MCNameOf == (c1 :> a) @@ (c2 :> b) @@ (c3 :> b)

Everywhere == [client |-> TRUE, enable |-> "true",
               attributes |-> {"branch", "sha", "pipeline", "task"},
               shards |-> TRUE, fingerprint |-> TRUE, engine |-> TRUE, runner |-> "extends",
               debug |-> FALSE]

\* The ordinary run, one that may not ask, two that cannot, and those of a user
\* whose runner overrides a hook.
MCEnvironments ==
  {Everywhere,
   [Everywhere EXCEPT !.enable = "mistyped", !.attributes = {"sha", "pipeline", "task"}],
   [Everywhere EXCEPT !.shards = FALSE, !.runner = "try"],
   [Everywhere EXCEPT !.fingerprint = FALSE, !.engine = FALSE],
   [Everywhere EXCEPT !.runner = "suite"],
   [Everywhere EXCEPT !.runner = "task"]}

MCQuarantines == {{a}}

\* One repeat where tests are known; where they are new, a share too small for any.
Context(mode, mean) == [mode |-> mode, usable |-> TRUE, toProcess |-> {a}, tooLong |-> {},
                        budget |-> 2, min |-> 2, max |-> 2, mean |-> mean]
MCContexts == {Context("unhealthy", 1), Context("new", 3)}

\* A subset that was collected, one that was in part, and what is no subset.
MCAnswers ==
  {Answered("subset", {b}), Answered("subset", {a, gone}), Answered("empty", {}),
   Answered("refused", {}), Threw}
=============================================================================
