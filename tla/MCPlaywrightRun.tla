-------------------------- MODULE MCPlaywrightRun --------------------------
(***************************************************************************)
(* PlaywrightRun on a test home in two projects, one of which waits for a  *)
(* login and the other of which retries it once, and a test cart in a      *)
(* serial group with the latter.                                           *)
(***************************************************************************)
EXTENDS PlaywrightRun, TLC

CONSTANTS login, p, q, r, home, cart, auth, gone

MCCases == {login, p, q, r}
MCTests == {home, cart, auth, gone}
MCRetries == (login :> 0) @@ (p :> 0) @@ (q :> 1) @@ (r :> 0)
MCDeclares == (login :> {"passed"}) @@ (p :> {"passed"}) @@ (q :> {"passed", "skipped"}) @@
              (r :> {"passed", "failed"})
MCNameOf == (login :> auth) @@ (p :> home) @@ (q :> home) @@ (r :> cart)
MCDependsOn == (login :> {}) @@ (p :> {login}) @@ (q :> {}) @@ (r :> {})

Everywhere == [enabled |-> TRUE, setup |-> TRUE, deps |-> TRUE, client |-> TRUE, enable |-> "padded true",
               attributes |-> {"branch", "sha", "pipeline", "task"}, hook |-> TRUE,
               sharded |-> FALSE, share |-> {p, q, r}, yields |-> TRUE, taken |-> FALSE, excludes |-> TRUE,
               fingerprint |-> TRUE, failOnFlaky |-> FALSE, reruns |-> TRUE, debug |-> FALSE]

\* Without the login, Playwright may be left without a test.
NoDeps == [Everywhere EXCEPT !.setup = FALSE, !.deps = FALSE]

Shard == [Everywhere EXCEPT !.setup = FALSE, !.sharded = TRUE, !.share = {q, r}]

MCEnvironments ==
  {Everywhere, NoDeps, Shard,
   [Shard EXCEPT !.failOnFlaky = TRUE],
   [Shard EXCEPT !.hook = FALSE],
   [Shard EXCEPT !.yields = FALSE],
   [Shard EXCEPT !.taken = TRUE],
   [Shard EXCEPT !.excludes = FALSE],
   [Shard EXCEPT !.fingerprint = FALSE]}

MCQuarantines == {{home}}

Context(mode, names) == [mode |-> mode, usable |-> TRUE, toProcess |-> names, tooLong |-> {},
                         budget |-> 2, min |-> 2, max |-> 2, mean |-> 1]
MCContexts == {Context("unhealthy", {cart}), Context("new", {home})}

MCAnswers ==
  {Answered("subset", {cart}), Answered("subset", {home, gone}), Answered("empty", {}),
   Answered("refused", {})}
=============================================================================
