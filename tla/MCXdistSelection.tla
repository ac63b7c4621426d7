-------------------------- MODULE MCXdistSelection --------------------------
(***************************************************************************)
(* XdistSelection on two workers and one replacement, two tests, and one   *)
(* answer of each kind the controller tells apart.                         *)
(***************************************************************************)
EXTENDS XdistSelection, TLC

CONSTANTS w1, w2, w3, a, b

MCWorkers == {w1, w2}
MCSpares == {w3}
MCTests == {a, b}

\* The whole suite, and what a worker whose collection drifted reports.
MCCollections == {<<a, b>>, <<a>>}

Served(selection, tests) == [selection |-> selection, tests |-> tests, served |-> TRUE]

\* subset {b} is absent from the collection <<a>>.
MCAnswers ==
  {Unanswered, Served("empty", {}), Served("subset", {b}), Served("refused", {})}

\* Every worker is local, under both schedulings, or one of the two is not; a job
\* that did not opt in runs like one that asked nothing, and is started one way.
MCCircumstances ==
  {<<TRUE, d, {}>> : d \in {"load", "each"}}
  \cup {<<TRUE, "load", {w}>> : w \in MCWorkers}
  \cup {<<FALSE, "load", {}>>}

\* The two first workers are interchangeable.
Symmetry == Permutations(MCWorkers)
=============================================================================
