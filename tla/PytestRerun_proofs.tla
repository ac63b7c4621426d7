------------------------- MODULE PytestRerun_proofs -------------------------
(***************************************************************************)
(* The safety properties of PytestRerun, for every suite in any order,     *)
(* every plan and every cap.  The inductive invariant says, of the item in *)
(* hand, what its metrics count, which mechanism holds which finalizers,   *)
(* and how what was logged relates to how its attempts went.               *)
(***************************************************************************)
EXTENDS PytestRerun, FiniteSetTheorems, SequenceTheorems, TLAPS

Active == pc \in {"setup", "call", "teardown", "after"}
Above  == {Session, ModuleOf[item]}
Both   == {<<c, TRUE>> : c \in Above}

HeldBy(m) == {e[1] : e \in {x \in suspended[m] : x[2]}}

\* The outcomes of the first attempt, wherever they are.
FirstReports == IF attempt = "first" THEN reports ELSE held
PhaseFailed(reps) == reps["setup"] = "failed" \/ reps["teardown"] = "failed"

\* Every failed attempt gates.
AllGate == plan.mode = "new" /\ item \in plan.detected

\* The session is within its items, and knows nothing of those to come.
ToCome(i) == i > pos \/ (i = pos /\ pc = "idle")
Ahead ==
  /\ Active => pos <= Len(Order)
  /\ \A i \in DOMAIN Order :
       ToCome(i) => final[Order[i]] = "none" /\ Order[i] \notin failedInitially

\* Metrics are kept of a test the mechanism reruns, and count its calls.
Counted(m) ==
  /\ metrics[m].kept => item \in Targets[m] \ plan.overlong
  /\ ~metrics[m].kept => metrics[m] = NoMetrics
  /\ HasExecuted(m) => metrics[m].count = seen.calls
  /\ attempt = "first" /\ pc \in {"setup", "call", "teardown"} =>
       ~metrics[m].deadline /\ ~metrics[m].tooSlow
  /\ attempt = "first" => ~metrics[m].last
  /\ seen.calls = 0 => metrics[m].count = 0

\* What a rerun presupposes.
Rerunning ==
  /\ attempt = "first" /\ pc \in {"setup", "call"} => seen.calls = 0
  /\ attempt # "first" =>
       /\ WantsRerun(attempt) /\ seen.calls > 0
       /\ metrics[attempt].deadline /\ ~metrics[attempt].tooSlow
  /\ pc = "after" => \A m \in Mechanisms : WantsRerun(m) => metrics[m].deadline

\* Whether the mechanism's loop goes on after this attempt.
GoesOn(m) == WantsRerun(m) /\ ~metrics[m].tooSlow /\ ~RestoresAtTeardown(m)

\* A mechanism holds the finalizers above the item through its reruns, and only then.
Suspending ==
  \A m \in Mechanisms :
    suspended[m] = IF pc = "after" THEN (IF GoesOn(m) THEN Both ELSE {})
                   ELSE (IF attempt = m THEN Both ELSE {})

\* Where the item is on the stack.
Stacked ==
  /\ pc = "call" => stack = Chain(item)
  /\ pc = "teardown" /\ seen.calls > 0 => stack = Chain(item)
  /\ pc = "setup" /\ attempt # "first" => stack = <<>>
  /\ pc = "after" /\ (\E m \in Mechanisms : GoesOn(m)) => stack = <<>>
  /\ pc \in {"call", "teardown"} /\ stack = Chain(item) => Above \subseteq alive

\* Every fixture that is set up has its finalizer with the stack or a mechanism.
Conserved == alive = fin \cup UNION {HeldBy(m) : m \in Mechanisms}

\* A node on the stack is of the kind its depth says.
Nodes == Collectors \cup Tests
LevelsOf(s) ==
  \A i \in DOMAIN s :
    /\ i = 1 => s[i] = Session
    /\ i = 2 => s[i] \in Modules
    /\ i > 2 => s[i] \in Tests
Levels == LevelsOf(stack)

\* A collector whose fixture the item in hand, or the next one, will set up.
Due(c) ==
  /\ pc # "done" /\ pos <= Len(Order) /\ Under(c, pos) /\ c \notin alive
  /\ pc \in {"idle", "setup"} \/ c \in Range(NextChain)

Created ==
  \A c \in Collectors :
    /\ created[c] <= Visits(c)
    /\ Due(c) => created[c] + 1 <= Visits(c)

\* The number of calls against the cap, and how near it a further rerun may be.
Capped ==
  /\ WithinTheCap
  /\ Active /\ attempt = "first" => seen.calls <= 1
  /\ Active /\ attempt # "first" =>
       /\ pc \in {"setup", "call"} =>
            seen.calls + 1 <= (IF MaxExecutions > 2 THEN MaxExecutions ELSE 2)
       /\ ~metrics[attempt].last =>
            seen.calls + (IF pc \in {"setup", "call"} THEN 2 ELSE 1) <= MaxExecutions

\* What the histories and TestRetrier's sets say of one another.
Remembered ==
  /\ seen.calls = 0 => seen.first = "none" /\ ~seen.passedLater /\ ~seen.failed
  /\ seen.calls > 0 => seen.first \in Outcomes
  /\ attempt = "first" => ~seen.passedLater /\ (seen.failed <=> seen.first = "failed")
  /\ FirstReports["call"] = seen.first
  /\ item \in failedInitially <=> item \in Eligible /\ seen.first = "failed"
  /\ item \in rescued <=> item \in Eligible /\ seen.first = "failed" /\ seen.passedLater

\* What was logged of the item and what is about to be amount to its conclusion so far.
Concluding ==
  /\ \/ final[item] = "failed" \/ Failed(AttemptLog)
     \/ item \in Eligible /\ PhaseFailed(FirstReports)
     <=>
     \/ seen.phaseFailed
     \/ AllGate /\ seen.failed
     \/ ~AllGate /\ item \notin Eligible /\ seen.first = "failed"
  /\ ~AllGate =>
       seen.results = IF item \notin Eligible /\ attempt # "first" THEN 1 ELSE 0

\* A phase that has not come has no outcome.
Unreported ==
  /\ pc \in {"setup", "call", "teardown"} => reports["teardown"] = "none"
  /\ pc \in {"setup", "call"} => reports["call"] = "none"
  /\ pc = "setup" => reports["setup"] = "none"
  /\ pc = "call" => reports["setup"] = "passed"

AttemptInv == Active =>
  /\ \A m \in Mechanisms : Counted(m)
  /\ Rerunning /\ Suspending /\ Stacked /\ Unreported /\ Remembered /\ Concluding

FixtureInv ==
  /\ pc = "idle" => \A m \in Mechanisms : suspended[m] = {}
  /\ pc # "done" => Conserved /\ Levels
  /\ Created

IInv ==
  /\ TypeOK /\ Ahead /\ AttemptInv /\ FixtureInv /\ Capped
  /\ NoFinalizerIsLost /\ VerdictIsTheContract

-----------------------------------------------------------------------------
(***************************************************************************)
(* The operators the model is built from.                                  *)
(***************************************************************************)

\* A test's collectors are none of the tests, and its chain lists them and the test.
LEMMA ChainProperties ==
  ASSUME NEW t \in Tests
  PROVE  /\ Chain(t) \in Seq(Nodes) /\ Len(Chain(t)) = 3
         /\ Chain(t)[1] = Session /\ Chain(t)[2] = ModuleOf[t] /\ Chain(t)[3] = t
         /\ Range(Chain(t)) = {Session, ModuleOf[t], t}
         /\ ModuleOf[t] \in Modules /\ Session # ModuleOf[t] /\ Session # t /\ ModuleOf[t] # t
<1>1. ModuleOf[t] \in Modules /\ Session # ModuleOf[t] /\ Session # t /\ ModuleOf[t] # t
      /\ Session \in Collectors /\ ModuleOf[t] \in Collectors
  BY RerunAssumption DEF Modules, Collectors
<1>2. Chain(t) \in Seq(Nodes) /\ Len(Chain(t)) = 3
      /\ Chain(t)[1] = Session /\ Chain(t)[2] = ModuleOf[t] /\ Chain(t)[3] = t
  BY <1>1 DEF Chain, Nodes
<1>3. DOMAIN Chain(t) = {1, 2, 3}
  BY <1>2
<1>4. Range(Chain(t)) = {Session, ModuleOf[t], t}
  BY <1>2, <1>3 DEF Range
<1> QED
  BY <1>1, <1>2, <1>4

\* What stays of a stack is the longest part the chain starts with.
LEMMA KeptProperties ==
  ASSUME NEW s \in Seq(Nodes), NEW chain \in Seq(Nodes), Len(chain) <= 3
  PROVE  /\ Kept(s, chain) \in Seq(Nodes)
         /\ Len(Kept(s, chain)) <= Len(s) /\ Len(Kept(s, chain)) <= Len(chain)
         /\ \A i \in 1..Len(Kept(s, chain)) : Kept(s, chain)[i] = s[i] /\ s[i] = chain[i]
         /\ Len(Kept(s, chain)) < Len(s) /\ Len(Kept(s, chain)) < Len(chain) =>
              s[Len(Kept(s, chain)) + 1] # chain[Len(Kept(s, chain)) + 1]
<1> DEFINE A == Agreed(s, chain)
<1>1. A \subseteq 1..Len(s) /\ A \subseteq 1..Len(chain) /\ A \subseteq {1, 2, 3}
  BY DEF Agreed
<1>2. \A i \in A : \A j \in 1..i : j \in A
  BY DEF Agreed
<1>3. \A i \in A : s[i] = chain[i]
  BY DEF Agreed
<1>4. \E n \in 0..3 : A = 1..n
  <2>1. CASE 3 \in A
    BY <1>1, <1>2, <2>1
  <2>2. CASE 3 \notin A /\ 2 \in A
    <3>1. A = 1..2
      BY <1>1, <1>2, <2>2
    <3> QED
      BY <3>1
  <2>3. CASE 3 \notin A /\ 2 \notin A /\ 1 \in A
    <3>1. A = 1..1
      BY <1>1, <2>3
    <3> QED
      BY <3>1
  <2>4. CASE A = {}
    <3>1. A = 1..0
      BY <2>4
    <3> QED
      BY <3>1
  <2> QED
    BY <1>1, <2>1, <2>2, <2>3, <2>4
<1>5. PICK n \in 0..3 : A = 1..n
  BY <1>4
<1>6. Cardinality(A) = n
  <2>1. Cardinality(1..n) = IF 1 > n THEN 0 ELSE n - 1 + 1
    BY FS_Interval
  <2> QED
    BY <1>5, <2>1
<1>7. Kept(s, chain) = SubSeq(s, 1, n)
  BY <1>6 DEF Kept
<1>8. n <= Len(s) /\ n <= Len(chain)
  BY <1>1, <1>5
<1>9. /\ SubSeq(s, 1, n) \in Seq(Nodes) /\ Len(SubSeq(s, 1, n)) = n
      /\ \A i \in 1..n : SubSeq(s, 1, n)[i] = s[i]
  BY <1>8
<1>10. n < Len(s) /\ n < Len(chain) => s[n + 1] # chain[n + 1]
  <2> SUFFICES ASSUME n < Len(s), n < Len(chain), s[n + 1] = chain[n + 1]
               PROVE  FALSE
    OBVIOUS
  <2>1. \A j \in 1..n : s[j] = chain[j]
    BY <1>3, <1>5
  <2>2. n + 1 \in A
    BY <2>1 DEF Agreed
  <2> QED
    BY <1>5, <2>2
<1> QED
  <2> HIDE DEF A
  <2> QED
    BY <1>3, <1>5, <1>7, <1>8, <1>9, <1>10

LEMMA KeptIsASeq ==
  ASSUME NEW s \in Seq(Nodes), NEW chain \in Seq(Nodes), Len(chain) <= 3
  PROVE  /\ Kept(s, chain) \in Seq(Nodes) /\ Len(Kept(s, chain)) \in Nat
         /\ Len(Kept(s, chain)) <= Len(s) /\ Len(Kept(s, chain)) <= Len(chain)
BY KeptProperties, SMTT(30)

LEMMA KeptAgrees ==
  ASSUME NEW s \in Seq(Nodes), NEW chain \in Seq(Nodes), Len(chain) <= 3,
         NEW i \in 1..Len(Kept(s, chain))
  PROVE  Kept(s, chain)[i] = s[i] /\ s[i] = chain[i]
BY KeptProperties, SMTT(30)

LEMMA KeptIsLongest ==
  ASSUME NEW s \in Seq(Nodes), NEW chain \in Seq(Nodes), Len(chain) <= 3,
         Len(Kept(s, chain)) < Len(s), Len(Kept(s, chain)) < Len(chain)
  PROVE  s[Len(Kept(s, chain)) + 1] # chain[Len(Kept(s, chain)) + 1]
BY KeptProperties, ZenonT(30)

LEMMA KeptOfNothing ==
  ASSUME NEW s \in Seq(Nodes)
  PROVE  Kept(s, <<>>) = <<>>
<1>1. \A chain \in Seq(Nodes) : Len(chain) = 0 => Kept(s, chain) = <<>>
  <2> SUFFICES ASSUME NEW chain \in Seq(Nodes), Len(chain) = 0
               PROVE  Kept(s, chain) = <<>>
    OBVIOUS
  <2>1. Len(chain) <= 3
    OBVIOUS
  <2>2. Kept(s, chain) \in Seq(Nodes) /\ Len(Kept(s, chain)) <= Len(chain)
    BY <2>1, KeptIsASeq
  <2>3. Len(Kept(s, chain)) = 0
    BY <2>2, LenProperties
  <2> QED
    BY <2>2, <2>3, EmptySeq
<1> QED
  BY <1>1, EmptySeq

\* The nodes of a sequence, and of what is kept of it.
LEMMA RangeOfKept ==
  ASSUME NEW s \in Seq(Nodes), NEW chain \in Seq(Nodes), Len(chain) <= 3
  PROVE  Range(Kept(s, chain)) \subseteq Range(s) /\ Range(Kept(s, chain)) \subseteq Range(chain)
<1>1. /\ Kept(s, chain) \in Seq(Nodes)
      /\ Len(Kept(s, chain)) <= Len(s) /\ Len(Kept(s, chain)) <= Len(chain)
      /\ \A i \in 1..Len(Kept(s, chain)) : Kept(s, chain)[i] = s[i] /\ s[i] = chain[i]
  BY KeptProperties, ZenonT(30)
<1>2. DOMAIN s = 1..Len(s) /\ DOMAIN chain = 1..Len(chain)
      /\ DOMAIN Kept(s, chain) = 1..Len(Kept(s, chain))
  BY <1>1
<1> QED
  BY <1>1, <1>2 DEF Range

LEMMA ListOfNone == SetToSeq({}) = <<>>
<1>1. Cardinality({}) = 0
  BY FS_EmptySet
<1>2. \A f : f \in [1..0 -> {}] <=> f = <<>>
  <2>1. \A f : f \in [1..0 -> {}] => f \in Seq({}) /\ Len(f) = 0
    OBVIOUS
  <2>2. <<>> \in [1..0 -> {}]
    OBVIOUS
  <2> QED
    BY <2>1, <2>2, EmptySeq
<1>3. IsInjective(<<>>)
  BY DEF IsInjective
<1>4. <<>> \in [1..Cardinality({}) -> {}]
  BY <1>1, <1>2
<1>5. SetToSeq({}) \in [1..Cardinality({}) -> {}]
  BY <1>3, <1>4 DEF SetToSeq
<1> QED
  BY <1>1, <1>2, <1>5

LEMMA ListOfOne ==
  ASSUME NEW c
  PROVE  SetToSeq({c}) = <<c>>
<1>1. Cardinality({c}) = 1
  BY FS_Singleton
<1>2. <<c>> \in [1..1 -> {c}] /\ IsInjective(<<c>>)
  BY DEF IsInjective
<1>3. SetToSeq({c}) \in [1..1 -> {c}]
  BY <1>1, <1>2 DEF SetToSeq
<1>4. \A f \in [1..1 -> {c}] : f = <<c>>
  <2> TAKE f \in [1..1 -> {c}]
  <2>1. f \in Seq({c}) /\ Len(f) = 1 /\ f[1] = c
    <3>1. f \in UNION {[1..n -> {c}] : n \in Nat}
      OBVIOUS
    <3>2. f \in Seq({c})
      BY <3>1, SeqDef
    <3>3. DOMAIN f = 1..1 /\ DOMAIN f = 1..Len(f) /\ Len(f) \in Nat
      BY <3>2, LenProperties
    <3>4. 1 \in 1..Len(f) /\ (Len(f) \in 1..1 \/ Len(f) = 0)
      BY <3>3
    <3> QED
      BY <3>2, <3>3, <3>4
  <2>2. <<c>> \in Seq({c}) /\ Len(<<c>>) = 1 /\ <<c>>[1] = c
    OBVIOUS
  <2> QED
    BY <2>1, <2>2, SeqEqual
<1> QED
  BY <1>3, <1>4

\* The next item's chain, if there is a next item.
LEMMA NextChainProperties ==
  ASSUME pos \in 1..(Len(Order) + 1)
  PROVE  /\ NextChain \in Seq(Nodes) /\ Len(NextChain) <= 3
         /\ pos < Len(Order) => Order[pos + 1] \in Tests /\ NextChain = Chain(Order[pos + 1])
         /\ pos >= Len(Order) => NextChain = <<>>
<1>1. CASE pos < Len(Order)
  <2>1. pos + 1 \in 1..Len(Order) /\ Order \in Seq(Tests)
    BY <1>1, RerunAssumption
  <2>2. Order[pos + 1] \in Tests
    BY <2>1, ElementOfSeq
  <2>3. Chain(Order[pos + 1]) \in Seq(Nodes) /\ Len(Chain(Order[pos + 1])) = 3
    BY <2>2, ChainProperties
  <2> QED
    <3>1. NextChain = Chain(Order[pos + 1])
      BY <1>1 DEF NextChain
    <3>2. ~(pos >= Len(Order)) /\ 3 <= 3
      BY <1>1, <2>1
    <3> QED
      BY <2>2, <2>3, <3>1, <3>2
<1>2. CASE ~(pos < Len(Order))
  <2>1. NextChain = <<>>
    BY <1>2 DEF NextChain
  <2>2. <<>> \in Seq(Nodes) /\ Len(<<>>) = 0
    BY EmptySeq
  <2>3. Len(Order) \in Nat
    BY RerunAssumption, LenProperties
  <2> QED
    BY <1>2, <2>1, <2>2, <2>3
<1> QED
  BY <1>1, <1>2

LEMMA ItemIsATest ==
  ASSUME pos \in 1..Len(Order)
  PROVE  item \in Tests
BY RerunAssumption, ElementOfSeq DEF item

\* Nothing of a test alone on the stack is kept: every chain starts with the session.
LEMMA KeptOfATest ==
  ASSUME NEW t \in Tests, pos \in 1..(Len(Order) + 1)
  PROVE  Kept(<<t>>, NextChain) = <<>>
<1>1. <<t>> \in Seq(Nodes) /\ Len(<<t>>) = 1 /\ <<t>>[1] = t
  BY DEF Nodes
<1>2. NextChain \in Seq(Nodes) /\ Len(NextChain) <= 3
  BY NextChainProperties
<1>3. CASE pos < Len(Order)
  <2>1. NextChain[1] = Session /\ Session # t
    BY <1>3, NextChainProperties, ChainProperties
  <2>2. \A s \in Seq(Nodes) :
          Len(s) = 1 /\ s[1] = t => Kept(s, NextChain) \in Seq(Nodes) /\ Len(Kept(s, NextChain)) = 0
    <3> SUFFICES ASSUME NEW s \in Seq(Nodes), Len(s) = 1, s[1] = t
                 PROVE  Kept(s, NextChain) \in Seq(Nodes) /\ Len(Kept(s, NextChain)) = 0
      OBVIOUS
    <3>1. /\ Kept(s, NextChain) \in Seq(Nodes) /\ Len(Kept(s, NextChain)) \in Nat
          /\ Len(Kept(s, NextChain)) <= 1
      BY <1>2, KeptIsASeq
    <3>2. \A i \in 1..Len(Kept(s, NextChain)) : s[i] = NextChain[i]
      BY <1>2, KeptAgrees
    <3> QED
      BY <2>1, <3>1, <3>2
  <2> QED
    BY <1>1, <2>2, EmptySeq
<1>4. CASE pos >= Len(Order)
  BY <1>1, <1>4, NextChainProperties, KeptOfNothing
<1>5. Len(Order) \in Nat
  BY RerunAssumption, LenProperties
<1> QED
  BY <1>3, <1>4, <1>5

LEMMA KeptFromNothing ==
  ASSUME pos \in 1..(Len(Order) + 1)
  PROVE  Kept(<<>>, NextChain) = <<>>
<1>1. NextChain \in Seq(Nodes) /\ Len(NextChain) <= 3
  BY NextChainProperties
<1>2. \A s \in Seq(Nodes) :
        Len(s) = 0 => Kept(s, NextChain) \in Seq(Nodes) /\ Len(Kept(s, NextChain)) = 0
  <2> SUFFICES ASSUME NEW s \in Seq(Nodes), Len(s) = 0
               PROVE  Kept(s, NextChain) \in Seq(Nodes) /\ Len(Kept(s, NextChain)) = 0
    OBVIOUS
  <2>1. /\ Kept(s, NextChain) \in Seq(Nodes) /\ Len(Kept(s, NextChain)) \in Nat
        /\ Len(Kept(s, NextChain)) <= 0
    BY <1>1, KeptIsASeq
  <2> QED
    BY <2>1
<1> QED
  BY <1>2, EmptySeq

\* What is kept of a stack whose nodes are of the kinds their depths say.
LEMMA LevelsOfKept ==
  ASSUME NEW s \in Seq(Nodes), LevelsOf(s), NEW chain \in Seq(Nodes), Len(chain) <= 3
  PROVE  LevelsOf(Kept(s, chain))
<1>1. /\ Kept(s, chain) \in Seq(Nodes) /\ Len(Kept(s, chain)) \in Nat
      /\ Len(Kept(s, chain)) <= Len(s)
  BY KeptIsASeq
<1>2. \A i \in 1..Len(Kept(s, chain)) : Kept(s, chain)[i] = s[i]
  BY KeptAgrees
<1>3. DOMAIN Kept(s, chain) = 1..Len(Kept(s, chain)) /\ DOMAIN s = 1..Len(s)
  BY <1>1, LenProperties
<1> QED
  BY <1>1, <1>2, <1>3 DEF LevelsOf

\* A collector of the next item that is on such a stack stays there.
LEMMA SharedStays ==
  ASSUME NEW s \in Seq(Nodes), LevelsOf(s), NEW t \in Tests,
         NEW c \in Collectors, c \in Range(s), c \in Range(Chain(t))
  PROVE  c \in Range(Kept(s, Chain(t)))
<1> DEFINE k == Kept(s, Chain(t))
<1>1. /\ Chain(t) \in Seq(Nodes) /\ Len(Chain(t)) = 3
      /\ Chain(t)[1] = Session /\ Chain(t)[2] = ModuleOf[t]
      /\ Range(Chain(t)) = {Session, ModuleOf[t], t}
  BY ChainProperties
<1>c. Chain(t) \in Seq(Nodes) /\ Len(Chain(t)) <= 3
  BY <1>1
<1>2. /\ k \in Seq(Nodes) /\ Len(k) \in Nat /\ Len(k) <= Len(s)
  BY <1>c, KeptIsASeq, ZenonT(30)
<1>3. /\ \A i \in 1..Len(k) : k[i] = s[i]
      /\ Len(k) < Len(s) /\ Len(k) < 3 => s[Len(k) + 1] # Chain(t)[Len(k) + 1]
  <2>1. \A i \in 1..Len(k) : k[i] = s[i]
    BY <1>c, KeptAgrees, ZenonT(30)
  <2>2. Len(k) < Len(s) /\ Len(k) < Len(Chain(t)) => s[Len(k) + 1] # Chain(t)[Len(k) + 1]
    BY <1>c, KeptIsLongest, ZenonT(30)
  <2> QED
    BY <1>1, <2>1, <2>2
<1>4. DOMAIN s = 1..Len(s) /\ DOMAIN k = 1..Len(k) /\ Len(s) \in Nat
  BY <1>2, LenProperties
<1>5. PICK i \in 1..Len(s) : s[i] = c
  BY <1>4 DEF Range
<1>6. s[1] = Session
  BY <1>4, <1>5 DEF LevelsOf
<1>7. Len(k) >= 1
  <2> HIDE DEF k
  <2> QED
    BY <1>1, <1>2, <1>3, <1>4, <1>5, <1>6
<1>8. c \notin Tests
  BY RerunAssumption
<1>9. CASE i = 1
  <2>1. k[1] = c
    BY <1>3, <1>5, <1>7, <1>9
  <2> QED
    BY <1>4, <1>7, <2>1 DEF Range
<1>10. CASE i = 2
  <2>1. s[2] \in Modules /\ c # Session
    BY <1>4, <1>5, <1>10, RerunAssumption DEF LevelsOf
  <2>2. c = ModuleOf[t]
    BY <1>1, <1>8, <2>1
  <2>3. Len(k) >= 2
    <3> HIDE DEF k
    <3> QED
      BY <1>1, <1>2, <1>3, <1>4, <1>5, <1>7, <1>10, <2>2
  <2>4. k[2] = c
    BY <1>3, <1>5, <1>10, <2>3
  <2> QED
    BY <1>4, <2>3, <2>4 DEF Range
<1>11. i <= 2
  BY <1>4, <1>5, <1>8 DEF LevelsOf
<1> QED
  BY <1>5, <1>9, <1>10, <1>11

\* Putting finalizers back changes nothing when there are none, gives back what the
\* stack's own nodes had, or puts the two collectors of the item on an empty stack.
LEMMA RestoredNothing ==
  ASSUME NEW m \in Mechanisms, stack \in Seq(Nodes), suspended[m] = {}
  PROVE  RestoredStack(m) = stack /\ RestoredFin(m) = fin
<1>1. {e[1] : e \in suspended[m]} = {} /\ {e[1] : e \in {x \in suspended[m] : x[2]}} = {}
  OBVIOUS
<1>2. Missing(m) = {}
  BY <1>1 DEF Missing
<1>3. SetToSeq(Missing(m) \ {Session}) = <<>>
  BY <1>2, ListOfNone
<1>4. RestoredStack(m) = (stack \o <<>>) \o <<>>
  BY <1>2, <1>3 DEF RestoredStack
<1>5. stack \o <<>> = stack
  BY ConcatEmptySeq
<1> QED
  BY <1>1, <1>4, <1>5 DEF RestoredFin

LEMMA NodesOfBoth ==
  /\ {e[1] : e \in Both} = Above
  /\ {e[1] : e \in {x \in Both : x[2]}} = Above
<1>1. {e[1] : e \in Both} = Above
  <2>1. \A e \in Both : e[1] \in Above
    <3> SUFFICES ASSUME NEW c \in Above
                 PROVE  <<c, TRUE>>[1] \in Above
      BY DEF Both
    <3> QED
      OBVIOUS
  <2>2. \A c \in Above : <<c, TRUE>> \in Both /\ <<c, TRUE>>[1] = c
    BY DEF Both
  <2> QED
    BY <2>1, <2>2
<1>2. {x \in Both : x[2]} = Both
  <2>1. \A e \in Both : e[2] = TRUE
    <3> SUFFICES ASSUME NEW c \in Above
                 PROVE  <<c, TRUE>>[2] = TRUE
      BY DEF Both
    <3> QED
      OBVIOUS
  <2> QED
    BY <2>1
<1> QED
  BY <1>1, <1>2

LEMMA SuspendedNodes ==
  ASSUME NEW m \in Mechanisms, suspended[m] = Both
  PROVE  /\ {e[1] : e \in suspended[m]} = Above
         /\ {e[1] : e \in {x \in suspended[m] : x[2]}} = Above
         /\ HeldBy(m) = Above
BY NodesOfBoth DEF HeldBy

LEMMA RestoredFinalizers ==
  ASSUME NEW m \in Mechanisms, suspended[m] = Both
  PROVE  RestoredFin(m) = fin \cup Above
BY SuspendedNodes DEF RestoredFin

LEMMA RestoredToItsChain ==
  ASSUME NEW m \in Mechanisms, suspended[m] = Both, item \in Tests, stack = Chain(item)
  PROVE  RestoredStack(m) = stack
<1>1. stack \in Seq(Nodes) /\ Range(stack) = {Session, ModuleOf[item], item}
  BY ChainProperties
<1>2. Missing(m) = {}
  BY <1>1, SuspendedNodes DEF Missing, Above
<1>3. SetToSeq(Missing(m) \ {Session}) = <<>>
  BY <1>2, ListOfNone
<1>4. RestoredStack(m) = (stack \o <<>>) \o <<>>
  BY <1>2, <1>3 DEF RestoredStack
<1> QED
  BY <1>1, <1>4, ConcatEmptySeq

LEMMA RestoredToNothing ==
  ASSUME NEW m \in Mechanisms, suspended[m] = Both, item \in Tests, stack = <<>>
  PROVE  RestoredStack(m) = <<Session, ModuleOf[item]>>
<1>1. Range(stack) = {}
  BY DEF Range
<1>2. Missing(m) = {Session, ModuleOf[item]} /\ ModuleOf[item] # Session
  BY <1>1, SuspendedNodes, ChainProperties DEF Missing, Above
<1>3. Missing(m) \ {Session} = {ModuleOf[item]}
  BY <1>2
<1>4. SetToSeq(Missing(m) \ {Session}) = <<ModuleOf[item]>>
  BY <1>3, ListOfOne
<1>5. RestoredStack(m) = (<<>> \o <<Session>>) \o <<ModuleOf[item]>>
  BY <1>2, <1>4 DEF RestoredStack
<1>6. <<>> \o <<Session>> = <<Session>>
  <2>1. <<Session>> \in Seq({Session})
    OBVIOUS
  <2> QED
    BY <2>1, ConcatEmptySeq
<1>7. <<Session>> \o <<ModuleOf[item]>> = <<Session, ModuleOf[item]>>
  <2> DEFINE S == {Session, ModuleOf[item]}
             s == <<Session>> \o <<ModuleOf[item]>>
             u == <<Session, ModuleOf[item]>>
  <2>1. <<Session>> \in Seq(S) /\ <<ModuleOf[item]>> \in Seq(S)
        /\ Len(<<Session>>) = 1 /\ Len(<<ModuleOf[item]>>) = 1
        /\ u \in Seq(S) /\ Len(u) = 2 /\ u[1] = Session /\ u[2] = ModuleOf[item]
    OBVIOUS
  <2>2. s \in Seq(S) /\ Len(s) = 2 /\ s[1] = Session /\ s[2] = ModuleOf[item]
    BY <2>1, ConcatProperties
  <2>3. \A i \in 1..Len(s) : s[i] = u[i]
    BY <2>1, <2>2
  <2> QED
    BY <2>1, <2>2, <2>3, SeqEqual
<1> QED
  BY <1>5, <1>6, <1>7

\* One report more in the verdict's fold: a failed one makes its test failed, any
\* other leaves it as failed or not as it was, and no other test is touched.
Loggable == Outcomes \cup {"none", "rerun"}

LEMMA OneReport ==
  ASSUME NEW f \in [Tests -> Status], item \in Tests, NEW p \in Phases,
         NEW log \in [Phases -> Loggable]
  PROVE  /\ LogReport(f, p, log) \in [Tests -> Status]
         /\ \A t \in Tests \ {item} : LogReport(f, p, log)[t] = f[t]
         /\ LogReport(f, p, log)[item] = "failed" <=> f[item] = "failed" \/ log[p] = "failed"
<1> DEFINE r == [when |-> p, outcome |-> log[p], wasxfail |-> FALSE, quarantined |-> FALSE]
<1>1. CASE log[p] = "none"
  BY <1>1 DEF LogReport
<1>2. CASE log[p] # "none"
  <2>1. LogReport(f, p, log) = [f EXCEPT ![item] = Upgrade(f[item], StatusOf(r))]
    BY <1>2 DEF LogReport, Record
  <2>2. r.outcome = log[p] /\ r.wasxfail = FALSE /\ r.when = p /\ log[p] \in Loggable
    OBVIOUS
  <2>3. StatusOf(r) \in Status /\ (StatusOf(r) = "failed" <=> log[p] = "failed")
    <3> HIDE DEF r
    <3> QED
      BY <2>2 DEF StatusOf, Status, FinalStatus, Loggable, Outcomes
  <2>4. \A old, new \in Status :
          /\ Upgrade(old, new) \in Status
          /\ Upgrade(old, new) = "failed" <=> old = "failed" \/ new = "failed"
    BY DEF Upgrade, Status, FinalStatus, Precedence
  <2>5. f[item] \in Status
    OBVIOUS
  <2> HIDE DEF r
  <2> QED
    BY <2>1, <2>3, <2>4, <2>5
<1> QED
  BY <1>1, <1>2

\* The three phases of an attempt.
LEMMA FoldOfAttempt ==
  ASSUME NEW f \in [Tests -> Status], item \in Tests, NEW log \in [Phases -> Loggable]
  PROVE  /\ Folded(f, log) \in [Tests -> Status]
         /\ \A t \in Tests \ {item} : Folded(f, log)[t] = f[t]
         /\ Folded(f, log)[item] = "failed" <=> f[item] = "failed" \/ Failed(log)
<1> DEFINE g == LogReport(f, "setup", log)
           h == LogReport(g, "call", log)
<1>1. Failed(log) <=> log["setup"] = "failed" \/ log["call"] = "failed" \/ log["teardown"] = "failed"
  BY DEF Failed, Phases
<1>2. /\ g \in [Tests -> Status]
      /\ \A t \in Tests \ {item} : g[t] = f[t]
      /\ g[item] = "failed" <=> f[item] = "failed" \/ log["setup"] = "failed"
  BY OneReport DEF Phases
<1> HIDE DEF g
<1>3. /\ h \in [Tests -> Status]
      /\ \A t \in Tests \ {item} : h[t] = g[t]
      /\ h[item] = "failed" <=> g[item] = "failed" \/ log["call"] = "failed"
  BY <1>2, OneReport DEF Phases
<1> HIDE DEF h
<1>4. /\ LogReport(h, "teardown", log) \in [Tests -> Status]
      /\ \A t \in Tests \ {item} : LogReport(h, "teardown", log)[t] = h[t]
      /\ LogReport(h, "teardown", log)[item] = "failed"
           <=> h[item] = "failed" \/ log["teardown"] = "failed"
  BY <1>3, OneReport DEF Phases
<1>5. Folded(f, log) = LogReport(h, "teardown", log)
  BY DEF Folded, g, h
<1> QED
  BY <1>1, <1>2, <1>3, <1>4, <1>5

LEMMA AttemptLogIsLoggable ==
  ASSUME reports \in [Phases -> Outcomes \cup {"none"}]
  PROVE  AttemptLog \in [Phases -> Loggable]
BY DEF AttemptLog, LoggedAs, Loggable

LEMMA HeldLogIsLoggable ==
  ASSUME NEW reps \in [Phases -> Outcomes \cup {"none"}]
  PROVE  HeldLog(reps) \in [Phases -> Loggable]
BY DEF HeldLog, Loggable, Outcomes

\* The number of times the session came to a collector's tests, one item further.
VisitsBy(c, p) ==
  Cardinality({i \in DOMAIN Order : i <= p /\ Under(c, i) /\ (i > 1 => ~Under(c, i - 1))})

LEMMA VisitsGrow ==
  ASSUME NEW c, NEW p \in Nat
  PROVE  /\ VisitsBy(c, p) \in Nat /\ VisitsBy(c, p + 1) \in Nat
         /\ VisitsBy(c, p) <= VisitsBy(c, p + 1)
         /\ p + 1 <= Len(Order) /\ Under(c, p + 1) /\ (p > 0 => ~Under(c, p)) =>
              VisitsBy(c, p + 1) = VisitsBy(c, p) + 1
<1> DEFINE V(q) == {i \in DOMAIN Order : i <= q /\ Under(c, i) /\ (i > 1 => ~Under(c, i - 1))}
<1>1. Len(Order) \in Nat /\ DOMAIN Order = 1..Len(Order)
  BY RerunAssumption, LenProperties
<1>2. IsFiniteSet(1..Len(Order))
  BY <1>1, FS_Interval
<1>3. IsFiniteSet(V(p)) /\ IsFiniteSet(V(p + 1))
  BY <1>1, <1>2, FS_Subset
<1>4. V(p) \subseteq V(p + 1)
  BY <1>1
<1>5. Cardinality(V(p)) <= Cardinality(V(p + 1))
  BY <1>3, <1>4, FS_Subset
<1>6. Cardinality(V(p)) \in Nat /\ Cardinality(V(p + 1)) \in Nat
  BY <1>3, FS_CardinalityType
<1>7. ASSUME p + 1 <= Len(Order), Under(c, p + 1), p > 0 => ~Under(c, p)
      PROVE  Cardinality(V(p + 1)) = Cardinality(V(p)) + 1
  <2>1. p + 1 \in V(p + 1) /\ p + 1 \notin V(p)
    BY <1>1, <1>7
  <2>2. V(p + 1) = V(p) \cup {p + 1}
    BY <1>1, <2>1
  <2> HIDE DEF V
  <2>3. Cardinality(V(p) \cup {p + 1}) = Cardinality(V(p)) + 1
    BY <1>3, <2>1, FS_AddElement
  <2> QED
    BY <2>2, <2>3
<1>8. VisitsBy(c, p) = Cardinality(V(p)) /\ VisitsBy(c, p + 1) = Cardinality(V(p + 1))
  BY DEF VisitsBy
<1> HIDE DEF V
<1> QED
  BY <1>5, <1>6, <1>7, <1>8

\* What a report makes of a mechanism's metrics.
Metrics == [kept : BOOLEAN, count : Nat, deadline : BOOLEAN, tooSlow : BOOLEAN, last : BOOLEAN]

LEMMA FilledProperties ==
  ASSUME MetricsTypes, NEW m \in Mechanisms, NEW phase \in Phases, NEW o \in Outcomes
  PROVE  /\ Filled(m, phase, o) \in Metrics
         /\ Filled(m, phase, o).kept =>
              metrics[m].kept \/ (phase = "setup" /\ item \in Targets[m] \ plan.overlong)
         /\ HasExecuted(m) =>
              /\ Filled(m, phase, o).kept
              /\ Filled(m, phase, o).deadline = metrics[m].deadline
              /\ Filled(m, phase, o).tooSlow = metrics[m].tooSlow
              /\ Filled(m, phase, o).last = metrics[m].last
              /\ Filled(m, phase, o).count =
                   IF phase = "call" /\ item \in Targets[m] \ plan.overlong
                     THEN metrics[m].count + 1 ELSE metrics[m].count
         /\ ~HasExecuted(m) =>
              /\ Filled(m, phase, o).deadline => metrics[m].deadline
              /\ Filled(m, phase, o).tooSlow => metrics[m].tooSlow
              /\ Filled(m, phase, o).last => metrics[m].last
              /\ phase # "call" =>
                   Filled(m, phase, o).count = metrics[m].count \/ Filled(m, phase, o).count = 0
              /\ Filled(m, phase, o).count \in {0, metrics[m].count, metrics[m].count + 1}
              /\ ~Filled(m, phase, o).kept =>
                   Filled(m, phase, o) = NoMetrics \/ Filled(m, phase, o) = metrics[m]
<1>1. metrics[m] \in Metrics
  BY DEF MetricsTypes, Metrics
<1>2. NoMetrics \in Metrics /\ NoMetrics.kept = FALSE /\ NoMetrics.count = 0
      /\ NoMetrics.deadline = FALSE /\ NoMetrics.tooSlow = FALSE /\ NoMetrics.last = FALSE
  BY DEF NoMetrics, Metrics
<1> DEFINE up == [metrics[m] EXCEPT !.kept = TRUE,
                                    !.count = IF phase = "call" THEN @ + 1 ELSE @]
<1>3. /\ up \in Metrics /\ up.kept = TRUE
      /\ up.count = (IF phase = "call" THEN metrics[m].count + 1 ELSE metrics[m].count)
      /\ up.deadline = metrics[m].deadline /\ up.tooSlow = metrics[m].tooSlow
      /\ up.last = metrics[m].last
  <2>1. CASE phase = "call"
    <3>1. up = [metrics[m] EXCEPT !.kept = TRUE, !.count = metrics[m].count + 1]
      BY <1>1, <2>1 DEF Metrics
    <3>2. metrics[m].count + 1 \in Nat
      BY <1>1 DEF Metrics
    <3> HIDE DEF up
    <3>3. up = [kept |-> TRUE, count |-> metrics[m].count + 1, deadline |-> metrics[m].deadline,
                tooSlow |-> metrics[m].tooSlow, last |-> metrics[m].last]
      BY <1>1, <3>1 DEF Metrics
    <3> QED
      BY <1>1, <2>1, <3>2, <3>3 DEF Metrics
  <2>2. CASE phase # "call"
    <3>1. up = [metrics[m] EXCEPT !.kept = TRUE]
      BY <1>1, <2>2 DEF Metrics
    <3> QED
      BY <1>1, <2>2, <3>1 DEF Metrics
  <2> QED
    BY <2>1, <2>2
<1>4. metrics[m].count \in Nat
  BY <1>1 DEF Metrics
<1>5. CASE o = "skipped" /\ ~HasExecuted(m)
  <2>1. Filled(m, phase, o) = NoMetrics
    BY <1>5 DEF Filled
  <2> QED
    BY <1>2, <1>4, <1>5, <2>1
<1>6. CASE /\ o # "skipped" \/ HasExecuted(m)
           /\ item \in Targets[m] \ plan.overlong
           /\ metrics[m].kept \/ phase = "setup"
  <2>1. Filled(m, phase, o) = up
    BY <1>6 DEF Filled
  <2> HIDE DEF up
  <2> QED
    BY <1>3, <1>4, <1>6, <2>1
<1>7. CASE /\ o # "skipped" \/ HasExecuted(m)
           /\ ~(item \in Targets[m] \ plan.overlong /\ (metrics[m].kept \/ phase = "setup"))
  <2>1. Filled(m, phase, o) = metrics[m]
    BY <1>7 DEF Filled
  <2>2. HasExecuted(m) => metrics[m].kept
    BY DEF HasExecuted
  <2> HIDE DEF up
  <2> QED
    BY <1>1, <1>4, <1>7, <2>1, <2>2
<1> QED
  BY <1>5, <1>6, <1>7

-----------------------------------------------------------------------------
(***************************************************************************)
(* The item in hand.                                                       *)
(***************************************************************************)

LEMMA OrderIsFinite == Len(Order) \in Nat /\ DOMAIN Order = 1..Len(Order)
BY RerunAssumption, LenProperties

LEMMA InHand ==
  ASSUME TypeOK, Ahead, Active
  PROVE  pos \in 1..Len(Order) /\ item \in Tests
<1>1. pos \in 1..Len(Order)
  BY OrderIsFinite DEF TypeOK, RunningTypes, Ahead
<1> QED
  BY <1>1, ItemIsATest

\* No two mechanisms rerun one test.
LEMMA OneMechanism ==
  ASSUME Counted("detector"), Counted("retrier")
  PROVE  /\ metrics["detector"].kept =>
              /\ item \in plan.detected \ plan.overlong
              /\ ~metrics["retrier"].kept /\ ~HasExecuted("retrier")
         /\ metrics["retrier"].kept =>
              /\ item \in (Eligible \ plan.detected) \ plan.overlong
              /\ ~metrics["detector"].kept /\ ~HasExecuted("detector")
<1>1. Targets["detector"] = plan.detected /\ Targets["retrier"] = Eligible \ plan.detected
  BY DEF Targets, Mechanisms
<1> QED
  BY <1>1 DEF Counted, HasExecuted

\* A new item is taken up.
LEMMA StartTestPreserves ==
  ASSUME IInv, StartTest
  PROVE  IInv'
<1>1. /\ pc = "idle" /\ pos <= Len(Order) /\ pc' = "setup" /\ attempt' = "first"
      /\ reports' = NotRun /\ held' = NotRun /\ expired' = FALSE /\ seen' = NothingYet
      /\ metrics' = [m \in Mechanisms |-> NoMetrics]
      /\ UNCHANGED <<plan, pos, retry, fixtures, logged>>
  BY DEF StartTest
<1>2. pos \in DOMAIN Order /\ ToCome(pos)
  BY <1>1, OrderIsFinite DEF IInv, TypeOK, RunningTypes, ToCome
<1>3. TypeOK'
  <2>1. MetricsTypes'
    BY <1>1 DEF MetricsTypes, NoMetrics
  <2>2. RunningTypes'
    BY <1>1 DEF IInv, TypeOK, RunningTypes, NotRun
  <2>3. FixtureTypes' /\ LogTypes'
    BY <1>1 DEF IInv, TypeOK, FixtureTypes, LogTypes, fixtures, retry, logged
  <2>4. HistoryTypes'
    BY <1>1 DEF HistoryTypes, NothingYet
  <2> QED
    BY <2>1, <2>2, <2>3, <2>4 DEF TypeOK
<1>4. Ahead'
  BY <1>1 DEF IInv, Ahead, ToCome, logged, retry
<1>5. AttemptInv'
  <2>1. \A m \in Mechanisms : Counted(m)'
    BY <1>1 DEF Counted, HasExecuted, NoMetrics, NothingYet
  <2>2. Rerunning'
    BY <1>1 DEF Rerunning, NothingYet
  <2>3. Suspending'
    BY <1>1 DEF IInv, FixtureInv, Suspending, fixtures, Mechanisms
  <2>4. Stacked' /\ Unreported'
    BY <1>1 DEF Stacked, Unreported, NotRun, Phases
  <2>5. Remembered'
    BY <1>1, <1>2 DEF IInv, Ahead, Remembered, FirstReports, NothingYet, NotRun, Phases, item,
       TypeOK, LogTypes, retry
  <2>6. Concluding'
    <3>1. ~Failed(AttemptLog)'
      BY <1>1 DEF Failed, AttemptLog, LoggedAs, NotRun
    <3>2. ~PhaseFailed(FirstReports)'
      BY <1>1 DEF PhaseFailed, FirstReports, NotRun, Phases
    <3>3. final'[item'] = "none"
      BY <1>1, <1>2 DEF IInv, Ahead, item, logged
    <3> QED
      BY <1>1, <3>1, <3>2, <3>3 DEF Concluding, NothingYet, AllGate
  <2> QED
    BY <2>1, <2>2, <2>3, <2>4, <2>5, <2>6 DEF AttemptInv
<1>6. FixtureInv'
  <2>1. Conserved' /\ Levels'
    BY <1>1 DEF IInv, FixtureInv, Conserved, HeldBy, Levels, LevelsOf, fixtures
  <2>2. Created'
    BY <1>1 DEF IInv, FixtureInv, Created, Due, Visits, Under, fixtures
  <2> QED
    BY <1>1, <2>1, <2>2 DEF FixtureInv
<1>7. Capped'
  BY <1>1, RerunAssumption DEF Capped, WithinTheCap, NothingYet
<1>8. NoFinalizerIsLost' /\ VerdictIsTheContract'
  BY <1>1 DEF NoFinalizerIsLost, VerdictIsTheContract, AtTestEnd
<1> QED
  BY <1>3, <1>4, <1>5, <1>6, <1>7, <1>8 DEF IInv

\* Whether the attempt in hand would be logged as a failure.
LogFails(a, reps, eligible, mode) ==
  /\ ~(a = "first" /\ eligible)
  /\ \/ PhaseFailed(reps)
     \/ reps["call"] = "failed" /\ a # "retrier" /\ (a = "detector" => mode = "new")

LEMMA FailedLog ==
  ASSUME reports \in [Phases -> Outcomes \cup {"none"}]
  PROVE  Failed(AttemptLog) <=> LogFails(attempt, reports, item \in Eligible, plan.mode)
BY DEF Failed, AttemptLog, LoggedAs, LogFails, PhaseFailed, Phases, Outcomes

LEMMA FailedLogNext ==
  ASSUME reports' \in [Phases -> Outcomes \cup {"none"}]
  PROVE  Failed(AttemptLog)' <=> LogFails(attempt', reports', item' \in Eligible', plan.mode')
BY DEF Failed, AttemptLog, LoggedAs, LogFails, PhaseFailed, Phases, Outcomes

\* A report that is not of a call leaves what the metrics count as it was.
LEMMA NoCallReported ==
  ASSUME MetricsTypes, NEW m \in Mechanisms, Counted(m),
         NEW phase \in {"setup", "teardown"}, NEW o \in Outcomes,
         metrics'[m] = Filled(m, phase, o), UNCHANGED <<plan, pos, attempt>>,
         seen'.calls = seen.calls, pc \in {"setup", "teardown"}
  PROVE  /\ Counted(m)'
         /\ HasExecuted(m)' <=> HasExecuted(m)
         /\ HasExecuted(m) =>
              /\ metrics'[m].deadline = metrics[m].deadline
              /\ metrics'[m].tooSlow = metrics[m].tooSlow
              /\ metrics'[m].last = metrics[m].last
<1> DEFINE f == Filled(m, phase, o)
<1>1. phase \in Phases /\ phase # "call"
  BY DEF Phases
<1>2. /\ f \in Metrics
      /\ f.kept => metrics[m].kept \/ (phase = "setup" /\ item \in Targets[m] \ plan.overlong)
      /\ HasExecuted(m) =>
           /\ f.kept
           /\ f.deadline = metrics[m].deadline
           /\ f.tooSlow = metrics[m].tooSlow
           /\ f.last = metrics[m].last
           /\ f.count = metrics[m].count
      /\ ~HasExecuted(m) =>
           /\ f.deadline => metrics[m].deadline
           /\ f.tooSlow => metrics[m].tooSlow
           /\ f.last => metrics[m].last
           /\ f.count = metrics[m].count \/ f.count = 0
           /\ ~f.kept => f = NoMetrics \/ f = metrics[m]
  BY <1>1, FilledProperties
<1>3. metrics'[m] = f
  OBVIOUS
<1>4. NoMetrics.count = 0 /\ metrics[m] \in Metrics
  BY DEF NoMetrics, MetricsTypes, Metrics
<1>5. item' = item /\ Targets' = Targets /\ plan' = plan /\ attempt' = attempt
  BY DEF item, Targets, Eligible
<1> HIDE DEF f
<1>6. HasExecuted(m)' <=> HasExecuted(m)
  BY <1>2, <1>3, <1>4 DEF HasExecuted, Counted
<1>7. HasExecuted(m)' => metrics'[m].count = seen'.calls
  BY <1>2, <1>3, <1>6 DEF Counted
<1>8. metrics'[m].kept => item' \in Targets'[m] \ plan'.overlong
  BY <1>2, <1>3, <1>5 DEF Counted
<1>9. ~metrics'[m].kept => metrics'[m] = NoMetrics
  BY <1>2, <1>3 DEF Counted, HasExecuted
<1>10. attempt' = "first" /\ pc' \in {"setup", "call", "teardown"} =>
         ~metrics'[m].deadline /\ ~metrics'[m].tooSlow
  BY <1>2, <1>3, <1>5 DEF Counted
<1>11. attempt' = "first" => ~metrics'[m].last
  BY <1>2, <1>3, <1>5 DEF Counted
<1>12. seen'.calls = 0 => metrics'[m].count = 0
  BY <1>2, <1>3, <1>4 DEF Counted
<1> QED
  BY <1>2, <1>3, <1>6, <1>7, <1>8, <1>9, <1>10, <1>11, <1>12 DEF Counted

\* Mechanisms whose metrics say the same and whose item is the same want the same.
LEMMA WantsTheSame ==
  ASSUME NEW m \in Mechanisms, HasExecuted(m)' <=> HasExecuted(m),
         UNCHANGED <<plan, pos, failedInitially>>
  PROVE  WantsRerun(m)' <=> WantsRerun(m)
BY DEF WantsRerun, Targets, Eligible, item

\* The item's fixtures are set up and its own setup ends, or pytest refuses it.
LEMMA SetupPreserves ==
  ASSUME IInv, Setup
  PROVE  IInv'
<1>1. PICK o \in Outcomes :
        /\ IF Range(stack) \subseteq Range(Chain(item))
             THEN /\ stack' = Chain(item)
                  /\ fin' = fin \cup ({Session, ModuleOf[item]} \ alive)
                  /\ alive' = alive \cup ({Session, ModuleOf[item]} \ alive)
                  /\ created' = [c \in Collectors |->
                                   IF c \in {Session, ModuleOf[item]} \ alive
                                     THEN created[c] + 1 ELSE created[c]]
             ELSE o = "failed" /\ UNCHANGED <<stack, fin, alive, created>>
        /\ reports' = [reports EXCEPT !["setup"] = o]
        /\ metrics' = [m \in Mechanisms |-> Filled(m, "setup", o)]
        /\ pc' = IF o = "passed" THEN "call" ELSE "teardown"
        /\ seen' = [seen EXCEPT !.phaseFailed = @ \/ o = "failed"]
  BY DEF Setup, Reported
<1>2. /\ pc = "setup"
      /\ UNCHANGED <<plan, pos, attempt, held, expired, failedInitially, rescued, suspended,
                     final, red, hasError>>
  BY DEF Setup, retry, logged
<1>3. pc' \in {"call", "teardown"} /\ item' = item /\ Active /\ Active'
  BY <1>1, <1>2 DEF item, Active
<1>4. pos \in 1..Len(Order) /\ item \in Tests
  BY <1>3, InHand DEF IInv
<1>5. /\ Chain(item) \in Seq(Nodes) /\ Range(Chain(item)) = {Session, ModuleOf[item], item}
      /\ ModuleOf[item] \in Collectors /\ Session \in Collectors
  BY <1>4, ChainProperties DEF Collectors
<1>6. /\ seen'.calls = seen.calls /\ seen'.first = seen.first /\ seen'.failed = seen.failed
      /\ seen'.passedLater = seen.passedLater /\ seen'.results = seen.results
      /\ seen'.phaseFailed = (seen.phaseFailed \/ o = "failed")
  BY <1>1 DEF IInv, TypeOK, HistoryTypes
<1>7. /\ \A m \in Mechanisms : metrics'[m] = Filled(m, "setup", o)
      /\ \A p \in Phases : reports'[p] = IF p = "setup" THEN o ELSE reports[p]
  BY <1>1 DEF IInv, TypeOK, RunningTypes
<1>8. /\ \A m \in Mechanisms : Counted(m)
      /\ Rerunning /\ Suspending /\ Stacked /\ Unreported /\ Remembered /\ Concluding
  BY <1>3 DEF IInv, AttemptInv
<1>9. stack \in Seq(Nodes) /\ fin \subseteq Range(stack) /\ fin \subseteq Collectors
      /\ alive \subseteq Collectors /\ created \in [Collectors -> Nat]
  BY DEF IInv, TypeOK, FixtureTypes, Nodes
<1>t. TypeOK'
  <2>1. MetricsTypes'
    <3>1. \A m \in Mechanisms : Filled(m, "setup", o) \in Metrics
      BY FilledProperties DEF IInv, TypeOK, Phases
    <3> QED
      BY <1>1, <3>1 DEF MetricsTypes, Metrics
  <2>2. RunningTypes'
    BY <1>1, <1>2 DEF IInv, TypeOK, RunningTypes, Phases
  <2>3. FixtureTypes'
    <3>1. CASE Range(stack) \subseteq Range(Chain(item))
      <4>1. stack' \in Seq(Collectors \cup Tests)
        BY <1>1, <1>5, <3>1 DEF Nodes
      <4>2. fin' \subseteq Collectors /\ fin' \subseteq Range(stack') /\ alive' \subseteq Collectors
        BY <1>1, <1>5, <1>9, <3>1
      <4>3. created' \in [Collectors -> Nat]
        BY <1>1, <1>9, <3>1
      <4> QED
        BY <1>2, <4>1, <4>2, <4>3 DEF IInv, TypeOK, FixtureTypes
    <3>2. CASE ~(Range(stack) \subseteq Range(Chain(item)))
      BY <1>1, <1>2, <3>2 DEF IInv, TypeOK, FixtureTypes
    <3> QED
      BY <3>1, <3>2
  <2>4. LogTypes' /\ HistoryTypes'
    BY <1>1, <1>2 DEF IInv, TypeOK, LogTypes, HistoryTypes
  <2> QED
    BY <2>1, <2>2, <2>3, <2>4 DEF TypeOK
<1>a. Ahead'
  BY <1>1, <1>2, <1>3, <1>4 DEF IInv, Ahead, ToCome
<1>10. \A m \in Mechanisms :
         /\ Counted(m)'
         /\ HasExecuted(m)' <=> HasExecuted(m)
         /\ WantsRerun(m)' <=> WantsRerun(m)
         /\ HasExecuted(m) =>
              /\ metrics'[m].deadline = metrics[m].deadline
              /\ metrics'[m].tooSlow = metrics[m].tooSlow
              /\ metrics'[m].last = metrics[m].last
  <2> SUFFICES ASSUME NEW m \in Mechanisms
               PROVE  /\ Counted(m)'
                      /\ HasExecuted(m)' <=> HasExecuted(m)
                      /\ WantsRerun(m)' <=> WantsRerun(m)
                      /\ HasExecuted(m) =>
                           /\ metrics'[m].deadline = metrics[m].deadline
                           /\ metrics'[m].tooSlow = metrics[m].tooSlow
                           /\ metrics'[m].last = metrics[m].last
    OBVIOUS
  <2>1. MetricsTypes /\ Counted(m) /\ metrics'[m] = Filled(m, "setup", o)
    BY <1>7, <1>8 DEF IInv, TypeOK
  <2>2. /\ Counted(m)'
        /\ HasExecuted(m)' <=> HasExecuted(m)
        /\ HasExecuted(m) =>
             /\ metrics'[m].deadline = metrics[m].deadline
             /\ metrics'[m].tooSlow = metrics[m].tooSlow
             /\ metrics'[m].last = metrics[m].last
    BY <1>2, <1>6, <2>1, NoCallReported
  <2>3. WantsRerun(m)' <=> WantsRerun(m)
    BY <1>2, <2>2, WantsTheSame
  <2> QED
    BY <2>2, <2>3
<1>11. attempt \in {"first"} \cup Mechanisms
  BY DEF IInv, TypeOK, RunningTypes
<1>12. attempt # "first" => WantsRerun(attempt) /\ HasExecuted(attempt)
  BY <1>8 DEF Rerunning, WantsRerun
<1>13. attempt # "first" => stack = <<>>
  BY <1>2, <1>8 DEF Stacked
<1>14. stack = <<>> => Range(stack) \subseteq Range(Chain(item))
  BY DEF Range
<1>15. Chain(item)' = Chain(item)
  BY <1>3 DEF Chain
<1>b. AttemptInv'
  <2>2. Rerunning'
    BY <1>2, <1>3, <1>6, <1>8, <1>10, <1>11, <1>12 DEF Rerunning
  <2>3. Suspending'
    BY <1>2, <1>3, <1>8, <1>15 DEF Suspending, Both, Above, item
  <2>4. Stacked'
    <3>1. pc' = "call" => stack' = Chain(item)'
      BY <1>1, <1>15
    <3>2. pc' = "teardown" /\ seen'.calls > 0 => stack' = Chain(item)'
      BY <1>1, <1>2, <1>6, <1>8, <1>13, <1>14, <1>15 DEF Rerunning
    <3>3. stack' = Chain(item)' => Above' \subseteq alive'
      BY <1>1, <1>3, <1>15 DEF Above
    <3> QED
      BY <1>3, <3>1, <3>2, <3>3 DEF Stacked
  <2>5. Unreported'
    BY <1>1, <1>2, <1>7, <1>8 DEF Unreported, Phases
  <2>6. Remembered'
    <3>1. FirstReports'["call"] = FirstReports["call"]
      BY <1>2, <1>7 DEF FirstReports, Phases
    <3>2. Eligible' = Eligible
      BY <1>2 DEF Eligible
    <3> QED
      BY <1>2, <1>3, <1>6, <1>8, <3>1, <3>2 DEF Remembered
  <2>7. Concluding'
    <3>1. /\ reports \in [Phases -> Outcomes \cup {"none"}]
          /\ reports' \in [Phases -> Outcomes \cup {"none"}]
      BY <1>t DEF IInv, TypeOK, RunningTypes
    <3>2. Eligible' = Eligible /\ AllGate' = AllGate
      BY <1>2, <1>3 DEF Eligible, AllGate
    <3>3. reports["setup"] = "none" /\ reports["call"] = "none" /\ reports["teardown"] = "none"
      BY <1>2, <1>8 DEF Unreported
    <3>4. reports'["setup"] = o /\ reports'["call"] = "none" /\ reports'["teardown"] = "none"
      BY <1>7, <3>3 DEF Phases
    <3>5. ~Failed(AttemptLog)
      BY <3>1, <3>3, FailedLog DEF LogFails, PhaseFailed
    <3>6. Failed(AttemptLog)' <=> ~(attempt = "first" /\ item \in Eligible) /\ o = "failed"
      BY <1>2, <1>3, <3>1, <3>2, <3>4, FailedLogNext DEF LogFails, PhaseFailed
    <3>7. PhaseFailed(FirstReports)' <=>
            IF attempt = "first" THEN o = "failed" ELSE PhaseFailed(FirstReports)
      BY <1>2, <3>4 DEF PhaseFailed, FirstReports
    <3>8. attempt = "first" => ~PhaseFailed(FirstReports)
      BY <3>3 DEF PhaseFailed, FirstReports
    <3> QED
      BY <1>2, <1>3, <1>6, <1>8, <3>2, <3>5, <3>6, <3>7, <3>8 DEF Concluding
  <2> QED
    BY <1>10, <2>2, <2>3, <2>4, <2>5, <2>6, <2>7 DEF AttemptInv
<1>c. FixtureInv'
  <2>1. Conserved /\ Levels /\ Created
    BY <1>2 DEF IInv, FixtureInv
  <2>2. Conserved'
    <3>1. \A m \in Mechanisms : HeldBy(m)' = HeldBy(m)
      BY <1>2 DEF HeldBy
    <3> QED
      BY <1>1, <2>1, <3>1 DEF Conserved
  <2>3. Levels'
    <3>1. LevelsOf(Chain(item))
      BY <1>4 DEF LevelsOf, Chain, Modules
    <3> QED
      BY <1>1, <2>1, <3>1 DEF Levels, LevelsOf
  <2>4. Created'
    <3> SUFFICES ASSUME NEW c \in Collectors
                 PROVE  created'[c] <= Visits(c)' /\ (Due(c)' => created'[c] + 1 <= Visits(c)')
      BY DEF Created
    <3>1. Visits(c)' = Visits(c)
      BY <1>2 DEF Visits, Under
    <3>2. created[c] <= Visits(c) /\ (Due(c) => created[c] + 1 <= Visits(c))
      BY <2>1 DEF Created
    <3>3. Under(c, pos) <=> c \in Above
      <4>1. c # item
        BY <1>4, RerunAssumption
      <4> QED
        BY <1>5, <4>1 DEF Under, Above, item
    <3>4. pos <= Len(Order)
      BY <1>4, OrderIsFinite
    <3>5. c \in Above \ alive => Due(c)
      BY <1>2, <3>3, <3>4 DEF Due
    <3>6. CASE Range(stack) \subseteq Range(Chain(item))
      <4>1. ~Due(c)'
        <5>1. Due(c)' => Under(c, pos) /\ c \notin alive'
          BY <1>2 DEF Due, Under
        <5> QED
          BY <1>1, <3>3, <3>6, <5>1 DEF Above
      <4>2. created'[c] = IF c \in Above \ alive THEN created[c] + 1 ELSE created[c]
        BY <1>1, <3>6 DEF Above
      <4> QED
        BY <3>1, <3>2, <3>5, <4>1, <4>2
    <3>7. CASE ~(Range(stack) \subseteq Range(Chain(item)))
      <4>1. Due(c)' => Due(c)
        BY <1>1, <1>2, <3>4, <3>7 DEF Due, Under
      <4> QED
        BY <1>1, <3>1, <3>2, <3>7, <4>1
    <3> QED
      BY <3>6, <3>7
  <2> QED
    BY <1>3, <2>2, <2>3, <2>4 DEF FixtureInv
<1>d. Capped'
  <2>1. seen.calls \in Nat /\ MaxExecutions \in Nat
    BY RerunAssumption DEF IInv, TypeOK, HistoryTypes
  <2>2. attempt # "first" => metrics'[attempt].last = metrics[attempt].last
    BY <1>10, <1>11, <1>12
  <2> QED
    BY <1>2, <1>3, <1>6, <2>1, <2>2 DEF IInv, Capped, WithinTheCap
<1>e. NoFinalizerIsLost' /\ VerdictIsTheContract'
  BY <1>3 DEF NoFinalizerIsLost, VerdictIsTheContract, AtTestEnd, Active
<1> QED
  BY <1>t, <1>a, <1>b, <1>c, <1>d, <1>e DEF IInv

\* What is logged of a test whose failures all gate was not held back.
LEMMA AllGateIsNotEligible == AllGate => item \notin Eligible
BY DEF AllGate, Eligible

\* A call counts for the mechanism that reruns the test, and for no other.
LEMMA CallReported ==
  ASSUME MetricsTypes, NEW m \in Mechanisms, Counted("detector"), Counted("retrier"), Rerunning,
         attempt \in {"first"} \cup Mechanisms, seen.calls \in Nat,
         NEW o \in Outcomes, metrics'[m] = Filled(m, "call", o), UNCHANGED <<plan, pos, attempt>>,
         seen'.calls = seen.calls + 1, pc = "call"
  PROVE  /\ Counted(m)'
         /\ HasExecuted(m) =>
              /\ HasExecuted(m)'
              /\ metrics'[m].deadline = metrics[m].deadline
              /\ metrics'[m].tooSlow = metrics[m].tooSlow
              /\ metrics'[m].last = metrics[m].last
<1> DEFINE f == Filled(m, "call", o)
<1>0. Counted(m)
  BY DEF Mechanisms
<1>2. /\ f \in Metrics
      /\ f.kept => metrics[m].kept
      /\ HasExecuted(m) =>
           /\ f.kept
           /\ f.deadline = metrics[m].deadline
           /\ f.tooSlow = metrics[m].tooSlow
           /\ f.last = metrics[m].last
           /\ f.count = (IF item \in Targets[m] \ plan.overlong
                          THEN metrics[m].count + 1 ELSE metrics[m].count)
      /\ ~HasExecuted(m) =>
           /\ f.deadline => metrics[m].deadline
           /\ f.tooSlow => metrics[m].tooSlow
           /\ f.last => metrics[m].last
           /\ f.count \in {0, metrics[m].count, metrics[m].count + 1}
           /\ ~f.kept => f = NoMetrics \/ f = metrics[m]
  BY FilledProperties DEF Phases
<1>3. metrics'[m] = f
  OBVIOUS
<1>4. NoMetrics.count = 0 /\ metrics[m] \in Metrics /\ metrics[m].count \in Nat
  BY DEF NoMetrics, MetricsTypes, Metrics
<1>5. item' = item /\ Targets' = Targets /\ plan' = plan /\ attempt' = attempt
  BY DEF item, Targets, Eligible
<1> HIDE DEF f
<1>6. HasExecuted(m) => f.count = metrics[m].count + 1
  BY <1>0, <1>2 DEF Counted, HasExecuted
<1>7. ~HasExecuted(m) => metrics[m].count = 0
  BY <1>0, <1>4 DEF Counted, HasExecuted
<1>8. seen.calls > 0 => HasExecuted(m) \/ ~f.kept
  <2> SUFFICES ASSUME seen.calls > 0, ~HasExecuted(m)
               PROVE  ~f.kept
    OBVIOUS
  <2>1. attempt \in Mechanisms /\ HasExecuted(attempt)
    BY DEF Rerunning, WantsRerun
  <2>2. attempt # m /\ metrics[attempt].kept
    BY <2>1 DEF HasExecuted
  <2>3. ~metrics[m].kept
    BY <2>1, <2>2, OneMechanism DEF Mechanisms
  <2> QED
    BY <1>2, <2>3
<1>9. HasExecuted(m)' => metrics'[m].count = seen'.calls
  <2>1. HasExecuted(m)' => f.kept /\ f.count >= 1
    BY <1>3 DEF HasExecuted
  <2>2. CASE HasExecuted(m)
    BY <1>0, <1>3, <1>6, <2>2 DEF Counted
  <2>3. CASE ~HasExecuted(m)
    <3>1. HasExecuted(m)' => ~(seen.calls > 0) /\ f.count = 1
      BY <1>2, <1>4, <1>7, <1>8, <2>1, <2>3
    <3> QED
      BY <1>3, <3>1
  <2> QED
    BY <2>2, <2>3
<1>10. metrics'[m].kept => item' \in Targets'[m] \ plan'.overlong
  BY <1>0, <1>2, <1>3, <1>5 DEF Counted
<1>11. ~metrics'[m].kept => metrics'[m] = NoMetrics
  BY <1>0, <1>2, <1>3 DEF Counted, HasExecuted
<1>12. attempt' = "first" => ~metrics'[m].deadline /\ ~metrics'[m].tooSlow /\ ~metrics'[m].last
  BY <1>0, <1>2, <1>3, <1>5 DEF Counted
<1>13. HasExecuted(m) => HasExecuted(m)'
  BY <1>2, <1>3, <1>4, <1>6 DEF HasExecuted
<1> QED
  BY <1>2, <1>3, <1>9, <1>10, <1>11, <1>12, <1>13 DEF Counted

\* The body runs, and the retrier takes note of how it ended.
LEMMA CallPreserves ==
  ASSUME IInv, Call
  PROVE  IInv'
<1>1. PICK o \in Outcomes :
        /\ reports' = [reports EXCEPT !["call"] = o]
        /\ metrics' = [m \in Mechanisms |-> Filled(m, "call", o)]
        /\ failedInitially' =
             IF item \in Eligible /\ seen.calls = 0 /\ o = "failed"
               THEN failedInitially \cup {item} ELSE failedInitially
        /\ rescued' = IF Rescues(o) THEN rescued \cup {item} ELSE rescued
        /\ hasError' = (hasError \/ (seen.calls = 0 /\ o = "failed" /\ item \notin Eligible))
        /\ seen' = [seen EXCEPT !.first = IF seen.calls = 0 THEN o ELSE @,
                                !.passedLater = @ \/ (seen.calls > 0 /\ o = "passed"),
                                !.failed = @ \/ o = "failed",
                                !.calls = @ + 1]
  BY DEF Call, Reported
<1>2. /\ pc = "call" /\ pc' = "teardown"
      /\ UNCHANGED <<plan, pos, attempt, held, expired, stack, fin, suspended, alive, created,
                     final, red>>
  BY DEF Call, fixtures
<1>3. item' = item /\ Active /\ Active' /\ Chain(item)' = Chain(item) /\ Eligible' = Eligible
  BY <1>2 DEF item, Active, Chain, Eligible
<1>4. pos \in 1..Len(Order) /\ item \in Tests
  BY <1>3, InHand DEF IInv
<1>5. /\ seen.calls \in Nat /\ MaxExecutions \in Nat
      /\ seen.first \in Outcomes \cup {"none"} /\ seen.passedLater \in BOOLEAN
      /\ seen.failed \in BOOLEAN /\ seen.phaseFailed \in BOOLEAN /\ seen.results \in Nat
  BY RerunAssumption DEF IInv, TypeOK, HistoryTypes
<1>6. /\ seen'.calls = seen.calls + 1
      /\ seen'.first = (IF seen.calls = 0 THEN o ELSE seen.first)
      /\ seen'.failed = (seen.failed \/ o = "failed")
      /\ seen'.passedLater = (seen.passedLater \/ (seen.calls > 0 /\ o = "passed"))
      /\ seen'.results = seen.results /\ seen'.phaseFailed = seen.phaseFailed
      /\ HistoryTypes'
  <2>1. seen \in [first : Outcomes \cup {"none"}, passedLater : BOOLEAN, failed : BOOLEAN,
                  phaseFailed : BOOLEAN, calls : Nat, results : Nat]
    BY DEF IInv, TypeOK, HistoryTypes
  <2>2. seen' = [first |-> IF seen.calls = 0 THEN o ELSE seen.first,
                 passedLater |-> seen.passedLater \/ (seen.calls > 0 /\ o = "passed"),
                 failed |-> seen.failed \/ o = "failed",
                 phaseFailed |-> seen.phaseFailed,
                 calls |-> seen.calls + 1, results |-> seen.results]
    BY <1>1, <2>1
  <2>3. seen.calls + 1 \in Nat
    BY <1>5
  <2> QED
    BY <1>5, <2>2, <2>3 DEF HistoryTypes
<1>7. /\ \A m \in Mechanisms : metrics'[m] = Filled(m, "call", o)
      /\ \A p \in Phases : reports'[p] = IF p = "call" THEN o ELSE reports[p]
  BY <1>1 DEF IInv, TypeOK, RunningTypes
<1>8. /\ \A m \in Mechanisms : Counted(m)
      /\ Rerunning /\ Suspending /\ Stacked /\ Unreported /\ Remembered /\ Concluding
  BY <1>3 DEF IInv, AttemptInv
<1>9. attempt \in {"first"} \cup Mechanisms
  BY DEF IInv, TypeOK, RunningTypes
<1>10. \A m \in Mechanisms :
         /\ Counted(m)'
         /\ HasExecuted(m) =>
              /\ HasExecuted(m)'
              /\ metrics'[m].deadline = metrics[m].deadline
              /\ metrics'[m].tooSlow = metrics[m].tooSlow
              /\ metrics'[m].last = metrics[m].last
  <2>1. MetricsTypes /\ Counted("detector") /\ Counted("retrier")
    BY <1>8 DEF IInv, TypeOK, Mechanisms
  <2> QED
    BY <1>2, <1>5, <1>6, <1>7, <1>8, <1>9, <2>1, CallReported
<1>11. attempt = "first" => seen.calls = 0
  BY <1>2, <1>8 DEF Rerunning
<1>12. attempt # "first" =>
         /\ attempt \in Mechanisms /\ seen.calls > 0 /\ HasExecuted(attempt)
         /\ WantsRerun(attempt) /\ metrics[attempt].kept
         /\ metrics[attempt].deadline /\ ~metrics[attempt].tooSlow
  BY <1>8, <1>9 DEF Rerunning, WantsRerun, HasExecuted
<1>t. TypeOK'
  <2>1. MetricsTypes'
    <3>1. \A m \in Mechanisms : Filled(m, "call", o) \in Metrics
      BY FilledProperties DEF IInv, TypeOK, Phases
    <3> QED
      BY <1>1, <3>1 DEF MetricsTypes, Metrics
  <2>2. RunningTypes'
    BY <1>1, <1>2 DEF IInv, TypeOK, RunningTypes, Phases
  <2>3. FixtureTypes'
    BY <1>2 DEF IInv, TypeOK, FixtureTypes
  <2>4. LogTypes'
    <3>1. failedInitially' \subseteq Tests
      BY <1>1, <1>4 DEF IInv, TypeOK, LogTypes
    <3>2. rescued' \subseteq failedInitially'
      BY <1>1 DEF IInv, TypeOK, LogTypes, Rescues
    <3> QED
      BY <1>1, <1>2, <3>1, <3>2 DEF IInv, TypeOK, LogTypes
  <2> QED
    BY <1>6, <2>1, <2>2, <2>3, <2>4 DEF TypeOK
<1>a. Ahead'
  <2> SUFFICES ASSUME NEW i \in DOMAIN Order, ToCome(i)'
               PROVE  final'[Order[i]] = "none" /\ Order[i] \notin failedInitially'
    BY <1>2, <1>3, <1>4 DEF Ahead
  <2>1. i > pos /\ ToCome(i)
    BY <1>2 DEF ToCome
  <2>2. Order[i] # item
    BY <1>4, <2>1, OrderIsFinite, RerunAssumption DEF item, IsInjective
  <2> QED
    BY <1>1, <1>2, <2>1, <2>2 DEF IInv, Ahead
<1>b. AttemptInv'
  <2>2. Rerunning'
    <3>1. attempt # "first" => WantsRerun(attempt)'
      <4>1. attempt # "first" => HasExecuted(attempt)'
        BY <1>2, <1>10, <1>12 DEF HasExecuted
      <4>2. failedInitially \subseteq failedInitially' /\ Targets' = Targets /\ attempt' = attempt
        BY <1>1, <1>2, <1>3 DEF Targets
      <4> QED
        BY <1>2, <1>3, <1>12, <4>1, <4>2 DEF WantsRerun, HasExecuted
    <3> QED
      BY <1>2, <1>5, <1>6, <1>10, <1>12, <3>1 DEF Rerunning, WantsRerun, HasExecuted
  <2>3. Suspending'
    BY <1>2, <1>3, <1>8 DEF Suspending, Both, Above, item
  <2>4. Stacked'
    BY <1>2, <1>3, <1>8 DEF Stacked, Above
  <2>5. Unreported'
    BY <1>1, <1>2, <1>7, <1>8 DEF Unreported, Phases
  <2>6. Remembered'
    <3>1. FirstReports'["call"] = seen'.first
      BY <1>2, <1>6, <1>7, <1>8, <1>11, <1>12 DEF FirstReports, Phases, Remembered
    <3>2. seen'.calls > 0 /\ seen'.first \in Outcomes
      BY <1>5, <1>6, <1>8 DEF Remembered
    <3>3. attempt' = "first" => ~seen'.passedLater /\ (seen'.failed <=> seen'.first = "failed")
      <4>1. CASE attempt = "first"
        <5>1. ~(seen.calls > 0) /\ ~seen.passedLater /\ ~seen.failed /\ seen'.first = o
          BY <1>6, <1>8, <1>11, <4>1 DEF Remembered
        <5> QED
          BY <1>5, <1>6, <5>1
      <4> QED
        BY <1>2, <4>1
    <3>4. item \in failedInitially <=> item \in Eligible /\ seen.first = "failed"
      BY <1>8 DEF Remembered
    <3>5. item \in rescued <=> item \in Eligible /\ seen.first = "failed" /\ seen.passedLater
      BY <1>8 DEF Remembered
    <3>6. seen.calls = 0 => seen.first = "none" /\ ~seen.passedLater
      BY <1>8 DEF Remembered
    <3>7. item \in failedInitially' <=> item \in Eligible /\ seen'.first = "failed"
      BY <1>1, <1>6, <3>4, <3>6
    <3>8. item \in rescued' <=> item \in Eligible /\ seen'.first = "failed" /\ seen'.passedLater
      <4>1. CASE seen.calls = 0
        <5>1. ~(seen.calls > 0) /\ ~seen.passedLater
          BY <3>6, <4>1
        <5>2. rescued' = rescued /\ ~seen'.passedLater
          BY <1>1, <1>5, <1>6, <5>1 DEF Rescues
        <5> QED
          BY <3>5, <5>1, <5>2
      <4>2. CASE seen.calls # 0
        <5>1. seen.calls > 0
          BY <1>5, <4>2
        <5> QED
          BY <1>1, <1>6, <3>4, <3>5, <4>2, <5>1 DEF Rescues
      <4> QED
        BY <4>1, <4>2
    <3> QED
      BY <1>2, <1>3, <3>1, <3>2, <3>3, <3>7, <3>8 DEF Remembered
  <2>7. Concluding'
    <3>1. /\ reports \in [Phases -> Outcomes \cup {"none"}]
          /\ reports' \in [Phases -> Outcomes \cup {"none"}]
      BY <1>t DEF IInv, TypeOK, RunningTypes
    <3>2. AllGate' = AllGate /\ (AllGate => item \notin Eligible)
      BY <1>2, <1>3, AllGateIsNotEligible DEF AllGate
    <3>3. reports["setup"] = "passed" /\ reports["call"] = "none" /\ reports["teardown"] = "none"
      BY <1>2, <1>8 DEF Unreported
    <3>4. reports'["setup"] = "passed" /\ reports'["call"] = o /\ reports'["teardown"] = "none"
      BY <1>7, <3>3 DEF Phases
    <3>5. ~Failed(AttemptLog)
      BY <3>1, <3>3, FailedLog DEF LogFails, PhaseFailed
    <3>6. Failed(AttemptLog)' <=>
            /\ ~(attempt = "first" /\ item \in Eligible) /\ o = "failed"
            /\ attempt # "retrier" /\ (attempt = "detector" => plan.mode = "new")
      BY <1>2, <1>3, <3>1, <3>2, <3>4, FailedLogNext DEF LogFails, PhaseFailed
    <3>7. PhaseFailed(FirstReports)' <=> PhaseFailed(FirstReports)
      BY <1>2, <3>3, <3>4 DEF PhaseFailed, FirstReports
    <3>8. attempt = "detector" => item \in plan.detected
      BY <1>8, <1>12, OneMechanism DEF Mechanisms
    <3>9. attempt = "retrier" => item \in Eligible /\ item \notin plan.detected
      BY <1>8, <1>12, OneMechanism DEF Mechanisms
    <3>10. CASE attempt = "first"
      <4>1. seen.first = "none" /\ seen'.first = o
        BY <1>6, <1>8, <1>11, <3>10 DEF Remembered
      <4> QED
        BY <1>2, <1>3, <1>6, <1>8, <3>2, <3>5, <3>6, <3>7, <3>10, <4>1 DEF Concluding
    <3>11. CASE attempt = "detector"
      <4>1. seen'.first = seen.first /\ (plan.mode = "new" <=> AllGate)
        BY <1>6, <1>12, <3>8, <3>11 DEF AllGate
      <4> QED
        BY <1>2, <1>3, <1>6, <1>8, <3>2, <3>5, <3>6, <3>7, <3>11, <4>1 DEF Concluding
    <3>12. CASE attempt = "retrier"
      <4>1. seen'.first = seen.first /\ ~AllGate
        BY <1>6, <1>12, <3>9, <3>12 DEF AllGate
      <4> QED
        BY <1>2, <1>3, <1>6, <1>8, <3>2, <3>5, <3>6, <3>7, <3>9, <3>12, <4>1 DEF Concluding
    <3> QED
      BY <1>9, <3>10, <3>11, <3>12 DEF Mechanisms
  <2> QED
    BY <1>10, <2>2, <2>3, <2>4, <2>5, <2>6, <2>7 DEF AttemptInv
<1>c. FixtureInv'
  <2>1. Conserved' /\ Levels'
    BY <1>2 DEF IInv, FixtureInv, Conserved, HeldBy, Levels, LevelsOf
  <2>2. Created'
    BY <1>2 DEF IInv, FixtureInv, Created, Due, Visits, Under, NextChain
  <2> QED
    BY <1>2, <2>1, <2>2 DEF FixtureInv
<1>d. Capped'
  <2>1. attempt # "first" => metrics'[attempt].last = metrics[attempt].last
    BY <1>10, <1>12
  <2>2. CASE attempt = "first"
    BY <1>2, <1>3, <1>5, <1>6, <1>11, <2>2 DEF Capped, WithinTheCap
  <2>3. CASE attempt # "first"
    BY <1>2, <1>3, <1>5, <1>6, <2>1, <2>3 DEF IInv, Capped, WithinTheCap
  <2> QED
    BY <2>2, <2>3
<1>e. NoFinalizerIsLost' /\ VerdictIsTheContract'
  BY <1>2 DEF NoFinalizerIsLost, VerdictIsTheContract, AtTestEnd
<1> QED
  BY <1>t, <1>a, <1>b, <1>c, <1>d, <1>e DEF IInv

-----------------------------------------------------------------------------
(***************************************************************************)
(* Teardown.                                                               *)
(***************************************************************************)

\* What holds when an item's teardown begins.
LEMMA AtTeardown ==
  ASSUME IInv, pc = "teardown"
  PROVE  /\ pos \in 1..Len(Order) /\ item \in Tests
         /\ stack \in Seq(Nodes) /\ LevelsOf(stack)
         /\ fin \subseteq Range(stack) /\ fin \subseteq Collectors
         /\ \A m \in Mechanisms : Counted(m)
         /\ \A m \in Mechanisms : suspended[m] = IF attempt = m THEN Both ELSE {}
         /\ alive = fin \cup (IF attempt = "first" THEN {} ELSE Above)
         /\ attempt # "first" =>
              /\ attempt \in Mechanisms /\ WantsRerun(attempt) /\ metrics[attempt].deadline
         /\ \A m \in Mechanisms : WantsRerun(m) =>
              /\ seen.calls > 0 /\ stack = Chain(item) /\ Above \subseteq alive
              /\ attempt \in {"first", m} /\ ~metrics[m].tooSlow
              /\ \A n \in Mechanisms \ {m} : ~WantsRerun(n)
<1>1. pos \in 1..Len(Order) /\ item \in Tests
  BY InHand DEF IInv, Active
<1>2. /\ \A m \in Mechanisms : Counted(m)
      /\ Rerunning /\ Suspending /\ Stacked
  BY DEF IInv, AttemptInv, Active
<1>3. Conserved /\ LevelsOf(stack)
  BY DEF IInv, FixtureInv, Levels
<1>4. stack \in Seq(Nodes) /\ fin \subseteq Range(stack) /\ fin \subseteq Collectors
  BY DEF IInv, TypeOK, FixtureTypes, Nodes
<1>5. attempt \in {"first", "detector", "retrier"} /\ Mechanisms = {"detector", "retrier"}
  BY DEF IInv, TypeOK, RunningTypes, Mechanisms
<1>6. \A m \in Mechanisms : suspended[m] = IF attempt = m THEN Both ELSE {}
  BY <1>2 DEF Suspending
<1>7. alive = fin \cup (IF attempt = "first" THEN {} ELSE Above)
  <2>1. alive = fin \cup HeldBy("detector") \cup HeldBy("retrier")
    BY <1>3, <1>5 DEF Conserved
  <2>2. \A m \in Mechanisms : HeldBy(m) = IF attempt = m THEN Above ELSE {}
    <3> SUFFICES ASSUME NEW m \in Mechanisms
                 PROVE  HeldBy(m) = IF attempt = m THEN Above ELSE {}
      OBVIOUS
    <3>1. CASE attempt = m
      BY <1>6, <3>1, SuspendedNodes
    <3>2. CASE attempt # m
      BY <1>6, <3>2 DEF HeldBy
    <3> QED
      BY <3>1, <3>2
  <2> QED
    BY <1>5, <2>1, <2>2
<1>8. attempt # "first" =>
        attempt \in Mechanisms /\ WantsRerun(attempt)
        /\ metrics[attempt].deadline /\ ~metrics[attempt].tooSlow
  BY <1>2, <1>5 DEF Rerunning
<1>9. \A m \in Mechanisms : WantsRerun(m) =>
        /\ seen.calls > 0 /\ stack = Chain(item) /\ Above \subseteq alive
        /\ attempt \in {"first", m} /\ ~metrics[m].tooSlow
        /\ \A n \in Mechanisms \ {m} : ~WantsRerun(n)
  <2> SUFFICES ASSUME NEW m \in Mechanisms, WantsRerun(m)
               PROVE  /\ seen.calls > 0 /\ stack = Chain(item) /\ Above \subseteq alive
                      /\ attempt \in {"first", m} /\ ~metrics[m].tooSlow
                      /\ \A n \in Mechanisms \ {m} : ~WantsRerun(n)
    OBVIOUS
  <2>1. HasExecuted(m) /\ metrics[m].kept /\ metrics[m].count >= 1
    BY DEF WantsRerun, HasExecuted
  <2>2. seen.calls > 0
    <3>1. metrics[m].count = seen.calls
      BY <1>2, <2>1 DEF Counted
    <3>2. seen.calls \in Nat
      BY DEF IInv, TypeOK, HistoryTypes
    <3> QED
      BY <2>1, <3>1, <3>2
  <2>3. stack = Chain(item) /\ Above \subseteq alive
    BY <1>2, <2>2 DEF Stacked
  <2>4. \A n \in Mechanisms \ {m} : ~WantsRerun(n)
    BY <1>2, <1>5, <2>1, OneMechanism DEF WantsRerun, HasExecuted
  <2>5. attempt \in {"first", m}
    BY <1>8, <2>4
  <2>6. ~metrics[m].tooSlow
    BY <1>2, <1>8, <2>5 DEF Counted
  <2> QED
    BY <2>2, <2>3, <2>4, <2>5, <2>6
<1> QED
  BY <1>1, <1>2, <1>3, <1>4, <1>6, <1>7, <1>8, <1>9

\* What every teardown leaves of the attempt, whatever it does to the fixtures.
LEMMA TornDownKeeps ==
  ASSUME IInv, pc = "teardown", NEW o \in {"passed", "failed"}, TornDown(o)
  PROVE  /\ RunningTypes' /\ LogTypes' /\ HistoryTypes' /\ Ahead'
         /\ Unreported' /\ Remembered' /\ Concluding'
         /\ NoFinalizerIsLost' /\ VerdictIsTheContract'
         /\ pc' = "after" /\ item' = item /\ Eligible' = Eligible /\ Above' = Above
         /\ Both' = Both
         /\ seen'.calls = seen.calls
         /\ UNCHANGED <<plan, pos, attempt, failedInitially, rescued, created>>
         /\ Active'
<1>1. /\ reports' = [reports EXCEPT !["teardown"] = o] /\ pc' = "after"
      /\ seen' = [seen EXCEPT !.phaseFailed = @ \/ o = "failed"]
      /\ UNCHANGED <<plan, pos, attempt, held, expired, failedInitially, rescued, created,
                     final, red, hasError>>
  BY DEF TornDown, Reported, retry, logged
<1>2. item' = item /\ Active /\ Active' /\ Eligible' = Eligible /\ AllGate' = AllGate
      /\ Above' = Above /\ Both' = Both
  BY <1>1 DEF item, Active, Eligible, AllGate, Above, Both
<1>3. /\ seen'.calls = seen.calls /\ seen'.first = seen.first /\ seen'.failed = seen.failed
      /\ seen'.passedLater = seen.passedLater /\ seen'.results = seen.results
      /\ seen'.phaseFailed = (seen.phaseFailed \/ o = "failed")
      /\ HistoryTypes'
  BY <1>1 DEF IInv, TypeOK, HistoryTypes
<1>4. \A p \in Phases : reports'[p] = IF p = "teardown" THEN o ELSE reports[p]
  BY <1>1 DEF IInv, TypeOK, RunningTypes
<1>5. Unreported /\ Remembered /\ Concluding
  BY <1>2 DEF IInv, AttemptInv
<1>6. RunningTypes' /\ LogTypes'
  BY <1>1 DEF IInv, TypeOK, RunningTypes, LogTypes, Phases, Outcomes
<1>7. Ahead'
  BY <1>1 DEF IInv, Ahead, ToCome, Active
<1>8. Unreported'
  BY <1>1 DEF Unreported
<1>9. Remembered'
  <2>1. FirstReports'["call"] = FirstReports["call"]
    BY <1>1, <1>4 DEF FirstReports, Phases
  <2> QED
    BY <1>1, <1>2, <1>3, <1>5, <2>1 DEF Remembered
<1>10. Concluding'
  <2>1. /\ reports \in [Phases -> Outcomes \cup {"none"}]
        /\ reports' \in [Phases -> Outcomes \cup {"none"}]
    BY <1>6 DEF IInv, TypeOK, RunningTypes
  <2>2. reports["teardown"] = "none"
    BY <1>5 DEF Unreported
  <2>3. /\ reports'["setup"] = reports["setup"] /\ reports'["call"] = reports["call"]
        /\ reports'["teardown"] = o
    BY <1>4 DEF Phases
  <2>4. Failed(AttemptLog)' <=>
          Failed(AttemptLog) \/ (~(attempt = "first" /\ item \in Eligible) /\ o = "failed")
    BY <1>1, <1>2, <2>1, <2>2, <2>3, FailedLog, FailedLogNext DEF LogFails, PhaseFailed
  <2>5. PhaseFailed(FirstReports)' <=>
          PhaseFailed(FirstReports) \/ (attempt = "first" /\ o = "failed")
    BY <1>1, <2>2, <2>3 DEF PhaseFailed, FirstReports
  <2> QED
    BY <1>1, <1>2, <1>3, <1>5, <2>4, <2>5 DEF Concluding
<1>11. NoFinalizerIsLost' /\ VerdictIsTheContract'
  BY <1>1 DEF NoFinalizerIsLost, VerdictIsTheContract, AtTestEnd
<1> QED
  BY <1>1, <1>2, <1>3, <1>6, <1>7, <1>8, <1>9, <1>10, <1>11

\* What pytest's own teardown leaves of a stack: the next item's collectors stay.
LEMMA TeardownExactKeeps ==
  ASSUME IInv, pc = "teardown", pc' = "after", UNCHANGED <<pos, created>>,
         NEW s \in Seq(Nodes), LevelsOf(s), NEW f, f \subseteq Collectors, f \subseteq Range(s),
         TeardownExact(s, f, NextChain)
  PROVE  /\ stack' = Kept(s, NextChain)
         /\ stack' \in Seq(Nodes) /\ LevelsOf(stack')
         /\ fin' \subseteq Collectors /\ fin' \subseteq Range(stack')
         /\ alive' \subseteq Collectors
         /\ f = alive => alive' = fin'
         /\ Created'
<1> DEFINE k == Kept(s, NextChain)
<1>1. pos \in 1..Len(Order) /\ pos \in 1..(Len(Order) + 1)
  BY AtTeardown, OrderIsFinite
<1>2. NextChain \in Seq(Nodes) /\ Len(NextChain) <= 3
  BY <1>1, NextChainProperties
<1>3. /\ stack' = k /\ fin' = f \cap Range(k) /\ alive' = alive \ (f \ Range(k))
  BY DEF TeardownExact
<1>4. k \in Seq(Nodes)
  BY <1>2, KeptIsASeq
<1>5. LevelsOf(k)
  BY <1>2, LevelsOfKept
<1>6. alive \subseteq Collectors /\ Created
  BY DEF IInv, TypeOK, FixtureTypes, FixtureInv
<1>7. \A c \in Collectors : c \in f /\ c \in Range(NextChain) => c \in Range(k)
  <2> SUFFICES ASSUME NEW c \in Collectors, c \in f, c \in Range(NextChain)
               PROVE  c \in Range(k)
    OBVIOUS
  <2>1. CASE pos < Len(Order)
    <3>1. Order[pos + 1] \in Tests /\ NextChain = Chain(Order[pos + 1])
      BY <1>1, <2>1, NextChainProperties
    <3>2. c \in Range(s) /\ c \in Range(Chain(Order[pos + 1]))
      BY <3>1
    <3>3. c \in Range(Kept(s, Chain(Order[pos + 1])))
      BY <3>1, <3>2, SharedStays
    <3> QED
      BY <3>1, <3>3
  <2>2. CASE ~(pos < Len(Order))
    <3>1. NextChain = <<>>
      BY <2>2 DEF NextChain
    <3> QED
      BY <3>1 DEF Range
  <2> QED
    BY <2>1, <2>2
<1> HIDE DEF k
<1>8. Created'
  <2> SUFFICES ASSUME NEW c \in Collectors
               PROVE  created'[c] <= Visits(c)' /\ (Due(c)' => created'[c] + 1 <= Visits(c)')
    BY DEF Created
  <2>1. Visits(c)' = Visits(c) /\ NextChain' = NextChain
    BY DEF Visits, Under, NextChain
  <2>2. Due(c)' => c \in Range(NextChain) /\ c \notin alive' /\ pos <= Len(Order) /\ Under(c, pos)
    BY <2>1 DEF Due, Under
  <2>3. Due(c)' => Due(c)
    BY <1>3, <1>7, <2>2 DEF Due
  <2> QED
    BY <1>6, <2>1, <2>3 DEF Created
<1> QED
  BY <1>3, <1>4, <1>5, <1>6, <1>8 DEF k

\* A teardown after which the mechanisms' metrics and finalizers are as they should be.
LEMMA TeardownPreserves ==
  ASSUME IInv, pc = "teardown", NEW o \in {"passed", "failed"}, TornDown(o),
         MetricsTypes', NEW s \in Seq(Nodes), LevelsOf(s),
         NEW f, f \subseteq Collectors, f \subseteq Range(s), TeardownExact(s, f, NextChain),
         suspended' \in [Mechanisms -> SUBSET (Collectors \X BOOLEAN)],
         \A m \in Mechanisms : Counted(m)',
         attempt # "first" =>
           /\ WantsRerun(attempt)' /\ seen.calls > 0
           /\ metrics'[attempt].deadline /\ ~metrics'[attempt].tooSlow
           /\ metrics'[attempt].last = metrics[attempt].last,
         \A m \in Mechanisms : WantsRerun(m)' => metrics'[m].deadline,
         \A m \in Mechanisms : suspended'[m] = IF GoesOn(m)' THEN Both ELSE {},
         (\E m \in Mechanisms : GoesOn(m)') => stack' = <<>>,
         Conserved'
  PROVE  IInv'
<1>1. /\ RunningTypes' /\ LogTypes' /\ HistoryTypes' /\ Ahead'
      /\ Unreported' /\ Remembered' /\ Concluding'
      /\ NoFinalizerIsLost' /\ VerdictIsTheContract'
      /\ pc' = "after" /\ Both' = Both /\ seen'.calls = seen.calls
      /\ UNCHANGED <<plan, pos, attempt, failedInitially, rescued, created>> /\ Active'
  BY TornDownKeeps
<1>2. /\ stack' \in Seq(Nodes) /\ LevelsOf(stack')
      /\ fin' \subseteq Collectors /\ fin' \subseteq Range(stack')
      /\ alive' \subseteq Collectors /\ Created'
  BY <1>1, TeardownExactKeeps
<1>3. TypeOK'
  <2>1. FixtureTypes'
    BY <1>1, <1>2 DEF FixtureTypes, Nodes, IInv, TypeOK
  <2> QED
    BY <1>1, <2>1 DEF TypeOK
<1>4. AttemptInv'
  <2>1. Rerunning'
    BY <1>1 DEF Rerunning, WantsRerun, HasExecuted
  <2>2. Suspending' /\ Stacked'
    BY <1>1 DEF Suspending, Stacked
  <2> QED
    BY <1>1, <2>1, <2>2 DEF AttemptInv
<1>5. FixtureInv'
  BY <1>1, <1>2 DEF FixtureInv, Levels
<1>6. Capped'
  <2>1. Capped /\ Active
    BY DEF IInv, Active
  <2> QED
    BY <1>1, <2>1 DEF Capped, WithinTheCap, Active
<1> QED
  BY <1>1, <1>3, <1>4, <1>5, <1>6 DEF IInv

\* No mechanism is to rerun the test.
LEMMA TeardownPlainlyPreserves ==
  ASSUME IInv, TeardownPlainly
  PROVE  IInv'
<1>1. PICK o \in {"passed", "failed"} :
        TornDown(o) /\ metrics' = [m \in Mechanisms |-> Filled(m, "teardown", o)]
  BY DEF TeardownPlainly
<1>2. /\ pc = "teardown" /\ suspended' = suspended /\ TeardownExact(stack, fin, NextChain)
      /\ \A m \in Mechanisms : ~WantsRerun(m)
  BY DEF TeardownPlainly
<1>3. /\ pc' = "after" /\ seen'.calls = seen.calls
      /\ UNCHANGED <<plan, pos, attempt, failedInitially, rescued, created>>
  BY <1>1, <1>2, TornDownKeeps
<1>4. o \in Outcomes /\ MetricsTypes /\ FixtureTypes
  BY DEF Outcomes, IInv, TypeOK
<1>5. /\ stack \in Seq(Nodes) /\ LevelsOf(stack)
      /\ fin \subseteq Range(stack) /\ fin \subseteq Collectors
      /\ attempt = "first" /\ alive = fin
      /\ \A m \in Mechanisms : Counted(m) /\ suspended[m] = {}
  <2>1. attempt = "first"
    BY <1>2, AtTeardown
  <2> QED
    BY <1>2, <2>1, AtTeardown DEF Mechanisms
<1>6. MetricsTypes'
  <2>1. \A m \in Mechanisms : Filled(m, "teardown", o) \in Metrics
    BY <1>4, FilledProperties DEF Phases
  <2> QED
    BY <1>1, <2>1 DEF MetricsTypes, Metrics
<1>7. \A m \in Mechanisms : Counted(m)' /\ ~WantsRerun(m)'
  <2> SUFFICES ASSUME NEW m \in Mechanisms
               PROVE  Counted(m)' /\ ~WantsRerun(m)'
    OBVIOUS
  <2>1. metrics'[m] = Filled(m, "teardown", o)
    BY <1>1
  <2>2. Counted(m)' /\ (HasExecuted(m)' <=> HasExecuted(m))
    BY <1>2, <1>3, <1>4, <1>5, <2>1, NoCallReported
  <2> QED
    BY <1>2, <1>3, <2>2, WantsTheSame
<1>8. \A m \in Mechanisms : suspended'[m] = {} /\ ~GoesOn(m)'
  BY <1>2, <1>5, <1>7 DEF GoesOn
<1>9. Conserved'
  <2>1. alive' = fin'
    BY <1>2, <1>3, <1>5, TeardownExactKeeps
  <2>2. \A m \in Mechanisms : HeldBy(m)' = {}
    BY <1>8 DEF HeldBy
  <2> QED
    BY <2>1, <2>2 DEF Conserved
<1>10. suspended' \in [Mechanisms -> SUBSET (Collectors \X BOOLEAN)]
  BY <1>2, <1>4 DEF FixtureTypes
<1> QED
  BY <1>1, <1>2, <1>5, <1>6, <1>7, <1>8, <1>9, <1>10, TeardownPreserves

\* The first attempt took too long for the test to be rerun.
LEMMA TeardownTooSlowPreserves ==
  ASSUME IInv, NEW m \in Mechanisms, TeardownTooSlow(m)
  PROVE  IInv'
<1>1. PICK o \in {"passed", "failed"} : TornDown(o)
  BY DEF TeardownTooSlow
<1>2. /\ pc = "teardown" /\ suspended' = suspended /\ TeardownExact(stack, fin, NextChain)
      /\ WantsRerun(m) /\ ~metrics[m].deadline
      /\ metrics' = [metrics EXCEPT ![m].deadline = TRUE, ![m].tooSlow = TRUE]
  BY DEF TeardownTooSlow
<1>3. /\ pc' = "after" /\ seen'.calls = seen.calls /\ item' = item /\ Eligible' = Eligible
      /\ UNCHANGED <<plan, pos, attempt, failedInitially, rescued, created>>
  BY <1>1, <1>2, TornDownKeeps
<1>4. MetricsTypes /\ FixtureTypes
  BY DEF IInv, TypeOK
<1>5. /\ stack \in Seq(Nodes) /\ LevelsOf(stack)
      /\ fin \subseteq Range(stack) /\ fin \subseteq Collectors
      /\ attempt = "first" /\ alive = fin
      /\ \A n \in Mechanisms : Counted(n) /\ suspended[n] = {}
      /\ \A n \in Mechanisms \ {m} : ~WantsRerun(n)
  <2>1. attempt = "first"
    BY <1>2, AtTeardown
  <2> QED
    BY <1>2, <2>1, AtTeardown DEF Mechanisms
<1>6. MetricsTypes' /\ metrics'[m] = [metrics[m] EXCEPT !.deadline = TRUE, !.tooSlow = TRUE]
      /\ \A n \in Mechanisms \ {m} : metrics'[n] = metrics[n]
  BY <1>2, <1>4 DEF MetricsTypes
<1>7. /\ metrics'[m].kept = metrics[m].kept /\ metrics'[m].count = metrics[m].count
      /\ metrics'[m].last = metrics[m].last /\ metrics'[m].tooSlow = TRUE
      /\ metrics'[m].deadline = TRUE
  BY <1>4, <1>6 DEF MetricsTypes
<1>8. \A n \in Mechanisms : Counted(n)'
  <2>1. Counted(m)'
    <3>1. metrics[m].kept
      BY <1>2 DEF WantsRerun, HasExecuted
    <3> QED
      BY <1>3, <1>5, <1>7, <3>1 DEF Counted, HasExecuted, Targets
  <2>2. ASSUME NEW n \in Mechanisms \ {m}
        PROVE  Counted(n)'
    BY <1>3, <1>5, <1>6 DEF Counted, HasExecuted, Targets
  <2> QED
    BY <2>1, <2>2
<1>9. \A n \in Mechanisms :
        /\ suspended'[n] = {} /\ ~GoesOn(n)'
        /\ WantsRerun(n)' => metrics'[n].deadline
  <2>1. ASSUME NEW n \in Mechanisms \ {m}
        PROVE  ~WantsRerun(n)'
    BY <1>3, <1>5, <1>6 DEF WantsRerun, HasExecuted, Targets
  <2> QED
    BY <1>2, <1>5, <1>7, <2>1 DEF GoesOn
<1>10. Conserved'
  <2>1. alive' = fin'
    BY <1>2, <1>3, <1>5, TeardownExactKeeps
  <2>2. \A n \in Mechanisms : HeldBy(n)' = {}
    BY <1>9 DEF HeldBy
  <2> QED
    BY <2>1, <2>2 DEF Conserved
<1>11. suspended' \in [Mechanisms -> SUBSET (Collectors \X BOOLEAN)]
  BY <1>2, <1>4 DEF FixtureTypes
<1> QED
  BY <1>1, <1>2, <1>5, <1>6, <1>8, <1>9, <1>10, <1>11, TeardownPreserves

\* What a mechanism that goes on takes off the stack is all of it.
LEMMA SuspendedStack ==
  ASSUME IInv, pc = "teardown", NEW m \in Mechanisms, WantsRerun(m), Suspend(m)
  PROVE  /\ suspended' = [suspended EXCEPT ![m] = Both]
         /\ TeardownExact(<<item>>, {}, NextChain)
         /\ alive = Above
<1>1. /\ pos \in 1..Len(Order) /\ item \in Tests
      /\ fin \subseteq Range(stack) /\ fin \subseteq Collectors
      /\ stack = Chain(item) /\ Above \subseteq alive /\ attempt \in {"first", m}
      /\ alive = fin \cup (IF attempt = "first" THEN {} ELSE Above)
      /\ suspended[m] = IF attempt = m THEN Both ELSE {}
  BY AtTeardown
<1>2. /\ Range(stack) = Above \cup {item} /\ item \notin Above
      /\ item \notin Collectors
  BY <1>1, ChainProperties, RerunAssumption DEF Above
<1>3. fin \subseteq Above
  BY <1>1, <1>2
<1>4. item \in Range(stack) /\ Range(stack) \ {item} = Above
  BY <1>2
<1> DEFINE known == {e[1] : e \in suspended[m]}
           more  == {<<c, c \in fin>> : c \in Above \ known}
<1>5. /\ suspended' = [suspended EXCEPT ![m] = suspended[m] \cup more]
      /\ TeardownExact(<<item>>, {}, NextChain)
  BY <1>4 DEF Suspend
<1>6. suspended[m] \cup more = Both
  <2>1. CASE attempt = m
    <3>1. known = Above
      BY <1>1, <2>1, SuspendedNodes
    <3> HIDE DEF known
    <3>2. more = {}
      BY <3>1
    <3> QED
      BY <1>1, <2>1, <3>2
  <2>2. CASE attempt # m
    <3>1. suspended[m] = {} /\ attempt = "first"
      BY <1>1, <2>2
    <3>2. known = {}
      BY <3>1
    <3> HIDE DEF known
    <3>3. \A c \in Above : (c \in fin) = TRUE
      BY <1>1, <3>1
    <3>4. more = Both
      BY <3>2, <3>3 DEF Both
    <3> QED
      BY <3>1, <3>4
  <2> QED
    BY <2>1, <2>2
<1>7. alive = Above
  BY <1>1, <1>3
<1> QED
  BY <1>5, <1>6, <1>7

\* The attempt is to be followed by another, or was the last of them.
LEMMA TeardownForRerunPreserves ==
  ASSUME IInv, NEW m \in Mechanisms, TeardownForRerun(m)
  PROVE  IInv'
<1>1. PICK o \in {"passed", "failed"} : TornDown(o)
  BY DEF TeardownForRerun
<1>2. /\ pc = "teardown" /\ WantsRerun(m)
      /\ metrics' = [metrics EXCEPT ![m].deadline = TRUE]
      /\ IF RestoresAtTeardown(m) THEN Restore(m, NextChain) ELSE Suspend(m)
  BY DEF TeardownForRerun
<1>3. /\ pc' = "after" /\ seen'.calls = seen.calls /\ item' = item /\ Eligible' = Eligible
      /\ UNCHANGED <<plan, pos, attempt, failedInitially, rescued, created>>
      /\ Remembered' /\ Both' = Both /\ Above' = Above
  BY <1>1, <1>2, TornDownKeeps
<1>4. MetricsTypes /\ FixtureTypes /\ Remembered
  BY <1>2 DEF IInv, TypeOK, AttemptInv, Active
<1>5. /\ pos \in 1..Len(Order) /\ item \in Tests
      /\ stack \in Seq(Nodes) /\ LevelsOf(stack)
      /\ fin \subseteq Range(stack) /\ fin \subseteq Collectors
      /\ stack = Chain(item) /\ Above \subseteq alive /\ ~metrics[m].tooSlow
      /\ seen.calls > 0 /\ attempt \in {"first", m}
      /\ alive = fin \cup (IF attempt = "first" THEN {} ELSE Above)
      /\ \A n \in Mechanisms : Counted(n) /\ suspended[n] = IF attempt = n THEN Both ELSE {}
      /\ \A n \in Mechanisms \ {m} : ~WantsRerun(n)
  BY <1>2, AtTeardown
<1>6. MetricsTypes' /\ metrics'[m] = [metrics[m] EXCEPT !.deadline = TRUE]
      /\ \A n \in Mechanisms \ {m} : metrics'[n] = metrics[n]
  BY <1>2, <1>4 DEF MetricsTypes
<1>7. /\ metrics'[m].kept = metrics[m].kept /\ metrics'[m].count = metrics[m].count
      /\ metrics'[m].last = metrics[m].last /\ metrics'[m].tooSlow = metrics[m].tooSlow
      /\ metrics'[m].deadline = TRUE
  BY <1>4, <1>6 DEF MetricsTypes
<1>8. \A n \in Mechanisms : Counted(n)'
  <2>1. Counted(m)'
    <3>1. metrics[m].kept
      BY <1>2 DEF WantsRerun, HasExecuted
    <3> QED
      BY <1>3, <1>5, <1>7, <3>1 DEF Counted, HasExecuted, Targets
  <2>2. ASSUME NEW n \in Mechanisms \ {m}
        PROVE  Counted(n)'
    BY <1>3, <1>5, <1>6 DEF Counted, HasExecuted, Targets
  <2> QED
    BY <2>1, <2>2
<1>9. \A n \in Mechanisms : WantsRerun(n)' <=> n = m
  <2>1. ASSUME NEW n \in Mechanisms \ {m}
        PROVE  ~WantsRerun(n)'
    BY <1>3, <1>5, <1>6 DEF WantsRerun, HasExecuted, Targets
  <2>2. WantsRerun(m)'
    BY <1>2, <1>3, <1>7 DEF WantsRerun, HasExecuted, Targets
  <2> QED
    BY <2>1, <2>2
<1>10. RestoresAtTeardown(m)' <=> RestoresAtTeardown(m)
  BY <1>3, <1>7 DEF RestoresAtTeardown
<1>11. \A n \in Mechanisms : GoesOn(n)' <=> n = m /\ ~RestoresAtTeardown(m)
  BY <1>5, <1>7, <1>9, <1>10 DEF GoesOn
<1>12. attempt # "first" =>
         /\ WantsRerun(attempt)' /\ seen.calls > 0
         /\ metrics'[attempt].deadline /\ ~metrics'[attempt].tooSlow
         /\ metrics'[attempt].last = metrics[attempt].last
  <2> SUFFICES ASSUME attempt = m
               PROVE  /\ WantsRerun(attempt)' /\ seen.calls > 0
                      /\ metrics'[attempt].deadline /\ ~metrics'[attempt].tooSlow
                      /\ metrics'[attempt].last = metrics[attempt].last
    BY <1>5
  <2>1. WantsRerun(m)'
    BY <1>9
  <2>2. WantsRerun(attempt)'
    BY <1>3, <2>1 DEF WantsRerun, HasExecuted
  <2> QED
    BY <1>5, <1>7, <2>2
<1>13. \A n \in Mechanisms : WantsRerun(n)' => metrics'[n].deadline
  BY <1>7, <1>9
<1>14. CASE ~RestoresAtTeardown(m)
  <2>1. /\ suspended' = [suspended EXCEPT ![m] = Both]
        /\ TeardownExact(<<item>>, {}, NextChain) /\ alive = Above
    BY <1>2, <1>14, SuspendedStack
  <2>3. stack' = <<>> /\ fin' = {} /\ alive' = alive
    <3>1. Kept(<<item>>, NextChain) = <<>>
      BY <1>5, OrderIsFinite, KeptOfATest
    <3> QED
      BY <2>1, <3>1 DEF TeardownExact
  <2>4. suspended' \in [Mechanisms -> SUBSET (Collectors \X BOOLEAN)]
    <3>1. Both \in SUBSET (Collectors \X BOOLEAN)
      <4>1. Above \subseteq Collectors
        BY <1>5, ChainProperties DEF Above, Collectors
      <4>2. \A c \in Above : <<c, TRUE>> \in Collectors \X BOOLEAN
        BY <4>1
      <4>3. \A e \in Both : e \in Collectors \X BOOLEAN
        BY <4>2, Zenon DEF Both
      <4> QED
        BY <4>3
    <3> QED
      BY <1>4, <2>1, <3>1 DEF FixtureTypes
  <2>5. \A n \in Mechanisms : suspended'[n] = IF GoesOn(n)' THEN Both ELSE {}
    <3>1. \A n \in Mechanisms : suspended'[n] = IF n = m THEN Both ELSE suspended[n]
      BY <1>4, <2>1 DEF FixtureTypes
    <3> QED
      BY <1>5, <1>11, <1>14, <3>1 DEF Mechanisms
  <2>6. Conserved'
    <3>1. \A n \in Mechanisms : suspended'[n] = IF n = m THEN Both ELSE {}
      BY <1>11, <1>14, <2>5
    <3>2. \A n \in Mechanisms : HeldBy(n)' = IF n = m THEN Above ELSE {}
      <4>1. HeldBy(m)' = Above
        <5>1. HeldBy(m)' = {e[1] : e \in {x \in Both : x[2]}}
          BY <3>1 DEF HeldBy
        <5> QED
          BY <5>1, NodesOfBoth
      <4>2. ASSUME NEW n \in Mechanisms \ {m}
            PROVE  HeldBy(n)' = {}
        BY <3>1 DEF HeldBy
      <4> QED
        BY <4>1, <4>2
    <3> QED
      BY <2>1, <2>3, <3>2 DEF Conserved
  <2>7. TeardownExact(<<>>, {}, NextChain) /\ LevelsOf(<<>>)
    <3>1. Kept(<<>>, NextChain) = <<>>
      BY <1>5, OrderIsFinite, KeptFromNothing
    <3>2. Range(<<>>) = {}
      BY DEF Range
    <3> QED
      BY <2>3, <3>1, <3>2 DEF TeardownExact, LevelsOf
  <2>8. <<>> \in Seq(Nodes) /\ {} \subseteq Collectors /\ {} \subseteq Range(<<>>)
    OBVIOUS
  <2> QED
    BY <1>1, <1>2, <1>6, <1>8, <1>12, <1>13, <2>3, <2>4, <2>5, <2>6, <2>7, <2>8, TeardownPreserves
<1>15. CASE RestoresAtTeardown(m)
  <2>1. attempt = m
    <3>1. CASE attempt = "first"
      <4>1. ~metrics[m].last
        BY <1>5, <3>1 DEF Counted
      <4>2. item \notin rescued
        BY <1>4, <3>1 DEF Remembered
      <4> QED
        BY <1>15, <4>1, <4>2 DEF RestoresAtTeardown
    <3> QED
      BY <1>5, <3>1
  <2>2. suspended[m] = Both /\ alive = fin \cup Above
    BY <1>5, <2>1 DEF Mechanisms
  <2>3. RestoredStack(m) = stack /\ RestoredFin(m) = alive
    BY <1>5, <2>2, RestoredToItsChain, RestoredFinalizers
  <2>4. suspended' = [suspended EXCEPT ![m] = {}] /\ TeardownExact(stack, alive, NextChain)
    BY <1>2, <1>15, <2>3 DEF Restore
  <2>5. Above \subseteq Collectors /\ Above \subseteq Range(stack)
    BY <1>5, ChainProperties DEF Above, Collectors
  <2>6. alive \subseteq Collectors /\ alive \subseteq Range(stack)
    BY <1>5, <2>2, <2>5
  <2>7. \A n \in Mechanisms : suspended'[n] = {} /\ ~GoesOn(n)'
    BY <1>4, <1>5, <1>11, <1>15, <2>1, <2>4 DEF FixtureTypes
  <2>8. suspended' \in [Mechanisms -> SUBSET (Collectors \X BOOLEAN)]
    BY <1>4, <2>4 DEF FixtureTypes
  <2>9. Conserved'
    <3>1. alive' = fin'
      BY <1>2, <1>3, <1>5, <2>4, <2>6, TeardownExactKeeps
    <3>2. \A n \in Mechanisms : HeldBy(n)' = {}
      BY <2>7 DEF HeldBy
    <3> QED
      BY <3>1, <3>2 DEF Conserved
  <2> QED
    BY <1>1, <1>2, <1>5, <1>6, <1>8, <1>12, <1>13, <2>4, <2>6, <2>7, <2>8, <2>9, TeardownPreserves
<1> QED
  BY <1>14, <1>15

-----------------------------------------------------------------------------
(***************************************************************************)
(* After an attempt: another one, or the end of the test.                  *)
(***************************************************************************)

\* The test's result is logged once, with its first attempt or when that one is let go,
\* unless every attempt gates.
LEMMA ResultsOfAttempt ==
  ASSUME reports \in [Phases -> Outcomes \cup {"none"}],
         attempt \in {"first", "detector", "retrier"}
  PROVE  Results(AttemptLog) =
           IF /\ reports["call"] # "none"
              /\ \/ attempt = "first" /\ item \notin Eligible
                 \/ attempt = "detector" /\ plan.mode = "new"
             THEN 1 ELSE 0
<1>1. AttemptLog["call"] = LoggedAs("call") /\ reports["call"] \in Outcomes \cup {"none"}
  BY DEF AttemptLog, Phases
<1> QED
  BY <1>1 DEF Results, LoggedAs, Outcomes

LEMMA HeldLogOutcomes ==
  ASSUME NEW reps \in [Phases -> Outcomes \cup {"none"}]
  PROVE  /\ Results(HeldLog(reps)) = IF reps["call"] # "none" THEN 1 ELSE 0
         /\ Failed(HeldLog(reps)) <=>
              PhaseFailed(reps) \/ (reps["call"] = "failed" /\ item \notin rescued)
<1>1. \A p \in Phases :
        HeldLog(reps)[p] = IF p = "call" /\ item \in rescued /\ reps[p] = "failed"
                             THEN "passed" ELSE reps[p]
  BY DEF HeldLog
<1>2. Phases = {"setup", "call", "teardown"} /\ reps["call"] \in Outcomes \cup {"none"}
  BY DEF Phases
<1> QED
  BY <1>1, <1>2 DEF Results, Failed, PhaseFailed, Outcomes

LEMMA NothingLogged == Results(NotRun) = 0 /\ ~Failed(NotRun) /\ NotRun \in [Phases -> Loggable]
BY DEF Results, Failed, NotRun, Phases, Outcomes, Loggable

\* What holds when an attempt is over.
LEMMA AtTheEnd ==
  ASSUME IInv, pc = "after"
  PROVE  /\ pos \in 1..Len(Order) /\ item \in Tests
         /\ stack \in Seq(Nodes) /\ LevelsOf(stack)
         /\ fin \subseteq Range(stack) /\ fin \subseteq Collectors
         /\ seen.calls \in Nat /\ seen.results \in Nat
         /\ reports \in [Phases -> Outcomes \cup {"none"}]
         /\ held \in [Phases -> Outcomes \cup {"none"}]
         /\ attempt \in {"first", "detector", "retrier"}
         /\ \A m \in Mechanisms : Counted(m)
         /\ \A m \in Mechanisms : suspended[m] = IF GoesOn(m) THEN Both ELSE {}
         /\ (\E m \in Mechanisms : GoesOn(m)) => stack = <<>>
         /\ attempt # "first" => seen.calls > 0 /\ WantsRerun(attempt)
         /\ \A m \in Mechanisms : WantsRerun(m) =>
              /\ seen.calls = metrics[m].count /\ seen.calls > 0
              /\ attempt \in {"first", m} /\ metrics[m].deadline
              /\ \A n \in Mechanisms \ {m} : ~WantsRerun(n)
         /\ Conserved /\ Remembered /\ Concluding
         /\ seen.calls > 0 <=> FirstReports["call"] # "none"
         /\ attempt = "detector" => item \in plan.detected
         /\ attempt = "retrier" => item \in Eligible /\ item \notin plan.detected
<1>1. pos \in 1..Len(Order) /\ item \in Tests
  BY InHand DEF IInv, Active
<1>2. /\ \A m \in Mechanisms : Counted(m)
      /\ Rerunning /\ Suspending /\ Stacked /\ Remembered /\ Concluding
  BY DEF IInv, AttemptInv, Active
<1>3. Conserved /\ LevelsOf(stack)
  BY DEF IInv, FixtureInv, Levels
<1>4. /\ stack \in Seq(Nodes) /\ fin \subseteq Range(stack) /\ fin \subseteq Collectors
      /\ seen.calls \in Nat /\ seen.results \in Nat
      /\ reports \in [Phases -> Outcomes \cup {"none"}]
      /\ held \in [Phases -> Outcomes \cup {"none"}]
  BY DEF IInv, TypeOK, FixtureTypes, Nodes, HistoryTypes, RunningTypes
<1>5. attempt \in {"first", "detector", "retrier"} /\ Mechanisms = {"detector", "retrier"}
  BY DEF IInv, TypeOK, RunningTypes, Mechanisms
<1>6. \A m \in Mechanisms : suspended[m] = IF GoesOn(m) THEN Both ELSE {}
  BY <1>2 DEF Suspending
<1>7. (\E m \in Mechanisms : GoesOn(m)) => stack = <<>>
  BY <1>2 DEF Stacked
<1>8. /\ attempt # "first" => seen.calls > 0 /\ WantsRerun(attempt)
      /\ \A m \in Mechanisms : WantsRerun(m) => metrics[m].deadline
  BY <1>2 DEF Rerunning
<1>9. \A m \in Mechanisms : WantsRerun(m) =>
        /\ seen.calls = metrics[m].count /\ seen.calls > 0 /\ attempt \in {"first", m}
        /\ \A n \in Mechanisms \ {m} : ~WantsRerun(n)
  <2> SUFFICES ASSUME NEW m \in Mechanisms, WantsRerun(m)
               PROVE  /\ seen.calls = metrics[m].count /\ seen.calls > 0 /\ attempt \in {"first", m}
                      /\ \A n \in Mechanisms \ {m} : ~WantsRerun(n)
    OBVIOUS
  <2>1. HasExecuted(m) /\ metrics[m].kept /\ metrics[m].count >= 1
    BY DEF WantsRerun, HasExecuted
  <2>2. seen.calls = metrics[m].count
    BY <1>2, <2>1 DEF Counted
  <2>3. \A n \in Mechanisms \ {m} : ~WantsRerun(n)
    BY <1>2, <1>5, <2>1, OneMechanism DEF WantsRerun, HasExecuted
  <2>4. attempt \in {"first", m}
    BY <1>5, <1>8, <2>3
  <2> QED
    BY <1>4, <2>1, <2>2, <2>3, <2>4
<1>10. seen.calls > 0 <=> FirstReports["call"] # "none"
  <2>1. "none" \notin Outcomes
    BY DEF Outcomes
  <2> QED
    BY <1>2, <1>4, <2>1 DEF Remembered
<1>11. /\ attempt = "detector" => item \in plan.detected
       /\ attempt = "retrier" => item \in Eligible /\ item \notin plan.detected
  <2>1. attempt # "first" => attempt \in Mechanisms /\ metrics[attempt].kept
    BY <1>5, <1>8 DEF WantsRerun, HasExecuted
  <2> QED
    BY <1>2, <1>5, <2>1, OneMechanism
<1> QED
  BY <1>1, <1>2, <1>3, <1>4, <1>5, <1>6, <1>7, <1>8, <1>9, <1>10, <1>11

\* What the verdict makes of the attempt's reports, and then of those held back.
LEMMA AttemptIsLogged ==
  ASSUME IInv, pc = "after"
  PROVE  /\ Folded(final, AttemptLog) \in [Tests -> Status]
         /\ \A t \in Tests \ {item} : Folded(final, AttemptLog)[t] = final[t]
         /\ Folded(final, AttemptLog)[item] = "failed" <=>
              final[item] = "failed" \/ Failed(AttemptLog)
<1>1. reports \in [Phases -> Outcomes \cup {"none"}] /\ item \in Tests
  BY AtTheEnd
<1>2. AttemptLog \in [Phases -> Loggable] /\ final \in [Tests -> Status]
  BY <1>1, AttemptLogIsLoggable DEF IInv, TypeOK, LogTypes
<1> QED
  BY <1>1, <1>2, FoldOfAttempt

Later == IF item \in Eligible THEN HeldLog(FirstReports) ELSE NotRun

LEMMA LaterOutcomes ==
  ASSUME IInv, pc = "after"
  PROVE  /\ Later \in [Phases -> Loggable]
         /\ Results(Later) = IF item \in Eligible /\ seen.calls > 0 THEN 1 ELSE 0
         /\ Failed(Later) <=>
              /\ item \in Eligible
              /\ PhaseFailed(FirstReports) \/ (seen.first = "failed" /\ ~seen.passedLater)
<1>1. /\ reports \in [Phases -> Outcomes \cup {"none"}]
      /\ held \in [Phases -> Outcomes \cup {"none"}]
      /\ Remembered /\ (seen.calls > 0 <=> FirstReports["call"] # "none")
  BY AtTheEnd
<1>2. FirstReports \in [Phases -> Outcomes \cup {"none"}]
  BY <1>1 DEF FirstReports
<1>3. /\ Later \in [Phases -> Loggable]
      /\ Results(Later) = IF item \in Eligible /\ FirstReports["call"] # "none" THEN 1 ELSE 0
      /\ Failed(Later) <=>
           /\ item \in Eligible
           /\ PhaseFailed(FirstReports) \/ (FirstReports["call"] = "failed" /\ item \notin rescued)
  BY <1>2, HeldLogIsLoggable, HeldLogOutcomes, NothingLogged DEF Later
<1> QED
  BY <1>1, <1>3 DEF Remembered

LEMMA TestIsLogged ==
  ASSUME IInv, pc = "after"
  PROVE  /\ Folded(Folded(final, AttemptLog), Later) \in [Tests -> Status]
         /\ \A t \in Tests \ {item} : Folded(Folded(final, AttemptLog), Later)[t] = final[t]
         /\ Folded(Folded(final, AttemptLog), Later)[item] = "failed" <=>
              final[item] = "failed" \/ Failed(AttemptLog) \/ Failed(Later)
<1> DEFINE half == Folded(final, AttemptLog)
<1>1. /\ half \in [Tests -> Status]
      /\ \A t \in Tests \ {item} : half[t] = final[t]
      /\ half[item] = "failed" <=> final[item] = "failed" \/ Failed(AttemptLog)
  BY AttemptIsLogged
<1>2. Later \in [Phases -> Loggable] /\ item \in Tests
  BY LaterOutcomes, AtTheEnd
<1> HIDE DEF half
<1>3. /\ Folded(half, Later) \in [Tests -> Status]
      /\ \A t \in Tests \ {item} : Folded(half, Later)[t] = half[t]
      /\ Folded(half, Later)[item] = "failed" <=> half[item] = "failed" \/ Failed(Later)
  BY <1>1, <1>2, FoldOfAttempt
<1> QED
  BY <1>1, <1>3 DEF half

\* Whoever asks for another attempt holds the item's finalizers.
LEMMA RerunGoesOn ==
  ASSUME IInv, pc = "after", NEW m \in Mechanisms,
         IF m = "detector" THEN WantsDetection ELSE WantsRetry
  PROVE  WantsRerun(m) /\ ~metrics[m].tooSlow /\ ~metrics[m].last /\ GoesOn(m)
<1>1. /\ attempt \in {"first", "detector", "retrier"} /\ Remembered
      /\ \A n \in Mechanisms : WantsRerun(n) => attempt \in {"first", n}
  BY AtTheEnd
<1>2. CASE m = "detector"
  BY <1>2 DEF WantsDetection, WantsRerun, GoesOn, RestoresAtTeardown
<1>3. CASE m = "retrier"
  <2>1. WantsRerun(m) /\ ~metrics[m].tooSlow /\ ~metrics[m].last
    BY <1>3 DEF WantsRetry
  <2>2. attempt = "retrier" => item \notin rescued
    BY <1>3 DEF WantsRetry
  <2>3. attempt = "first" => item \notin rescued
    BY <1>1 DEF Remembered
  <2> QED
    BY <1>1, <1>3, <2>1, <2>2, <2>3 DEF GoesOn, RestoresAtTeardown
<1> QED
  BY <1>2, <1>3 DEF Mechanisms

\* An attempt is logged and the next one begins.
LEMMA RerunPreserves ==
  ASSUME IInv, NEW m \in Mechanisms, Rerun(m)
  PROVE  IInv'
<1>1. /\ pc = "after" /\ pc' = "setup" /\ attempt' = m /\ reports' = NotRun
      /\ IF m = "detector" THEN WantsDetection ELSE WantsRetry
      /\ metrics' = [metrics EXCEPT ![m].last = ReachedLimit(m)]
      /\ held' = IF attempt = "first" THEN reports ELSE held
      /\ final' = Folded(final, AttemptLog)
      /\ red' = (red \/ Failed(AttemptLog))
      /\ seen' = [seen EXCEPT !.results = @ + Results(AttemptLog)]
      /\ UNCHANGED <<plan, pos, expired, failedInitially, rescued, stack, fin, suspended, alive,
                     created, hasError>>
  BY DEF Rerun, retry, fixtures
<1>2. /\ item' = item /\ Active /\ Active' /\ Eligible' = Eligible /\ AllGate' = AllGate
      /\ Both' = Both /\ Above' = Above /\ Targets' = Targets
  BY <1>1 DEF item, Active, Eligible, AllGate, Both, Above, Targets
<1>3. /\ pos \in 1..Len(Order) /\ item \in Tests
      /\ seen.calls \in Nat /\ seen.results \in Nat
      /\ reports \in [Phases -> Outcomes \cup {"none"}]
      /\ held \in [Phases -> Outcomes \cup {"none"}]
      /\ attempt \in {"first", "detector", "retrier"}
      /\ \A n \in Mechanisms : Counted(n)
      /\ \A n \in Mechanisms : suspended[n] = IF GoesOn(n) THEN Both ELSE {}
      /\ (\E n \in Mechanisms : GoesOn(n)) => stack = <<>>
      /\ attempt # "first" => seen.calls > 0 /\ WantsRerun(attempt)
      /\ Conserved /\ Remembered /\ Concluding
      /\ seen.calls > 0 <=> FirstReports["call"] # "none"
      /\ attempt = "detector" => item \in plan.detected
      /\ attempt = "retrier" => item \in Eligible /\ item \notin plan.detected
  BY <1>1, AtTheEnd
<1>4. WantsRerun(m) /\ ~metrics[m].tooSlow /\ ~metrics[m].last /\ GoesOn(m)
  BY <1>1, RerunGoesOn
<1>5. /\ seen.calls = metrics[m].count /\ seen.calls > 0
      /\ attempt \in {"first", m} /\ metrics[m].deadline
      /\ \A n \in Mechanisms \ {m} : ~WantsRerun(n)
  BY <1>1, <1>4, AtTheEnd
<1>6. MetricsTypes /\ MetricsTypes' /\ metrics'[m] = [metrics[m] EXCEPT !.last = ReachedLimit(m)]
      /\ \A n \in Mechanisms \ {m} : metrics'[n] = metrics[n]
  <2>1. MetricsTypes
    BY DEF IInv, TypeOK
  <2>2. ReachedLimit(m) \in BOOLEAN
    BY <2>1, <1>1 DEF ReachedLimit, IInv, TypeOK, RunningTypes
  <2> QED
    BY <1>1, <2>1, <2>2 DEF MetricsTypes
<1>7. /\ metrics'[m].kept = metrics[m].kept /\ metrics'[m].count = metrics[m].count
      /\ metrics'[m].tooSlow = metrics[m].tooSlow /\ metrics'[m].deadline = metrics[m].deadline
      /\ metrics'[m].last = ReachedLimit(m)
  BY <1>6 DEF MetricsTypes
<1>8. /\ seen'.calls = seen.calls /\ seen'.first = seen.first /\ seen'.failed = seen.failed
      /\ seen'.passedLater = seen.passedLater /\ seen'.phaseFailed = seen.phaseFailed
      /\ seen'.results = seen.results + Results(AttemptLog)
      /\ HistoryTypes'
  <2>1. Results(AttemptLog) \in Nat
    BY DEF Results
  <2>2. seen.results + Results(AttemptLog) \in Nat
    BY <1>3, <2>1
  <2> QED
    BY <1>1, <2>2 DEF IInv, TypeOK, HistoryTypes
<1>9. /\ final' \in [Tests -> Status]
      /\ \A t \in Tests \ {item} : final'[t] = final[t]
      /\ final'[item] = "failed" <=> final[item] = "failed" \/ Failed(AttemptLog)
  BY <1>1, AttemptIsLogged
<1>10. FirstReports' = FirstReports
  BY <1>1 DEF FirstReports, Mechanisms
<1>t. TypeOK'
  <2>1. RunningTypes'
    BY <1>1, <1>3 DEF IInv, TypeOK, RunningTypes, NotRun
  <2>2. FixtureTypes'
    BY <1>1 DEF IInv, TypeOK, FixtureTypes
  <2>3. LogTypes'
    BY <1>1, <1>9 DEF IInv, TypeOK, LogTypes, Failed
  <2> QED
    BY <1>6, <1>8, <2>1, <2>2, <2>3 DEF TypeOK
<1>a. Ahead'
  <2> SUFFICES ASSUME NEW i \in DOMAIN Order, ToCome(i)'
               PROVE  final'[Order[i]] = "none" /\ Order[i] \notin failedInitially'
    BY <1>1, <1>3 DEF Ahead
  <2>1. i > pos /\ ToCome(i)
    BY <1>1 DEF ToCome
  <2>2. Order[i] # item /\ Order[i] \in Tests
    BY <1>3, <2>1, OrderIsFinite, RerunAssumption, ElementOfSeq DEF item, IsInjective
  <2> QED
    BY <1>1, <1>9, <2>1, <2>2 DEF IInv, Ahead
<1>b. AttemptInv'
  <2>1. \A n \in Mechanisms : Counted(n)'
    <3>1. Counted(m)'
      BY <1>1, <1>2, <1>3, <1>4, <1>7, <1>8 DEF Counted, HasExecuted, WantsRerun, Mechanisms
    <3>2. ASSUME NEW n \in Mechanisms \ {m}
          PROVE  Counted(n)'
      BY <1>1, <1>2, <1>3, <1>6, <1>8 DEF Counted, HasExecuted, Mechanisms
    <3> QED
      BY <3>1, <3>2
  <2>2. Rerunning'
    BY <1>1, <1>2, <1>4, <1>5, <1>7, <1>8 DEF Rerunning, WantsRerun, HasExecuted, Mechanisms
  <2>3. Suspending'
    <3>1. \A n \in Mechanisms : GoesOn(n) <=> n = m
      BY <1>4, <1>5 DEF GoesOn
    <3> QED
      BY <1>1, <1>2, <1>3, <3>1 DEF Suspending
  <2>4. Stacked'
    BY <1>1, <1>3, <1>4 DEF Stacked
  <2>5. Unreported'
    BY <1>1 DEF Unreported, NotRun, Phases
  <2>6. Remembered'
    BY <1>1, <1>2, <1>3, <1>8, <1>10 DEF Remembered, Mechanisms
  <2>7. Concluding'
    <3>1. ~Failed(AttemptLog)'
      <4>1. \A p \in Phases : reports'[p] = "none"
        BY <1>1 DEF NotRun
      <4> QED
        BY <1>t, <4>1, FailedLogNext DEF LogFails, PhaseFailed, Phases, TypeOK, RunningTypes
    <3>2. PhaseFailed(FirstReports)' = PhaseFailed(FirstReports)
      BY <1>10 DEF PhaseFailed
    <3>3. ~AllGate => seen'.results = IF item \notin Eligible THEN 1 ELSE 0
      <4> SUFFICES ASSUME ~AllGate
                   PROVE  seen'.results = IF item \notin Eligible THEN 1 ELSE 0
        OBVIOUS
      <4>1. /\ seen.results = IF item \notin Eligible /\ attempt # "first" THEN 1 ELSE 0
            /\ attempt = "detector" => plan.mode # "new"
        BY <1>3 DEF Concluding, AllGate
      <4>2. attempt = "first" => reports["call"] # "none"
        BY <1>3, <1>5 DEF FirstReports
      <4>3. Results(AttemptLog) = IF attempt = "first" /\ item \notin Eligible THEN 1 ELSE 0
        BY <1>3, <4>1, <4>2, ResultsOfAttempt
      <4> QED
        BY <1>3, <1>8, <4>1, <4>3
    <3>4. attempt' # "first"
      BY <1>1 DEF Mechanisms
    <3> QED
      BY <1>1, <1>2, <1>3, <1>8, <1>9, <3>1, <3>2, <3>3, <3>4 DEF Concluding
  <2> QED
    BY <2>1, <2>2, <2>3, <2>4, <2>5, <2>6, <2>7 DEF AttemptInv
<1>c. FixtureInv'
  <2>1. Conserved' /\ Levels'
    BY <1>1 DEF IInv, FixtureInv, Conserved, HeldBy, Levels, LevelsOf
  <2>2. Above \subseteq alive
    BY <1>3, <1>4, SuspendedNodes DEF Conserved
  <2>3. Created'
    <3> SUFFICES ASSUME NEW c \in Collectors
                 PROVE  created'[c] <= Visits(c)' /\ ~Due(c)'
      BY DEF Created
    <3>1. Visits(c)' = Visits(c)
      BY <1>1 DEF Visits, Under
    <3>2. created[c] <= Visits(c)
      BY DEF IInv, FixtureInv, Created
    <3>3. Under(c, pos) => c \in Above
      <4>1. c # item
        BY <1>3, RerunAssumption
      <4>2. Range(Chain(item)) = {Session, ModuleOf[item], item}
        BY <1>3, ChainProperties
      <4> QED
        BY <4>1, <4>2 DEF Under, Above, item
    <3>4. Due(c)' => Under(c, pos) /\ c \notin alive
      BY <1>1 DEF Due, Under
    <3> QED
      BY <1>1, <2>2, <3>1, <3>2, <3>3, <3>4
  <2> QED
    BY <1>1, <2>1, <2>3 DEF FixtureInv
<1>d. Capped'
  <2>1. seen.calls \in Nat /\ MaxExecutions \in Nat
    BY <1>3, RerunAssumption
  <2>2. seen.calls + 1 <= (IF MaxExecutions > 2 THEN MaxExecutions ELSE 2)
    <3>1. CASE attempt = "first"
      BY <1>2, <2>1, <3>1 DEF IInv, Capped
    <3>2. CASE attempt # "first"
      <4>1. seen.calls + 1 <= MaxExecutions
        BY <1>1, <1>2, <1>4, <1>5, <3>2 DEF IInv, Capped
      <4> QED
        BY <2>1, <4>1
    <3> QED
      BY <3>1, <3>2
  <2>3. ~metrics'[m].last => seen.calls + 2 <= MaxExecutions
    BY <1>5, <1>7, <2>1 DEF ReachedLimit
  <2> QED
    BY <1>1, <1>2, <1>8, <2>2, <2>3 DEF IInv, Capped, WithinTheCap, Mechanisms
<1>e. NoFinalizerIsLost' /\ VerdictIsTheContract'
  BY <1>1 DEF NoFinalizerIsLost, VerdictIsTheContract, AtTestEnd
<1> QED
  BY <1>t, <1>a, <1>b, <1>c, <1>d, <1>e DEF IInv

\* When no mechanism asks for another attempt, none goes on: but for a retry that never
\* reached its call, whose finalizers are put back now.
LEMMA NobodyGoesOn ==
  ASSUME IInv, pc = "after", ~WantsDetection, ~WantsRetry
  PROVE  /\ ~GoesOn("detector")
         /\ GoesOn("retrier") => attempt = "retrier" /\ reports["call"] = "none"
<1>1. /\ attempt \in {"first", "detector", "retrier"}
      /\ \A n \in Mechanisms : WantsRerun(n) => attempt \in {"first", n}
  BY AtTheEnd
<1>2. ~GoesOn("detector")
  BY <1>1 DEF GoesOn, WantsDetection, RestoresAtTeardown, WantsRerun, Mechanisms
<1>3. GoesOn("retrier") => attempt = "retrier" /\ reports["call"] = "none"
  BY DEF GoesOn, WantsRetry, RestoresAtTeardown
<1> QED
  BY <1>2, <1>3

\* What the end of a test leaves of the fixtures.
LEMMA FinishedFixtures ==
  ASSUME IInv, pc = "after", ~WantsDetection, ~WantsRetry,
         IF attempt = "retrier" /\ reports["call"] = "none" THEN PutBack ELSE UNCHANGED fixtures
  PROVE  /\ FixtureTypes' /\ Conserved' /\ Levels'
         /\ \A m \in Mechanisms : suspended'[m] = {}
         /\ UNCHANGED <<alive, created>>
<1>1. /\ pos \in 1..Len(Order) /\ item \in Tests
      /\ stack \in Seq(Nodes) /\ LevelsOf(stack)
      /\ \A m \in Mechanisms : suspended[m] = IF GoesOn(m) THEN Both ELSE {}
      /\ (\E m \in Mechanisms : GoesOn(m)) => stack = <<>>
      /\ fin \subseteq Range(stack) /\ Conserved
  BY AtTheEnd
<1>2. FixtureTypes
  BY DEF IInv, TypeOK
<1>3. Mechanisms = {"detector", "retrier"} /\ suspended["detector"] = {}
  BY <1>1, NobodyGoesOn DEF Mechanisms
<1>4. CASE attempt = "retrier" /\ reports["call"] = "none"
  <2>1. /\ suspended' = [suspended EXCEPT !["retrier"] = {}]
        /\ stack' = RestoredStack("retrier") /\ fin' = RestoredFin("retrier")
        /\ UNCHANGED <<alive, created>>
    BY <1>4 DEF PutBack
  <2>2. /\ \A m \in Mechanisms : suspended'[m] = {}
        /\ suspended' \in [Mechanisms -> SUBSET (Collectors \X BOOLEAN)]
    BY <1>2, <1>3, <2>1 DEF FixtureTypes
  <2>3. \A m \in Mechanisms : HeldBy(m)' = {}
    BY <2>2 DEF HeldBy
  <2>4. HeldBy("detector") = {}
    BY <1>3 DEF HeldBy
  <2>5. CASE GoesOn("retrier")
    <3>1. suspended["retrier"] = Both /\ stack = <<>>
      BY <1>1, <1>3, <2>5
    <3>2. HeldBy("retrier") = Above
      BY <1>3, <3>1, SuspendedNodes
    <3>3. fin = {} /\ alive = Above
      <4>1. Range(stack) = {}
        BY <3>1 DEF Range
      <4> QED
        BY <1>1, <1>3, <2>4, <3>2, <4>1 DEF Conserved
    <3>4. stack' = <<Session, ModuleOf[item]>> /\ fin' = Above
      BY <1>1, <1>3, <2>1, <3>1, <3>3, RestoredToNothing, RestoredFinalizers
    <3>5. /\ Session \in Collectors /\ ModuleOf[item] \in Collectors
          /\ ModuleOf[item] \in Modules
      BY <1>1, ChainProperties DEF Collectors
    <3>6. /\ stack' \in Seq(Collectors \cup Tests) /\ LevelsOf(stack')
          /\ Range(stack') = Above
      <4>1. stack' \in Seq(Collectors \cup Tests) /\ LevelsOf(stack')
        BY <3>4, <3>5 DEF LevelsOf
      <4>2. Range(<<Session, ModuleOf[item]>>) = {Session, ModuleOf[item]}
        BY DEF Range
      <4> QED
        BY <3>4, <4>1, <4>2 DEF Above
    <3>7. Conserved'
      BY <2>1, <2>3, <3>3, <3>4 DEF Conserved
    <3>8. fin' \subseteq Collectors /\ fin' \subseteq Range(stack')
      BY <3>4, <3>5, <3>6 DEF Above
    <3> QED
      BY <1>2, <2>1, <2>2, <3>6, <3>7, <3>8 DEF FixtureTypes, Levels
  <2>6. CASE ~GoesOn("retrier")
    <3>1. suspended["retrier"] = {} /\ HeldBy("retrier") = {}
      BY <1>1, <1>3, <2>6 DEF HeldBy
    <3>2. stack' = stack /\ fin' = fin
      BY <1>1, <1>3, <2>1, <3>1, RestoredNothing
    <3>3. Conserved'
      BY <1>1, <1>3, <2>1, <2>3, <2>4, <3>1, <3>2 DEF Conserved
    <3> QED
      BY <1>1, <1>2, <2>1, <2>2, <3>2, <3>3 DEF FixtureTypes, Levels
  <2> QED
    BY <2>5, <2>6
<1>5. CASE ~(attempt = "retrier" /\ reports["call"] = "none")
  <2>1. UNCHANGED <<stack, fin, suspended, alive, created>>
    BY <1>5 DEF fixtures
  <2>2. \A m \in Mechanisms : suspended[m] = {}
    BY <1>1, <1>3, <1>5, NobodyGoesOn
  <2> QED
    BY <1>1, <1>2, <2>1, <2>2 DEF FixtureTypes, Conserved, HeldBy, Levels
<1> QED
  BY <1>4, <1>5

\* The test is over: what was held back of it is let go.
LEMMA FinishTestPreserves ==
  ASSUME IInv, FinishTest
  PROVE  IInv'
<1>1. /\ pc = "after" /\ pc' = "idle" /\ pos' = pos + 1 /\ ~WantsDetection /\ ~WantsRetry
      /\ IF attempt = "retrier" /\ reports["call"] = "none" THEN PutBack ELSE UNCHANGED fixtures
      /\ final' = Folded(Folded(final, AttemptLog), Later)
      /\ red' = (red \/ Failed(AttemptLog) \/ Failed(Later))
      /\ seen' = [seen EXCEPT !.results = @ + Results(AttemptLog) + Results(Later)]
      /\ hasError' = (hasError \/ (item \in Eligible /\ item \notin rescued /\ seen.failed))
      /\ UNCHANGED <<plan, attempt, reports, held, metrics, expired, failedInitially, rescued>>
  BY DEF FinishTest, FirstReports, Later, loop, retry
<1>2. /\ FixtureTypes' /\ Conserved' /\ Levels'
      /\ \A m \in Mechanisms : suspended'[m] = {}
      /\ UNCHANGED <<alive, created>>
  BY <1>1, FinishedFixtures
<1>3. /\ pos \in 1..Len(Order) /\ item \in Tests
      /\ seen.calls \in Nat /\ seen.results \in Nat
      /\ reports \in [Phases -> Outcomes \cup {"none"}]
      /\ held \in [Phases -> Outcomes \cup {"none"}]
      /\ attempt \in {"first", "detector", "retrier"}
      /\ attempt # "first" => seen.calls > 0
      /\ Remembered /\ Concluding
      /\ seen.calls > 0 <=> FirstReports["call"] # "none"
      /\ attempt = "detector" => item \in plan.detected
      /\ attempt = "retrier" => item \in Eligible
  BY <1>1, AtTheEnd
<1>5. /\ Results(Later) = IF item \in Eligible /\ seen.calls > 0 THEN 1 ELSE 0
      /\ Failed(Later) <=>
           /\ item \in Eligible
           /\ PhaseFailed(FirstReports) \/ (seen.first = "failed" /\ ~seen.passedLater)
  BY <1>1, LaterOutcomes
<1>6. /\ final' \in [Tests -> Status]
      /\ \A t \in Tests \ {item} : final'[t] = final[t]
      /\ final'[item] = "failed" <=>
           final[item] = "failed" \/ Failed(AttemptLog) \/ Failed(Later)
  BY <1>1, TestIsLogged
<1>7. /\ seen'.calls = seen.calls /\ seen'.first = seen.first /\ seen'.failed = seen.failed
      /\ seen'.passedLater = seen.passedLater /\ seen'.phaseFailed = seen.phaseFailed
      /\ seen'.results = seen.results + Results(AttemptLog) + Results(Later)
      /\ HistoryTypes'
  <2>1. Results(AttemptLog) \in Nat /\ Results(Later) \in Nat
    BY DEF Results
  <2>2. seen.results + Results(AttemptLog) + Results(Later) \in Nat
    BY <1>3, <2>1
  <2> QED
    BY <1>1, <2>2 DEF IInv, TypeOK, HistoryTypes
<1>t. TypeOK'
  <2>1. MetricsTypes'
    BY <1>1 DEF IInv, TypeOK, MetricsTypes
  <2>2. RunningTypes'
    BY <1>1, <1>3, OrderIsFinite DEF IInv, TypeOK, RunningTypes
  <2>3. LogTypes'
    BY <1>1, <1>6 DEF IInv, TypeOK, LogTypes, Failed
  <2> QED
    BY <1>2, <1>7, <2>1, <2>2, <2>3 DEF TypeOK
<1>a. Ahead'
  <2> SUFFICES ASSUME NEW i \in DOMAIN Order, ToCome(i)'
               PROVE  final'[Order[i]] = "none" /\ Order[i] \notin failedInitially'
    BY <1>1 DEF Ahead, Active
  <2>1. i > pos /\ ToCome(i)
    BY <1>1, <1>3, OrderIsFinite DEF ToCome
  <2>2. Order[i] # item /\ Order[i] \in Tests
    BY <1>3, <2>1, OrderIsFinite, RerunAssumption, ElementOfSeq DEF item, IsInjective
  <2> QED
    BY <1>1, <1>6, <2>1, <2>2 DEF IInv, Ahead
<1>b. AttemptInv'
  BY <1>1 DEF AttemptInv, Active
<1>c. FixtureInv'
  <2>1. Created'
    <3> SUFFICES ASSUME NEW c \in Collectors
                 PROVE  created'[c] <= Visits(c)' /\ (Due(c)' => created'[c] + 1 <= Visits(c)')
      BY DEF Created
    <3>1. Visits(c) = VisitsBy(c, pos) /\ Visits(c)' = VisitsBy(c, pos + 1)
      BY <1>1 DEF Visits, VisitsBy, Under
    <3>2. /\ VisitsBy(c, pos) \in Nat /\ VisitsBy(c, pos + 1) \in Nat
          /\ VisitsBy(c, pos) <= VisitsBy(c, pos + 1)
          /\ pos + 1 <= Len(Order) /\ Under(c, pos + 1) /\ (pos > 0 => ~Under(c, pos)) =>
               VisitsBy(c, pos + 1) = VisitsBy(c, pos) + 1
      <4>1. pos \in Nat
        BY <1>3
      <4> QED
        BY <4>1, VisitsGrow
    <3>3. created[c] <= Visits(c) /\ (Due(c) => created[c] + 1 <= Visits(c))
      BY DEF IInv, FixtureInv, Created
    <3>4. created'[c] = created[c] /\ created[c] \in Nat
      BY <1>2 DEF IInv, TypeOK, FixtureTypes
    <3>5. ASSUME Due(c)'
          PROVE  created'[c] + 1 <= Visits(c)'
      <4>1. pos + 1 <= Len(Order) /\ Under(c, pos + 1) /\ c \notin alive
        BY <1>1, <1>2, <3>5 DEF Due, Under
      <4>2. CASE Under(c, pos)
        <5>1. c \in Range(NextChain) /\ pos <= Len(Order)
          BY <1>3, <4>1, OrderIsFinite DEF NextChain, Under
        <5>2. Due(c)
          BY <1>1, <4>1, <4>2, <5>1 DEF Due
        <5> QED
          BY <3>1, <3>2, <3>3, <3>4, <5>2
      <4>3. CASE ~Under(c, pos)
        BY <3>1, <3>2, <3>3, <3>4, <4>1, <4>3
      <4> QED
        BY <4>2, <4>3
    <3> QED
      BY <3>1, <3>2, <3>3, <3>4, <3>5
  <2> QED
    BY <1>2, <2>1 DEF FixtureInv
<1>d. Capped'
  BY <1>1, <1>7 DEF IInv, Capped, WithinTheCap, Active
<1>e. NoFinalizerIsLost'
  BY <1>1, <1>2 DEF NoFinalizerIsLost
<1>f. VerdictIsTheContract'
  <2>1. Latest' = item
    BY <1>1, <1>3, OrderIsFinite DEF Latest, item
  <2>3. AllGate => item \notin Eligible
    BY AllGateIsNotEligible
  <2>4. AllGate <=> plan.mode = "new" /\ item \in plan.detected
    BY DEF AllGate
  <2>5. ~AllGate => (item \in Eligible <=> item \in plan.flaky)
    BY <2>4 DEF Eligible
  <2>6. final'[item] = "failed" <=>
          \/ seen.phaseFailed
          \/ IF AllGate THEN seen.failed
             ELSE IF item \in plan.flaky THEN seen.first = "failed" /\ ~seen.passedLater
             ELSE seen.first = "failed"
    <3>1. \/ final[item] = "failed" \/ Failed(AttemptLog)
          \/ item \in Eligible /\ PhaseFailed(FirstReports)
          <=>
          \/ seen.phaseFailed
          \/ AllGate /\ seen.failed
          \/ ~AllGate /\ item \notin Eligible /\ seen.first = "failed"
      BY <1>3 DEF Concluding
    <3> QED
      BY <1>5, <1>6, <2>3, <2>5, <3>1
  <2>7. FailsByContract(Latest)' <=>
          \/ seen.phaseFailed
          \/ IF AllGate THEN seen.failed
             ELSE IF item \in plan.flaky THEN seen.first = "failed" /\ ~seen.passedLater
             ELSE seen.first = "failed"
    BY <1>1, <1>7, <2>1, <2>4 DEF FailsByContract
  <2>8. ~AllGate => seen'.results = IF seen.calls > 0 THEN 1 ELSE 0
    <3> SUFFICES ASSUME ~AllGate
                 PROVE  seen'.results = IF seen.calls > 0 THEN 1 ELSE 0
      OBVIOUS
    <3>1. /\ seen.results = IF item \notin Eligible /\ attempt # "first" THEN 1 ELSE 0
          /\ attempt = "detector" => plan.mode # "new"
      BY <1>3, <2>4 DEF Concluding
    <3>2. attempt = "first" => (reports["call"] # "none" <=> seen.calls > 0)
      BY <1>3 DEF FirstReports
    <3>3. Results(AttemptLog) =
            IF attempt = "first" /\ item \notin Eligible /\ seen.calls > 0 THEN 1 ELSE 0
      BY <1>3, <3>1, <3>2, ResultsOfAttempt
    <3> QED
      BY <1>3, <1>5, <1>7, <3>1, <3>3
  <2> QED
    BY <1>1, <1>7, <2>1, <2>4, <2>6, <2>7, <2>8 DEF VerdictIsTheContract
<1> QED
  BY <1>t, <1>a, <1>b, <1>c, <1>d, <1>e, <1>f DEF IInv

-----------------------------------------------------------------------------
(***************************************************************************)
(* The clock, the session's end, and the theorems.                         *)
(***************************************************************************)

\* Nothing but the clock moved.
LEMMA ClockPreserves ==
  ASSUME IInv, expired' \in BOOLEAN,
         UNCHANGED <<plan, pos, pc, attempt, reports, held, metrics, failedInitially, rescued,
                     stack, fin, suspended, alive, created, final, red, hasError, seen>>
  PROVE  IInv'
<1>1. /\ expired' \in BOOLEAN
      /\ UNCHANGED <<plan, pos, pc, attempt, reports, held, metrics, failedInitially, rescued,
                     stack, fin, suspended, alive, created, final, red, hasError, seen>>
  OBVIOUS
<1>2. TypeOK'
  BY <1>1 DEF IInv, TypeOK, MetricsTypes, RunningTypes, FixtureTypes, LogTypes, HistoryTypes
<1>3. Ahead'
  BY <1>1 DEF IInv, Ahead, ToCome, Active
<1>4. item' = item /\ Eligible' = Eligible /\ Targets' = Targets /\ Both' = Both
      /\ Above' = Above /\ Chain(item)' = Chain(item) /\ AllGate' = AllGate
      /\ FirstReports' = FirstReports
  BY <1>1 DEF item, Eligible, Targets, Both, Above, Chain, AllGate, FirstReports
<1>5. \A m \in Mechanisms :
        /\ HasExecuted(m)' <=> HasExecuted(m)
        /\ WantsRerun(m)' <=> WantsRerun(m)
        /\ GoesOn(m)' <=> GoesOn(m)
  BY <1>1, <1>4 DEF HasExecuted, WantsRerun, GoesOn, RestoresAtTeardown
<1>6. AttemptInv'
  <2> SUFFICES ASSUME Active
               PROVE  /\ \A m \in Mechanisms : Counted(m)'
                      /\ Rerunning' /\ Suspending' /\ Stacked' /\ Unreported' /\ Remembered'
                      /\ Concluding'
    BY <1>1 DEF AttemptInv, Active
  <2>1. /\ \A m \in Mechanisms : Counted(m)
        /\ Rerunning /\ Suspending /\ Stacked /\ Unreported /\ Remembered /\ Concluding
    BY DEF IInv, AttemptInv
  <2>2. \A m \in Mechanisms : Counted(m)'
    BY <1>1, <1>4, <1>5, <2>1 DEF Counted
  <2>3. Rerunning'
    BY <1>1, <1>4, <2>1 DEF Rerunning, WantsRerun, HasExecuted
  <2>4. Suspending' /\ Stacked'
    BY <1>1, <1>4, <1>5, <2>1 DEF Suspending, Stacked
  <2>5. Unreported' /\ Remembered'
    BY <1>1, <1>4, <2>1 DEF Unreported, Remembered
  <2>6. Concluding'
    <3>1. Failed(AttemptLog)' <=> Failed(AttemptLog)
      BY <1>1, <1>4 DEF Failed, AttemptLog, LoggedAs
    <3> QED
      BY <1>1, <1>4, <2>1, <3>1 DEF Concluding, PhaseFailed
  <2> QED
    BY <2>2, <2>3, <2>4, <2>5, <2>6
<1>7. FixtureInv'
  BY <1>1 DEF IInv, FixtureInv, Conserved, HeldBy, Levels, LevelsOf, Created, Due, Visits, Under,
     NextChain
<1>8. Capped'
  BY <1>1 DEF IInv, Capped, WithinTheCap, Active
<1>9. NoFinalizerIsLost' /\ VerdictIsTheContract'
  BY <1>1 DEF IInv, NoFinalizerIsLost, VerdictIsTheContract, AtTestEnd, Latest, FailsByContract
<1> QED
  BY <1>2, <1>3, <1>6, <1>7, <1>8, <1>9 DEF IInv

\* However a session ends, and whatever it leaves standing.
LEMMA SessionFinishPreserves ==
  ASSUME IInv, SessionFinish, EndSession \/ Interrupt
  PROVE  IInv'
<1>1. /\ pc' = "done" /\ TeardownExact(stack, fin, <<>>)
      /\ UNCHANGED <<plan, pos, attempt, reports, held, metrics, expired, failedInitially, rescued,
                     suspended, created, final, red, hasError, seen>>
  BY DEF SessionFinish, loop, retry, logged
<1>2. \/ pc = "idle" /\ pos > Len(Order)
      \/ pc \in {"setup", "call"}
  BY DEF EndSession, Interrupt
<1>3. FixtureTypes /\ stack \in Seq(Nodes) /\ alive \subseteq Collectors
  BY DEF IInv, TypeOK, FixtureTypes, Nodes
<1>4. stack' = <<>> /\ fin' = {} /\ alive' = alive \ fin
  <2>1. Kept(stack, <<>>) = <<>>
    BY <1>3, KeptOfNothing
  <2>2. Range(<<>>) = {}
    BY DEF Range
  <2> QED
    BY <1>1, <2>1, <2>2 DEF TeardownExact
<1>5. TypeOK'
  <2>1. FixtureTypes'
    BY <1>1, <1>3, <1>4 DEF FixtureTypes
  <2> QED
    BY <1>1, <2>1 DEF IInv, TypeOK, MetricsTypes, RunningTypes, LogTypes, HistoryTypes
<1>6. Ahead'
  BY <1>1, <1>2 DEF IInv, Ahead, ToCome, Active
<1>7. AttemptInv'
  BY <1>1 DEF AttemptInv, Active
<1>8. FixtureInv'
  BY <1>1 DEF IInv, FixtureInv, Created, Due, Visits, Under
<1>9. Capped'
  BY <1>1 DEF IInv, Capped, WithinTheCap, Active
<1>10. NoFinalizerIsLost'
  <2>1. CASE pc = "idle"
    <3>1. alive = fin
      BY <2>1 DEF IInv, FixtureInv, Conserved, HeldBy
    <3> QED
      BY <1>1, <1>4, <3>1 DEF NoFinalizerIsLost
  <2>2. CASE pc \in {"setup", "call"}
    <3>1. pos <= Len(Order)
      BY <2>2 DEF IInv, Ahead, Active
    <3>2. ~(pos > Len(Order))
      BY <3>1, OrderIsFinite DEF IInv, TypeOK, RunningTypes
    <3> QED
      BY <1>1, <3>2 DEF NoFinalizerIsLost
  <2> QED
    BY <1>2, <2>1, <2>2
<1>11. VerdictIsTheContract'
  BY <1>1 DEF VerdictIsTheContract, AtTestEnd
<1> QED
  BY <1>5, <1>6, <1>7, <1>8, <1>9, <1>10, <1>11 DEF IInv

LEMMA InitIInv == Init => IInv
<1> SUFFICES ASSUME Init
             PROVE  IInv
  OBVIOUS
<1>1. TypeOK
  <2>1. MetricsTypes
    BY DEF Init, MetricsTypes, NoMetrics
  <2>2. RunningTypes
    <3>1. 1 \in 1..(Len(Order) + 1)
      BY OrderIsFinite
    <3>2. NotRun \in [Phases -> Outcomes \cup {"none"}]
      BY DEF NotRun
    <3> QED
      BY <3>1, <3>2 DEF Init, RunningTypes
  <2>3. FixtureTypes
    BY DEF Init, FixtureTypes
  <2>4. LogTypes /\ HistoryTypes
    BY DEF Init, LogTypes, HistoryTypes, NothingRecorded, Status, NothingYet
  <2> QED
    BY <2>1, <2>2, <2>3, <2>4 DEF TypeOK
<1>2. Ahead /\ AttemptInv
  <2>1. \A i \in DOMAIN Order : Order[i] \in Tests
    BY OrderIsFinite, RerunAssumption, ElementOfSeq
  <2> QED
    BY <2>1 DEF Init, Ahead, AttemptInv, Active, NothingRecorded
<1>3. FixtureInv
  <2>1. Conserved /\ Levels
    BY DEF Init, Conserved, HeldBy, Levels, LevelsOf
  <2>2. Created
    <3> SUFFICES ASSUME NEW c \in Collectors
                 PROVE  created[c] <= Visits(c) /\ (Due(c) => created[c] + 1 <= Visits(c))
      BY DEF Created
    <3>1. Visits(c) = VisitsBy(c, 0 + 1)
      BY DEF Init, Visits, VisitsBy
    <3>2. /\ VisitsBy(c, 0) \in Nat /\ VisitsBy(c, 0 + 1) \in Nat
          /\ 0 + 1 <= Len(Order) /\ Under(c, 0 + 1) => VisitsBy(c, 0 + 1) = VisitsBy(c, 0) + 1
      BY VisitsGrow
    <3>3. created[c] = 0 /\ (Due(c) => 0 + 1 <= Len(Order) /\ Under(c, 0 + 1))
      BY DEF Init, Due
    <3> QED
      BY <3>1, <3>2, <3>3
  <2> QED
    BY <2>1, <2>2 DEF Init, FixtureInv
<1>4. Capped
  BY RerunAssumption DEF Init, Capped, WithinTheCap, Active, NothingYet
<1>5. NoFinalizerIsLost /\ VerdictIsTheContract
  BY DEF Init, NoFinalizerIsLost, VerdictIsTheContract, AtTestEnd
<1> QED
  BY <1>1, <1>2, <1>3, <1>4, <1>5 DEF IInv

LEMMA NextIInv == IInv /\ [Next]_vars => IInv'
<1> SUFFICES ASSUME IInv, [Next]_vars
             PROVE  IInv'
  OBVIOUS
<1>1. CASE StartTest
  BY <1>1, StartTestPreserves
<1>2. CASE Setup
  BY <1>2, SetupPreserves
<1>3. CASE Call
  BY <1>3, CallPreserves
<1>4. CASE TeardownPlainly
  BY <1>4, TeardownPlainlyPreserves
<1>5. ASSUME NEW m \in Mechanisms, TeardownTooSlow(m)
      PROVE  IInv'
  BY <1>5, TeardownTooSlowPreserves
<1>6. ASSUME NEW m \in Mechanisms, TeardownForRerun(m)
      PROVE  IInv'
  BY <1>6, TeardownForRerunPreserves
<1>7. ASSUME NEW m \in Mechanisms, Rerun(m)
      PROVE  IInv'
  BY <1>7, RerunPreserves
<1>8. CASE FinishTest
  BY <1>8, FinishTestPreserves
<1>9. CASE EndSession \/ Interrupt
  <2>1. SessionFinish
    BY <1>9 DEF EndSession, Interrupt
  <2> QED
    BY <1>9, <2>1, SessionFinishPreserves
<1>10. CASE Expire
  <2>1. /\ expired' = TRUE
        /\ UNCHANGED <<plan, pos, pc, attempt, reports, held, metrics, failedInitially, rescued,
                       stack, fin, suspended, alive, created, final, red, hasError, seen>>
    BY <1>10 DEF Expire, running, retry, fixtures, logged
  <2> QED
    BY <2>1, ClockPreserves
<1>11. CASE UNCHANGED vars
  <2>1. /\ expired' = expired
        /\ UNCHANGED <<plan, pos, pc, attempt, reports, held, metrics, failedInitially, rescued,
                       stack, fin, suspended, alive, created, final, red, hasError, seen>>
    BY <1>11 DEF vars, running, loop, retry, fixtures, logged
  <2>2. expired \in BOOLEAN
    BY DEF IInv, TypeOK, RunningTypes
  <2> QED
    BY <2>1, <2>2, ClockPreserves
<1> QED
  BY <1>1, <1>2, <1>3, <1>4, <1>5, <1>6, <1>7, <1>8, <1>9, <1>10, <1>11 DEF Next, Step

\* The inductive invariant holds in every state of every session.
THEOREM Invariance == Spec => []IInv
BY InitIInv, NextIInv, PTL DEF Spec

\* Whatever the hooks keep is of its type: in particular a rescued test is one that
\* failed at first, and no finalizer waits on a node that is off the stack.
THEOREM TypeCorrect == Spec => []TypeOK
<1>1. IInv => TypeOK
  BY DEF IInv
<1> QED
  BY <1>1, Invariance, PTL

\* suspend_item_finalizers and restore_item_finalizers: no rerun strands a finalizer.
THEOREM FinalizersAreKept == Spec => []NoFinalizerIsLost
<1>1. IInv => NoFinalizerIsLost
  BY DEF IInv
<1> QED
  BY <1>1, Invariance, PTL

\* Taking finalizers off the stack during reruns keeps the fixtures of the test's module
\* and session set up: they are set up once for every time the session comes to them.
THEOREM FixturesAreKept == Spec => []FixturesOutliveReruns
<1>1. IInv => FixturesOutliveReruns
  BY DEF IInv, FixtureInv, Created, FixturesOutliveReruns
<1> QED
  BY <1>1, Invariance, PTL

\* _report_held_back_attempt, the rerun outcome and the retrier's silence: what is logged
\* of a test amounts to what its attempts must mean for the session.
THEOREM VerdictIsKept == Spec => []VerdictIsTheContract
<1>1. IInv => VerdictIsTheContract
  BY DEF IInv
<1> QED
  BY <1>1, Invariance, PTL

\* will_exceed_test_count bounds the executions of every test, with every cap.
THEOREM CapIsKept == Spec => []WithinTheCap
<1>1. IInv => WithinTheCap
  BY DEF IInv, Capped
<1> QED
  BY <1>1, Invariance, PTL

-----------------------------------------------------------------------------
(***************************************************************************)
(* How far two claims of the source hold that do not hold of every run.    *)
(***************************************************************************)

\* Only the log of an attempt, or of what was held back, changes the verdict.
LEMMA Unlogged ==
  ASSUME [Next]_vars, \A m \in Mechanisms : ~Rerun(m), ~FinishTest
  PROVE  UNCHANGED <<plan, final, red>>
<1>1. CASE StartTest
  BY <1>1 DEF StartTest, logged
<1>2. CASE Setup
  BY <1>2 DEF Setup, logged
<1>3. CASE Call
  BY <1>3 DEF Call
<1>4. CASE TeardownPlainly
  BY <1>4 DEF TeardownPlainly, TornDown, logged
<1>5. ASSUME NEW m \in Mechanisms, TeardownTooSlow(m)
      PROVE  UNCHANGED <<plan, final, red>>
  BY <1>5 DEF TeardownTooSlow, TornDown, logged
<1>6. ASSUME NEW m \in Mechanisms, TeardownForRerun(m)
      PROVE  UNCHANGED <<plan, final, red>>
  BY <1>6 DEF TeardownForRerun, TornDown, logged
<1>7. CASE EndSession \/ Interrupt
  BY <1>7 DEF EndSession, Interrupt, SessionFinish, logged
<1>8. CASE Expire
  BY <1>8 DEF Expire, logged
<1>9. CASE UNCHANGED vars
  BY <1>9 DEF vars, logged
<1> QED
  BY <1>1, <1>2, <1>3, <1>4, <1>5, <1>6, <1>7, <1>8, <1>9 DEF Next, Step

\* pytest's own exit status, red once any failure was logged, is that of the verdict's
\* fold: of the final statuses, one is a failure exactly when pytest logged one.
RedIsTheFold == red <=> \E t \in Tests : final[t] = "failed"

LEMMA RedIsTheFoldNext ==
  ASSUME IInv, RedIsTheFold, [Next]_vars
  PROVE  RedIsTheFold'
<1>1. ASSUME NEW m \in Mechanisms, Rerun(m)
      PROVE  RedIsTheFold'
  <2>1. pc = "after" /\ final' = Folded(final, AttemptLog) /\ red' = (red \/ Failed(AttemptLog))
    BY <1>1 DEF Rerun
  <2>2. /\ \A t \in Tests \ {item} : final'[t] = final[t]
        /\ final'[item] = "failed" <=> final[item] = "failed" \/ Failed(AttemptLog)
        /\ item \in Tests
    BY <2>1, AttemptIsLogged, AtTheEnd
  <2> QED
    BY <2>1, <2>2 DEF RedIsTheFold
<1>2. CASE FinishTest
  <2>1. /\ pc = "after" /\ final' = Folded(Folded(final, AttemptLog), Later)
        /\ red' = (red \/ Failed(AttemptLog) \/ Failed(Later))
    BY <1>2 DEF FinishTest, FirstReports, Later
  <2>2. /\ \A t \in Tests \ {item} : final'[t] = final[t]
        /\ final'[item] = "failed" <=>
             final[item] = "failed" \/ Failed(AttemptLog) \/ Failed(Later)
        /\ item \in Tests
    BY <2>1, TestIsLogged, AtTheEnd
  <2> QED
    BY <2>1, <2>2 DEF RedIsTheFold
<1>3. CASE ~FinishTest /\ \A m \in Mechanisms : ~Rerun(m)
  BY <1>3, Unlogged DEF RedIsTheFold
<1> QED
  BY <1>1, <1>2, <1>3

\* Pytest's exit and the session's fold never part.
THEOREM ExitIsTheFold == Spec => []RedIsTheFold
<1>1. Init => RedIsTheFold
  BY DEF Init, RedIsTheFold, NothingRecorded
<1>2. IInv /\ RedIsTheFold /\ [Next]_vars => RedIsTheFold'
  BY RedIsTheFoldNext
<1> QED
  BY <1>1, <1>2, Invariance, PTL DEF Spec

\* A retry that never reached its call put its finalizers back between two tests.
PutBackLast == attempt = "retrier" /\ reports["call"] = "none"

\* What a teardown leaves is the next item's, and nothing is added before it starts.
StackInv ==
  /\ pc = "after" => Range(stack) \subseteq Range(NextChain)
  /\ pc = "idle" /\ pos <= Len(Order) => PutBackLast \/ Range(stack) \subseteq Range(Chain(item))

LEMMA KeptIsTheNext ==
  ASSUME IInv, pc = "teardown", NEW s \in Seq(Nodes), stack' = Kept(s, NextChain), pos' = pos
  PROVE  Range(stack') \subseteq Range(NextChain')
<1>1. pos \in 1..Len(Order) /\ pos \in 1..(Len(Order) + 1)
  BY AtTeardown, OrderIsFinite
<1>2. NextChain \in Seq(Nodes) /\ Len(NextChain) <= 3 /\ NextChain' = NextChain
  BY <1>1, NextChainProperties DEF NextChain
<1> QED
  BY <1>2, RangeOfKept

LEMMA StackInvNext ==
  ASSUME IInv, StackInv, [Next]_vars
  PROVE  StackInv'
<1>1. ASSUME pc = "teardown", pc' = "after", pos' = pos,
             NEW s \in Seq(Nodes), stack' = Kept(s, NextChain)
      PROVE  StackInv'
  BY <1>1, KeptIsTheNext DEF StackInv
<1>2. CASE TeardownPlainly
  <2>1. stack \in Seq(Nodes)
    BY DEF IInv, TypeOK, FixtureTypes, Nodes
  <2> QED
    BY <1>1, <1>2, <2>1 DEF TeardownPlainly, TornDown, TeardownExact
<1>3. ASSUME NEW m \in Mechanisms, TeardownTooSlow(m)
      PROVE  StackInv'
  <2>1. stack \in Seq(Nodes)
    BY DEF IInv, TypeOK, FixtureTypes, Nodes
  <2> QED
    BY <1>1, <1>3, <2>1 DEF TeardownTooSlow, TornDown, TeardownExact
<1>4. ASSUME NEW m \in Mechanisms, TeardownForRerun(m)
      PROVE  StackInv'
  <2>1. pc = "teardown" /\ pc' = "after" /\ pos' = pos /\ WantsRerun(m)
    BY <1>4 DEF TeardownForRerun, TornDown
  <2>2. /\ item \in Tests /\ stack = Chain(item)
        /\ attempt \in {"first", m} /\ stack \in Seq(Nodes)
        /\ suspended[m] = IF attempt = m THEN Both ELSE {}
    BY <2>1, AtTeardown
  <2>3. CASE RestoresAtTeardown(m)
    <3>1. TeardownExact(RestoredStack(m), RestoredFin(m), NextChain)
      BY <1>4, <2>3 DEF TeardownForRerun, Restore
    <3>2. RestoredStack(m) = stack
      BY <2>2, RestoredToItsChain, RestoredNothing
    <3> QED
      BY <1>1, <2>1, <2>2, <3>1, <3>2 DEF TeardownExact
  <2>4. CASE ~RestoresAtTeardown(m)
    <3>1. TeardownExact(<<item>>, {}, NextChain)
      BY <1>4, <2>1, <2>4, SuspendedStack DEF TeardownForRerun
    <3>2. <<item>> \in Seq(Nodes)
      BY <2>2 DEF Nodes
    <3> QED
      BY <1>1, <2>1, <3>1, <3>2 DEF TeardownExact
  <2> QED
    BY <2>3, <2>4
<1>5. CASE FinishTest
  <2>1. /\ pc = "after" /\ pc' = "idle" /\ pos' = pos + 1
        /\ PutBackLast' <=> PutBackLast
        /\ ~PutBackLast => stack' = stack
    BY <1>5 DEF FinishTest, PutBackLast, fixtures
  <2>2. pos \in 1..Len(Order)
    BY <2>1, AtTheEnd
  <2>3. pos' <= Len(Order) => NextChain = Chain(item)'
    BY <2>1, <2>2, OrderIsFinite DEF NextChain, Chain, item
  <2> QED
    BY <2>1, <2>3 DEF StackInv
<1>6. ASSUME NEW m \in Mechanisms, Rerun(m)
      PROVE  StackInv'
  BY <1>6 DEF Rerun, StackInv
<1>7. CASE StartTest \/ Setup \/ Call \/ EndSession \/ Interrupt
  <2>1. pc' \notin {"after", "idle"}
    BY <1>7 DEF StartTest, Setup, Call, EndSession, Interrupt, SessionFinish
  <2> QED
    BY <2>1 DEF StackInv
<1>8. CASE Expire \/ UNCHANGED vars
  <2>1. UNCHANGED <<pc, pos, stack, attempt, reports>>
    BY <1>8 DEF Expire, vars, running, fixtures
  <2> QED
    BY <2>1 DEF StackInv, PutBackLast, NextChain, Chain, item
<1> QED
  BY <1>2, <1>3, <1>4, <1>5, <1>6, <1>7, <1>8 DEF Next, Step

\* __init__.py:895-897: the next test finds a stack of its own collectors, except after
\* a retry that never reached its call, when putting the finalizers back leaves a stack
\* the next test's setup may refuse.
THEOREM StackIsTheNextTests == Spec => [](PutBackLast \/ NextTestFindsItsOwnStack)
<1>1. Init => StackInv
  <2> SUFFICES ASSUME Init
               PROVE  StackInv
    OBVIOUS
  <2>1. pc = "idle" /\ Range(stack) = {}
    BY DEF Init, Range
  <2> QED
    BY <2>1 DEF StackInv
<1>2. IInv /\ StackInv /\ [Next]_vars => StackInv'
  BY StackInvNext
<1>3. StackInv => PutBackLast \/ NextTestFindsItsOwnStack
  BY DEF StackInv, NextTestFindsItsOwnStack, AtTestEnd
<1> QED
  BY <1>1, <1>2, <1>3, Invariance, PTL DEF Spec

\* No test is both rerun by flaky detection and answered for by retry.
NoneAnsweredTwice == plan.detected \cap Eligible = {}

\* The error the span takes from a first call is logged before the test is over.
ErrorInv ==
  NoneAnsweredTwice /\ hasError /\ pc # "done" =>
    red \/ (Active /\ attempt = "first" /\ item \notin Eligible /\ seen.first = "failed")

\* What the first attempt's failed call makes of the session once it is logged.
LEMMA FirstFailureIsLogged ==
  ASSUME IInv, pc = "after", attempt = "first", item \notin Eligible, seen.first = "failed"
  PROVE  Failed(AttemptLog)
<1>1. reports \in [Phases -> Outcomes \cup {"none"}] /\ Remembered
  BY AtTheEnd
<1>2. reports["call"] = "failed"
  BY <1>1 DEF Remembered, FirstReports
<1> QED
  BY <1>1, <1>2, FailedLog DEF LogFails

\* A test retry answers for and did not rescue, which failed in some attempt, failed in
\* its first: only flaky detection reruns a test that passed.
LEMMA UnrescuedFailureIsLogged ==
  ASSUME IInv, pc = "after", NoneAnsweredTwice, item \in Eligible, item \notin rescued, seen.failed
  PROVE  Failed(Later)
<1>1. /\ attempt \in {"first", "detector", "retrier"} /\ Remembered
      /\ attempt # "first" => WantsRerun(attempt)
      /\ attempt = "detector" => item \in plan.detected
  BY AtTheEnd
<1>2. seen.first = "failed"
  <2>1. CASE attempt = "first"
    BY <1>1, <2>1 DEF Remembered
  <2>2. CASE attempt = "detector"
    BY <1>1, <2>2 DEF NoneAnsweredTwice
  <2>3. CASE attempt = "retrier"
    BY <1>1, <2>3 DEF WantsRerun, Remembered
  <2> QED
    BY <1>1, <2>1, <2>2, <2>3
<1>3. ~seen.passedLater
  BY <1>1, <1>2 DEF Remembered
<1> QED
  BY <1>2, <1>3, LaterOutcomes

LEMMA ErrorInvNext ==
  ASSUME IInv, ErrorInv, [Next]_vars
  PROVE  ErrorInv'
<1>1. CASE StartTest
  <2>1. pc = "idle" /\ UNCHANGED <<plan, red, hasError>>
    BY <1>1 DEF StartTest, logged
  <2> QED
    BY <2>1 DEF ErrorInv, Active, NoneAnsweredTwice, Eligible
<1>2. CASE Setup
  <2>1. /\ pc = "setup" /\ pc' \in {"call", "teardown"} /\ seen'.first = seen.first
        /\ UNCHANGED <<plan, pos, attempt, red, hasError>>
    BY <1>2 DEF Setup, logged, IInv, TypeOK, HistoryTypes
  <2> QED
    BY <2>1 DEF ErrorInv, Active, NoneAnsweredTwice, Eligible, item
<1>3. CASE Call
  <2>1. /\ pc = "call" /\ pc' = "teardown" /\ UNCHANGED <<plan, pos, attempt, red>>
    BY <1>3 DEF Call
  <2>2. PICK o \in Outcomes :
          /\ hasError' = (hasError \/ (seen.calls = 0 /\ o = "failed" /\ item \notin Eligible))
          /\ seen' = [seen EXCEPT !.first = IF seen.calls = 0 THEN o ELSE @,
                                  !.passedLater = @ \/ (seen.calls > 0 /\ o = "passed"),
                                  !.failed = @ \/ o = "failed",
                                  !.calls = @ + 1]
    BY <1>3 DEF Call
  <2>3. seen'.first = IF seen.calls = 0 THEN o ELSE seen.first
    BY <2>2 DEF IInv, TypeOK, HistoryTypes
  <2>4. /\ attempt = "first" <=> seen.calls = 0
        /\ seen.calls = 0 => seen.first = "none"
    <3>1. Rerunning /\ Remembered /\ seen.calls \in Nat
      BY <2>1 DEF IInv, AttemptInv, Active, TypeOK, HistoryTypes
    <3> QED
      BY <2>1, <3>1 DEF Rerunning, Remembered
  <2> QED
    BY <2>1, <2>2, <2>3, <2>4 DEF ErrorInv, Active, NoneAnsweredTwice, Eligible, item
<1>4. ASSUME pc = "teardown", NEW o, TornDown(o)
      PROVE  ErrorInv'
  <2>1. /\ pc' = "after" /\ seen'.first = seen.first
        /\ UNCHANGED <<plan, pos, attempt, red, hasError>>
    BY <1>4 DEF TornDown, logged, IInv, TypeOK, HistoryTypes
  <2> QED
    BY <1>4, <2>1 DEF ErrorInv, Active, NoneAnsweredTwice, Eligible, item
<1>5. CASE TeardownPlainly
  BY <1>4, <1>5 DEF TeardownPlainly
<1>6. ASSUME NEW m \in Mechanisms, TeardownTooSlow(m) \/ TeardownForRerun(m)
      PROVE  ErrorInv'
  BY <1>4, <1>6 DEF TeardownTooSlow, TeardownForRerun
<1>7. ASSUME NEW m \in Mechanisms, Rerun(m)
      PROVE  ErrorInv'
  <2>1. /\ pc = "after" /\ red' = (red \/ Failed(AttemptLog))
        /\ UNCHANGED <<plan, pos, hasError>>
    BY <1>7 DEF Rerun
  <2> QED
    BY <2>1, FirstFailureIsLogged DEF ErrorInv, NoneAnsweredTwice, Eligible
<1>8. CASE FinishTest
  <2>1. /\ pc = "after" /\ red' = (red \/ Failed(AttemptLog) \/ Failed(Later))
        /\ hasError' = (hasError \/ (item \in Eligible /\ item \notin rescued /\ seen.failed))
        /\ plan' = plan
    BY <1>8 DEF FinishTest, Later, FirstReports
  <2>2. NoneAnsweredTwice' <=> NoneAnsweredTwice
    BY <2>1 DEF NoneAnsweredTwice, Eligible
  <2> QED
    BY <2>1, <2>2, FirstFailureIsLogged, UnrescuedFailureIsLogged DEF ErrorInv
<1>9. CASE EndSession \/ Interrupt
  BY <1>9 DEF EndSession, Interrupt, SessionFinish, ErrorInv
<1>10. CASE Expire \/ UNCHANGED vars
  <2>1. UNCHANGED <<plan, pos, pc, attempt, red, hasError, seen>>
    BY <1>10 DEF Expire, vars, running, logged
  <2> QED
    BY <2>1 DEF ErrorInv, Active, NoneAnsweredTwice, Eligible, item
<1> QED
  BY <1>1, <1>2, <1>3, <1>5, <1>6, <1>7, <1>8, <1>9, <1>10 DEF Next, Step

\* __init__.py:821-823: the span is marked errored only in a session pytest fails, when
\* no test is both rerun by flaky detection and answered for by retry.
THEOREM ErrorFollowsOneAnswer == Spec => [](NoneAnsweredTwice => ErrorFollowsTheVerdict)
<1>1. Init => ErrorInv
  BY DEF Init, ErrorInv
<1>2. IInv /\ ErrorInv /\ [Next]_vars => ErrorInv'
  BY ErrorInvNext
<1>3. ErrorInv => (NoneAnsweredTwice => ErrorFollowsTheVerdict)
  BY DEF ErrorInv, ErrorFollowsTheVerdict, AtTestEnd, Active
<1> QED
  BY <1>1, <1>2, <1>3, Invariance, PTL DEF Spec
=============================================================================
