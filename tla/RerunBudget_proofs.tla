------------------------- MODULE RerunBudget_proofs -------------------------
(***************************************************************************)
(* RerunBudget, for any tests, contexts, circumstances and durations: the  *)
(* arithmetic of the shares first, then the inductive invariant.           *)
(***************************************************************************)
EXTENDS RerunBudget, FiniteSetTheorems, TLAPS

LEMMA DivTyped ==
  ASSUME NEW x \in Nat, NEW k \in Nat \ {0}
  PROVE  x \div k \in Nat /\ (x \div k) * k <= x /\ x < (x \div k) * k + k
OBVIOUS

LEMMA DivSmaller ==
  ASSUME NEW x \in Nat, NEW k \in Nat \ {0}
  PROVE  x \div k <= x
BY DivTyped

LEMMA Monotone ==
  ASSUME NEW a \in Nat, NEW b \in Nat, NEW k \in Nat, a <= b
  PROVE  a * k <= b * k
OBVIOUS

LEMMA BelowShare ==
  ASSUME NEW x \in Nat, NEW b \in Nat, NEW n \in Nat \ {0}, x < b \div n
  PROVE  x * n < b
<1> DEFINE q == b \div n
<1>1. q \in Nat /\ q * n <= b
  BY DivTyped
<1>2. x + 1 <= q
  BY <1>1
<1> HIDE DEF q
<1>3. (x + 1) * n <= q * n
  BY <1>1, <1>2, Monotone
<1>4. (x + 1) * n = x * n + n
  OBVIOUS
<1> QED BY <1>1, <1>3, <1>4

LEMMA ShareGrows ==
  ASSUME NEW b \in Nat, NEW r \in Nat, NEW n \in Nat \ {0}, NEW k \in Nat \ {0},
         b * k <= r * n
  PROVE  b \div n <= r \div k
<1> DEFINE q == b \div n
           s == r \div k
<1>1. q \in Nat /\ q * n <= b
  BY DivTyped
<1>2. s \in Nat /\ r < s * k + k
  BY DivTyped
<1> HIDE DEF q, s
<1> SUFFICES ASSUME s + 1 <= q PROVE FALSE
  BY <1>1, <1>2 DEF q, s
<1>3. (s + 1) * n <= b
  <2>1. (s + 1) * n <= q * n
    BY <1>1, <1>2, Monotone
  <2> QED BY <2>1, <1>1, <1>2
<1>4. ((s + 1) * n) * k <= b * k
  <2>1. (s + 1) * n \in Nat
    BY <1>2
  <2> QED BY <2>1, <1>3, Monotone
<1>5. (r + 1) <= (s + 1) * k
  BY <1>2
<1>6. (r + 1) * n <= ((s + 1) * k) * n
  BY <1>2, <1>5, Monotone
<1>7. ((s + 1) * k) * n = ((s + 1) * n) * k
  BY <1>2
<1>8. (r + 1) * n = r * n + n
  OBVIOUS
<1> DEFINE u == ((s + 1) * n) * k
           v == b * k
           w == r * n
<1>9. u \in Nat /\ v \in Nat /\ w \in Nat
  BY <1>2
<1> HIDE DEF u, v, w
<1>10. u <= v /\ v <= w /\ w + n <= u
  BY <1>4, <1>6, <1>7, <1>8 DEF u, v, w
<1> QED BY <1>9, <1>10

-----------------------------------------------------------------------------
(* The plan.                                                               *)

LEMMA AtLeastTyped ==
  ASSUME NEW n \in Nat, NEW k \in Nat
  PROVE  AtLeast(n, k) \in Nat /\ n <= AtLeast(n, k) /\ k <= AtLeast(n, k)
BY DEF AtLeast

LEMMA SizeTyped ==
  ASSUME NEW S, S \subseteq Tests
  PROVE  IsFiniteSet(S) /\ Cardinality(S) \in Nat
BY BudgetConstants, FS_Subset, FS_CardinalityType

\* The targets are tests, a test has one mechanism, and retry's are eligible.
LEMMA Plans ==
  ASSUME TypeOK
  PROVE  /\ Detected \subseteq Tests /\ Eligible \subseteq Tests
         /\ Targets("detector") = Detected
         /\ Targets("retrier") = Eligible \ Detected
         /\ run.mode = "new" => Eligible \cap Detected = {}
<1>1. run \in Circumstance /\ context \in Context
  BY BudgetConstants DEF TypeOK
<1>2. Detected \subseteq Tests
  BY DEF Detected, PlanTests
<1>3. Eligible \subseteq Tests
  BY DEF Eligible, EligibleTests
<1>4. Targets("retrier") = Eligible \ Detected
  BY DEF Targets, RetryTests, Eligible
<1>5. ASSUME run.mode = "new" PROVE Eligible \cap Detected = {}
  <2>1. CASE ShouldRun(context, run.mode)
    BY <2>1, <1>5 DEF Eligible, EligibleTests, Gates
  <2>2. CASE ~ShouldRun(context, run.mode)
    BY <2>2 DEF Detected
  <2> QED BY <2>1, <2>2
<1> QED BY <1>2, <1>3, <1>4, <1>5 DEF Targets

LEMMA BudgetTyped ==
  ASSUME TypeOK, NEW m \in Mechanisms
  PROVE  Budget(m) \in Nat
<1>1. context \in Context /\ run \in Circumstance
  BY BudgetConstants DEF TypeOK
<1>2. /\ context.mean \in Nat /\ context.retryRatio \in Nat /\ context.floor \in Nat
      /\ context.ratio \in [Modes -> Nat] /\ run.mode \in Modes \cup {"none"}
  BY <1>1 DEF Context, Circumstance
<1>3. /\ Cardinality(Tests) \in Nat
      /\ Cardinality(Tests \cap context.existing) \in Nat
  BY SizeTyped
<1>4. ASSUME NEW a \in Nat, NEW b \in Nat, NEW c \in Nat
      PROVE  AtLeast((a * b * c) \div 100, context.floor) \in Nat
  <2>1. a * b * c \in Nat
    OBVIOUS
  <2>2. (a * b * c) \div 100 \in Nat
    BY <2>1, DivTyped
  <2> QED BY <2>2, <1>2, AtLeastTyped
<1>5. RetryBudget(context, Tests) \in Nat
  BY <1>2, <1>3, <1>4 DEF RetryBudget
<1>6. ASSUME run.mode # "none" PROVE PlanBudget(context, run.mode, Tests) \in Nat
  <2>1. context.ratio[run.mode] \in Nat
    BY <1>2, <1>6
  <2> QED BY <2>1, <1>2, <1>3, <1>4 DEF PlanBudget
<1> QED BY <1>5, <1>6 DEF Budget

-----------------------------------------------------------------------------
(* What a test is given.                                                   *)

LEMMA BeforeTimeoutBounds ==
  ASSUME TypeOK, NEW share \in Nat
  PROVE  /\ BeforeTimeout(share) \in Nat /\ BeforeTimeout(share) <= share
         /\ run.timeout = 0 => BeforeTimeout(share) = share
<1>1. run.timeout \in Nat
  BY BudgetConstants DEF TypeOK, Circumstance
<1>2. (run.timeout * 9) \div 10 \in Nat
  BY <1>1, DivTyped
<1> QED BY <1>2 DEF BeforeTimeout

\* A test is given no more than what the other tests left of the budget.
LEMMA WithinWhatIsLeft ==
  ASSUME NEW b \in Nat, NEW u \in Nat, NEW n \in Nat, NEW p \in Nat
  PROVE  /\ DynamicShare(b, u, n, p) \in Nat
         /\ DynamicShare(b, u, n, p) = 0 \/ DynamicShare(b, u, n, p) + u <= b
<1> DEFINE r == IF u < b THEN b - u ELSE 0
           k == AtLeast(IF p < n THEN n - p ELSE 0, 1)
<1>1. r \in Nat /\ (r = 0 \/ r + u <= b)
  OBVIOUS
<1>2. k \in Nat \ {0}
  BY DEF AtLeast
<1>3. DynamicShare(b, u, n, p) = r \div k
  BY DEF DynamicShare
<1> HIDE DEF r, k
<1>4. r \div k \in Nat /\ r \div k <= r
  BY <1>1, <1>2, DivTyped, DivSmaller
<1> QED BY <1>1, <1>3, <1>4

\* The tests before a test used no more than an equal part each: it has one too.
LEMMA AtLeastAnEqualPart ==
  ASSUME NEW b \in Nat, NEW u \in Nat, NEW n \in Nat \ {0}, NEW p \in Nat,
         p < n, u * n <= p * b
  PROVE  b \div n <= DynamicShare(b, u, n, p)
<1>1. CASE b = 0
  <2>1. b \div n <= b
    BY DivSmaller
  <2>2. b \div n \in Nat /\ DynamicShare(b, u, n, p) \in Nat
    BY DivTyped, WithinWhatIsLeft
  <2> QED BY <1>1, <2>1, <2>2
<1>2. CASE b # 0
  <2>1. u < b
    <3>1. SUFFICES ASSUME b <= u PROVE FALSE
      OBVIOUS
    <3>2. b * n <= u * n
      BY <3>1, Monotone
    <3>3. (p + 1) * b <= n * b
      BY Monotone
    <3>4. (p + 1) * b = p * b + b /\ b * n = n * b
      OBVIOUS
    <3> DEFINE x == u * n
               y == p * b
               z == n * b
    <3>5. x \in Nat /\ y \in Nat /\ z \in Nat
      OBVIOUS
    <3> HIDE DEF x, y, z
    <3>6. x <= y /\ z <= x /\ y + b <= z
      BY <3>2, <3>3, <3>4 DEF x, y, z
    <3> QED BY <3>5, <3>6, <1>2
  <2>2. b - u \in Nat /\ n - p \in Nat \ {0}
    BY <2>1
  <2>3. b * (n - p) <= (b - u) * n
    <3>1. b * (n - p) = n * b - p * b /\ (b - u) * n = n * b - u * n
      OBVIOUS
    <3> DEFINE x == u * n
               y == p * b
               z == n * b
    <3>2. x \in Nat /\ y \in Nat /\ z \in Nat /\ x <= y
      OBVIOUS
    <3> HIDE DEF x, y, z
    <3>3. b * (n - p) = z - y /\ (b - u) * n = z - x
      BY <3>1 DEF x, y, z
    <3> QED BY <3>2, <3>3
  <2>4. b \div n <= (b - u) \div (n - p)
    BY <2>2, <2>3, ShareGrows
  <2>5. DynamicShare(b, u, n, p) = (b - u) \div (n - p)
    BY <2>1, <2>2 DEF DynamicShare, AtLeast
  <2> QED BY <2>4, <2>5
<1> QED BY <1>1, <1>2

\* What a mechanism gives a test when it sets its deadline.
LEMMA Given ==
  ASSUME TypeOK, NEW m \in Mechanisms, NEW failed, failed \subseteq Tests
  PROVE  /\ TimeGiven(m, failed) \in Nat
         /\ ~run.worker => TimeGiven(m, failed) = 0 \/ TimeGiven(m, failed) + used[m] <= Budget(m)
         /\ run.worker /\ m = "detector" /\ Detected # {}
              => TimeGiven(m, failed) <= Budget(m) \div Cardinality(Detected)
<1> DEFINE n == SharingBudget(m, failed)
<1>1. n \in Nat /\ AtLeast(n, 1) \in Nat \ {0}
  <2>1. Detected \subseteq Tests /\ Targets("detector") = Detected
    BY Plans
  <2>2. n \in Nat
    BY <2>1, SizeTyped DEF SharingBudget
  <2> QED BY <2>2 DEF AtLeast
<1>2. Budget(m) \in Nat /\ used[m] \in Nat /\ processed[m] \in Nat
  BY BudgetTyped DEF TypeOK
<1>3. StaticShare(Budget(m), n) \in Nat
  BY <1>1, <1>2, DivTyped DEF StaticShare
<1>4. /\ DynamicShare(Budget(m), used[m], AtLeast(n, 1), processed[m]) \in Nat
      /\ \/ DynamicShare(Budget(m), used[m], AtLeast(n, 1), processed[m]) = 0
         \/ DynamicShare(Budget(m), used[m], AtLeast(n, 1), processed[m]) + used[m] <= Budget(m)
  BY <1>1, <1>2, WithinWhatIsLeft
<1>5. Share(m, failed) \in Nat
  BY <1>3, <1>4 DEF Share
<1>6. TimeGiven(m, failed) \in Nat /\ TimeGiven(m, failed) <= Share(m, failed)
  BY <1>5, BeforeTimeoutBounds DEF TimeGiven
<1>7. ASSUME ~run.worker
      PROVE  TimeGiven(m, failed) = 0 \/ TimeGiven(m, failed) + used[m] <= Budget(m)
  <2>1. Share(m, failed) = 0 \/ Share(m, failed) + used[m] <= Budget(m)
    BY <1>4, <1>7 DEF Share
  <2> QED BY <2>1, <1>2, <1>5, <1>6
<1>8. ASSUME run.worker, m = "detector", Detected # {}
      PROVE  TimeGiven(m, failed) <= Budget(m) \div Cardinality(Detected)
  <2>1. n = Cardinality(Detected)
    BY <1>8, Plans DEF SharingBudget
  <2>2. n # 0
    BY <1>8, <2>1, Plans, SizeTyped, FS_EmptySet
  <2>3. AtLeast(n, 1) = n
    BY <1>1, <2>2 DEF AtLeast
  <2>4. Share(m, failed) = Budget(m) \div n
    BY <1>8, <2>3 DEF Share, StaticShare
  <2> QED BY <2>1, <2>4, <1>6
<1> QED BY <1>6, <1>7, <1>8

-----------------------------------------------------------------------------
(* The inductive invariant.                                                *)

\* A mechanism that set a deadline answers for the item, and only it reran it.
Owned ==
  /\ failedInitially \subseteq Eligible
  /\ \A m \in Mechanisms :
       /\ metrics[m].kept => item \in Targets(m) \ run.tooLong
       /\ metrics[m].deadline => metrics[m].kept
       /\ m \in paid => metrics[m].deadline
  /\ metrics["retrier"].deadline => item \in failedInitially

\* What a test was given is there to be used.
Afforded(m) ==
  metrics[m].deadline =>
    /\ ~run.worker => left[m] = 0 \/ left[m] + used[m] <= Budget(m)
    /\ run.worker /\ m = "detector" => left[m] <= Budget(m) \div Cardinality(Detected)

\* Whoever was given a share of detection's budget was started.
SharesAreOfTargets == processed["detector"] <= Cardinality(Detected \ todo)

\* Retry of a failure that is its own ended for one of the reasons it states.
Accounted ==
  item \in failedInitially \cap (Targets("retrier") \ run.tooLong) =>
    /\ metrics["retrier"].deadline
    /\ metrics["retrier"].tooSlow => item \in exhausted
    /\ metrics["retrier"].last =>
         \/ item \in rescued \cup exhausted \/ broke \/ late
         \/ metrics["retrier"].calls >= context.max

IInv ==
  /\ TypeOK /\ Owned /\ SharesAreOfTargets /\ Accounted
  /\ \A m \in Mechanisms : Afforded(m)

LEMMA InitIInv == Init => IInv
<1> SUFFICES ASSUME Init PROVE IInv
  OBVIOUS
<1>1. TypeOK
  BY BudgetConstants DEF Init, TypeOK, NoMetrics, Metrics
<1>2. \A m \in Mechanisms : metrics[m] = NoMetrics
  BY DEF Init
<1>3. Owned
  BY <1>2 DEF Init, Owned, NoMetrics, Mechanisms
<1>4. SharesAreOfTargets
  <2>1. Cardinality(Detected \ todo) \in Nat
    BY <1>1, Plans, SizeTyped
  <2> QED BY <2>1 DEF Init, SharesAreOfTargets, Mechanisms
<1>5. Accounted
  BY DEF Init, Accounted
<1>6. \A m \in Mechanisms : Afforded(m)
  BY <1>2 DEF Afforded, NoMetrics
<1> QED BY <1>1, <1>3, <1>4, <1>5, <1>6 DEF IInv

\* The plan is made once.
LEMMA PlanStands ==
  ASSUME UNCHANGED planned
  PROVE  /\ context' = context /\ run' = run
         /\ Detected' = Detected /\ Eligible' = Eligible
         /\ \A m \in Mechanisms : Targets(m)' = Targets(m) /\ Budget(m)' = Budget(m)
BY DEF planned, Detected, Gates, Eligible, Targets, Budget

LEMMA FilledTyped ==
  ASSUME NEW m \in Mechanisms, NEW t, NEW o \in Outcomes, NEW d \in Nat
  PROVE  /\ Filled(m, t, o, d) \in Metrics
         /\ Filled(m, t, o, d).kept => t \in Targets(m) \ run.tooLong
         /\ o = "failed" /\ t \in Targets(m) \ run.tooLong
              => Filled(m, t, o, d).kept /\ Filled(m, t, o, d).calls = 1
         /\ ~Filled(m, t, o, d).deadline /\ ~Filled(m, t, o, d).last
BY DEF Filled, NoMetrics, Metrics, Outcomes

\* The item's first attempt, mechanism by mechanism.
LEMMA FirstAttemptFacts ==
  ASSUME IInv, NEW t \in Tests, NEW o \in Outcomes, NEW d \in Durations,
         FirstAttempt(t, o, d), NEW m \in Mechanisms
  PROVE  /\ metrics'[m] \in Metrics /\ ~metrics'[m].last
         /\ metrics'[m].kept => t \in Targets(m) \ run.tooLong
         /\ metrics'[m].deadline =>
              /\ metrics'[m].kept /\ left'[m] = TimeGiven(m, failedInitially')
              /\ processed'[m] = processed[m] + 1
              /\ m = "retrier" => t \in failedInitially'
         /\ ~metrics'[m].deadline =>
              left'[m] = 0 /\ processed'[m] = processed[m] /\ ~metrics'[m].tooSlow
         /\ m = "retrier" /\ metrics'[m].tooSlow => t \in exhausted'
         /\ m = "retrier" /\ o = "failed" /\ t \in failedInitially'
              /\ t \in Targets(m) \ run.tooLong => metrics'[m].deadline
<1> DEFINE filled == Filled(m, t, o, d)
           wants == WantsRerun(m, t, filled, failedInitially')
           slow == wants /\ d * Needed(m) > TimeGiven(m, failedInitially')
<1>1. d \in Nat
  BY BudgetConstants
<1>2. /\ filled \in Metrics /\ ~filled.deadline /\ ~filled.last
      /\ filled.kept => t \in Targets(m) \ run.tooLong
      /\ o = "failed" /\ t \in Targets(m) \ run.tooLong => filled.kept /\ filled.calls = 1
  BY <1>1, FilledTyped
<1>3. /\ metrics'[m] = [filled EXCEPT !.deadline = wants, !.tooSlow = slow]
      /\ left'[m] = (IF wants THEN TimeGiven(m, failedInitially') ELSE 0)
      /\ processed'[m] = processed[m] + (IF wants THEN 1 ELSE 0)
      /\ m = "retrier" /\ slow => t \in exhausted'
  BY DEF FirstAttempt, Mechanisms
<1>4. wants \in BOOLEAN /\ slow \in BOOLEAN
  BY DEF WantsRerun
<1>5. /\ wants => filled.kept /\ (m = "retrier" => t \in failedInitially')
      /\ filled.kept /\ filled.calls = 1 /\ t \in failedInitially' => wants
  BY DEF WantsRerun
<1>6. processed[m] \in Nat
  BY DEF IInv, TypeOK
<1> HIDE DEF filled, wants
<1>7. /\ metrics'[m] \in Metrics
      /\ metrics'[m].last = filled.last /\ metrics'[m].kept = filled.kept
      /\ metrics'[m].deadline = wants /\ metrics'[m].tooSlow = slow
  <2> HIDE DEF slow
  <2> QED BY <1>2, <1>3, <1>4 DEF Metrics
<1>8. slow => wants
  OBVIOUS
<1> HIDE DEF slow
<1> QED BY <1>2, <1>3, <1>5, <1>6, <1>7, <1>8

LEMMA FirstAttemptTyped ==
  ASSUME IInv, NEW t \in Tests, NEW o \in Outcomes, NEW d \in Durations,
         FirstAttempt(t, o, d)
  PROVE  TypeOK'
<1> DEFINE wanted(m) == WantsRerun(m, t, Filled(m, t, o, d), failedInitially')
<1>1. /\ item = NoTest /\ t \in todo /\ todo' = todo \ {t} /\ item' = t /\ broke' = FALSE
      /\ UNCHANGED <<planned, used, rescued, paid, late>>
      /\ metrics' = [m \in Mechanisms |-> metrics'[m]]
      /\ left' = [m \in Mechanisms |-> left'[m]]
      /\ processed' = [m \in Mechanisms |-> processed'[m]]
  BY DEF FirstAttempt
<1>2. failedInitially \subseteq failedInitially' /\ failedInitially' \subseteq failedInitially \cup {t}
  BY DEF FirstAttempt
<1>3. TypeOK /\ failedInitially' \subseteq Tests \ todo'
  BY <1>1, <1>2 DEF IInv, TypeOK
<1>4. metrics' \in [Mechanisms -> Metrics]
  BY <1>1, FirstAttemptFacts
<1>5. ASSUME NEW m \in Mechanisms PROVE left'[m] \in Nat /\ processed'[m] \in Nat
  <2>1. TimeGiven(m, failedInitially') \in Nat
    BY <1>3, Given
  <2> QED BY <2>1, FirstAttemptFacts DEF IInv, TypeOK
<1>7. exhausted' \subseteq failedInitially'
  <2>1. exhausted' \subseteq exhausted \cup {t}
    BY DEF FirstAttempt
  <2>2. t \in exhausted' => t \in failedInitially'
    <3>1. t \notin exhausted
      BY <1>1, <1>3 DEF TypeOK
    <3>2. "retrier" \in Mechanisms
      BY DEF Mechanisms
    <3>3. t \in exhausted' => wanted("retrier")
      BY <3>1 DEF FirstAttempt
    <3> QED BY <3>2, <3>3 DEF WantsRerun
  <2> QED BY <2>1, <2>2, <1>2, <1>3 DEF TypeOK
<1>8. /\ context' \in Contexts /\ run' \in Circumstances /\ todo' \subseteq Tests
      /\ item' \in (Tests \ todo') \cup {NoTest} /\ used' \in [Mechanisms -> Nat]
      /\ rescued' \subseteq failedInitially' /\ broke' \in BOOLEAN /\ paid' \subseteq Mechanisms
      /\ late' \in BOOLEAN
  BY <1>1, <1>2, <1>3 DEF TypeOK, planned
<1> QED BY <1>1, <1>3, <1>4, <1>5, <1>7, <1>8 DEF TypeOK

LEMMA FirstAttemptStep ==
  ASSUME IInv, NEW t \in Tests, NEW o \in Outcomes, NEW d \in Durations,
         FirstAttempt(t, o, d)
  PROVE  IInv'
<1>1. TypeOK /\ TypeOK'
  BY FirstAttemptTyped DEF IInv
<1>2. /\ item = NoTest /\ t \in todo /\ todo' = todo \ {t} /\ item' = t
      /\ UNCHANGED <<planned, used, paid>>
  BY DEF FirstAttempt
<1>3. /\ run' = run /\ context' = context /\ Detected' = Detected /\ Eligible' = Eligible
      /\ \A m \in Mechanisms : Targets(m)' = Targets(m) /\ Budget(m)' = Budget(m)
  BY <1>2, PlanStands
<1>4. paid = {}
  <2>1. ASSUME NEW m \in Mechanisms PROVE ~metrics[m].kept
    BY <1>2, <1>1, Plans, BudgetConstants DEF IInv, Owned, Mechanisms
  <2> QED BY <2>1, <1>1 DEF IInv, Owned, TypeOK
<1>5. t \in failedInitially' => t \in Eligible /\ o = "failed"
  BY <1>1, <1>2 DEF FirstAttempt, TypeOK
<1>6. Owned'
  <2>1. failedInitially' \subseteq Eligible
    BY <1>5 DEF FirstAttempt, IInv, Owned
  <2>2. ASSUME NEW m \in Mechanisms
        PROVE  /\ metrics'[m].kept => t \in Targets(m) \ run.tooLong
               /\ metrics'[m].deadline => metrics'[m].kept
    BY FirstAttemptFacts
  <2>3. metrics'["retrier"].deadline => t \in failedInitially'
    BY FirstAttemptFacts DEF Mechanisms
  <2> QED BY <2>1, <2>2, <2>3, <1>2, <1>3, <1>4 DEF Owned
<1>7. ASSUME NEW m \in Mechanisms PROVE Afforded(m)'
  <2> SUFFICES ASSUME metrics'[m].deadline
               PROVE  /\ ~run.worker => left'[m] = 0 \/ left'[m] + used[m] <= Budget(m)
                      /\ run.worker /\ m = "detector" =>
                           left'[m] <= Budget(m) \div Cardinality(Detected)
    BY <1>2, <1>3 DEF Afforded
  <2>1. left'[m] = TimeGiven(m, failedInitially') /\ t \in Targets(m)
    BY FirstAttemptFacts
  <2>2. failedInitially' \subseteq Tests
    BY <1>1 DEF TypeOK
  <2>3. m = "detector" => Detected # {}
    BY <2>1, <1>1, Plans
  <2> QED BY <2>1, <2>2, <2>3, <1>1, Given
<1>8. SharesAreOfTargets'
  <2>1. /\ "detector" \in Mechanisms /\ Detected \subseteq Tests
        /\ Targets("detector") = Detected
    BY <1>1, Plans DEF Mechanisms
  <2>2. /\ IsFiniteSet(Detected \ todo) /\ Cardinality(Detected \ todo) \in Nat
        /\ IsFiniteSet(Detected \ todo') /\ Cardinality(Detected \ todo') \in Nat
    BY <2>1, SizeTyped
  <2>3. processed["detector"] \in Nat /\ processed["detector"] <= Cardinality(Detected \ todo)
    BY <2>1 DEF IInv, TypeOK, SharesAreOfTargets
  <2>4. CASE t \in Detected
    <3>1. Detected \ todo' = (Detected \ todo) \cup {t} /\ t \notin Detected \ todo
      BY <2>4, <1>2
    <3>2. Cardinality(Detected \ todo') = Cardinality(Detected \ todo) + 1
      BY <3>1, <2>2, FS_AddElement
    <3>3. processed'["detector"] <= processed["detector"] + 1
      BY <2>1, <2>3, FirstAttemptFacts
    <3>4. processed'["detector"] \in Nat
      BY <1>1, <2>1 DEF TypeOK
    <3> QED BY <3>2, <3>3, <3>4, <2>2, <2>3, <1>3 DEF SharesAreOfTargets
  <2>5. CASE t \notin Detected
    <3>1. Detected \ todo' = Detected \ todo
      BY <2>5, <1>2
    <3>2. processed'["detector"] = processed["detector"]
      BY <2>1, <2>5, FirstAttemptFacts
    <3> QED BY <3>1, <3>2, <2>3, <1>3 DEF SharesAreOfTargets
  <2> QED BY <2>4, <2>5
<1>9. Accounted'
  BY <1>2, <1>3, <1>5, FirstAttemptFacts DEF Accounted, Mechanisms
<1> QED BY <1>1, <1>6, <1>7, <1>8, <1>9 DEF IInv

\* One more attempt, mechanism by mechanism; n is the one whose loop it is.
LEMMA RerunFacts ==
  ASSUME IInv, NEW n \in Mechanisms, NEW o \in Outcomes, NEW d \in Durations,
         NEW slip \in Slips, Rerun(n, o, d, slip)
  PROVE  /\ item \in Tests /\ metrics[n].deadline /\ ~metrics[n].last
         /\ n = "retrier" => item \notin rescued
         /\ metrics' \in [Mechanisms -> Metrics]
         /\ \A m \in Mechanisms :
              /\ m # n => metrics'[m] = metrics[m] /\ used'[m] = used[m]
              /\ metrics'[m].kept = metrics[m].kept
              /\ metrics'[m].initial = metrics[m].initial
              /\ metrics'[m].deadline = metrics[m].deadline
              /\ metrics'[m].tooSlow = metrics[m].tooSlow
              /\ left'[m] \in Nat
              /\ metrics[m].deadline => left'[m] = 0 \/ left'[m] + d <= left[m]
         /\ used'[n] = used[n] + d
         /\ metrics'[n].last = ReachedLimit(n, slip)
         /\ o # "broken" => metrics'[n].calls = metrics[n].calls + 1
<1>1. TypeOK /\ d \in Nat /\ slip \in Nat
  BY BudgetConstants DEF IInv
<1>2. /\ metrics \in [Mechanisms -> Metrics] /\ left \in [Mechanisms -> Nat]
      /\ used \in [Mechanisms -> Nat] /\ item \in Tests \cup {NoTest}
  BY <1>1 DEF TypeOK
<1>3. /\ item # NoTest /\ metrics[n].deadline /\ ~metrics[n].last
      /\ n = "retrier" => item \notin rescued
  BY DEF Rerun, WantsAnother
<1>4. ReachedLimit(n, slip) \in BOOLEAN
  BY DEF ReachedLimit
<1>5. metrics[n] \in Metrics
  BY <1>2
<1> DEFINE c == IF o = "broken" THEN metrics[n].calls ELSE metrics[n].calls + 1
           r == ReachedLimit(n, slip)
<1>6. c \in Nat
  BY <1>5 DEF Metrics
<1>7. metrics' = [metrics EXCEPT ![n].last = r, ![n].calls = c]
  BY <1>2, <1>5 DEF Rerun, Metrics
<1>8. r \in BOOLEAN
  BY <1>4
<1> HIDE DEF c, r
<1>9. /\ metrics'[n] = [metrics[n] EXCEPT !.last = r, !.calls = c]
      /\ \A m \in Mechanisms : m # n => metrics'[m] = metrics[m]
      /\ metrics' = [m \in Mechanisms |-> metrics'[m]]
  BY <1>2, <1>5, <1>7 DEF Metrics
<1>10. /\ metrics'[n] \in Metrics
       /\ metrics'[n].kept = metrics[n].kept /\ metrics'[n].initial = metrics[n].initial
       /\ metrics'[n].deadline = metrics[n].deadline /\ metrics'[n].tooSlow = metrics[n].tooSlow
       /\ metrics'[n].last = r /\ metrics'[n].calls = c
  BY <1>5, <1>6, <1>8, <1>9 DEF Metrics
<1>11. metrics' \in [Mechanisms -> Metrics]
  BY <1>2, <1>9, <1>10
<1>12. used'[n] = used[n] + d /\ \A m \in Mechanisms : m # n => used'[m] = used[m]
  BY <1>2 DEF Rerun
<1>13. ASSUME NEW m \in Mechanisms
       PROVE  left'[m] \in Nat /\ (metrics[m].deadline => left'[m] = 0 \/ left'[m] + d <= left[m])
  BY <1>1, <1>2 DEF Rerun
<1> QED BY <1>2, <1>3, <1>9, <1>10, <1>11, <1>12, <1>13 DEF r, c

LEMMA RerunTyped ==
  ASSUME IInv, NEW n \in Mechanisms, NEW o \in Outcomes, NEW d \in Durations,
         NEW slip \in Slips, Rerun(n, o, d, slip)
  PROVE  TypeOK'
<1>1. TypeOK /\ d \in Nat
  BY BudgetConstants DEF IInv
<1>2. UNCHANGED <<planned, todo, item, processed, failedInitially>>
  BY DEF Rerun
<1>3. metrics' \in [Mechanisms -> Metrics] /\ left' \in [Mechanisms -> Nat]
  <2>1. left' = [m \in Mechanisms |-> left'[m]]
    BY DEF Rerun
  <2> QED BY <2>1, RerunFacts
<1>4. used' \in [Mechanisms -> Nat]
  BY <1>1 DEF Rerun, TypeOK
<1>5. rescued' \subseteq failedInitially'
  BY <1>1, <1>2 DEF Rerun, TypeOK
<1>6. exhausted' \subseteq failedInitially'
  <2>1. NotesShortfall(n, slip) => item \in failedInitially
    <3>1. NotesShortfall(n, slip) => n = "retrier"
      BY DEF NotesShortfall
    <3> QED BY <3>1, RerunFacts DEF IInv, Owned
  <2> QED BY <2>1, <1>1, <1>2 DEF Rerun, TypeOK
<1>7. broke' \in BOOLEAN /\ late' \in BOOLEAN /\ paid' \subseteq Mechanisms
  BY <1>1 DEF Rerun, TypeOK
<1> QED BY <1>1, <1>2, <1>3, <1>4, <1>5, <1>6, <1>7 DEF TypeOK, planned

LEMMA RerunStep ==
  ASSUME IInv, NEW n \in Mechanisms, NEW o \in Outcomes, NEW d \in Durations,
         NEW slip \in Slips, Rerun(n, o, d, slip)
  PROVE  IInv'
<1>1. TypeOK /\ TypeOK' /\ d \in Nat
  BY RerunTyped, BudgetConstants DEF IInv
<1>2. UNCHANGED <<planned, todo, item, processed, failedInitially>>
  BY DEF Rerun
<1>3. /\ run' = run /\ context' = context /\ Detected' = Detected /\ Eligible' = Eligible
      /\ \A m \in Mechanisms : Targets(m)' = Targets(m) /\ Budget(m)' = Budget(m)
  BY <1>2, PlanStands
<1>4. Owned'
  <2>1. paid' = paid \cup {n} /\ "retrier" \in Mechanisms
    BY DEF Rerun, Mechanisms
  <2> QED BY <2>1, <1>2, <1>3, RerunFacts DEF IInv, Owned
<1>5. ASSUME NEW m \in Mechanisms PROVE Afforded(m)'
  <2> SUFFICES ASSUME metrics[m].deadline
               PROVE  /\ ~run.worker => left'[m] = 0 \/ left'[m] + used'[m] <= Budget(m)
                      /\ run.worker /\ m = "detector" =>
                           left'[m] <= Budget(m) \div Cardinality(Detected)
    BY <1>3, RerunFacts DEF Afforded
  <2>1. /\ left[m] \in Nat /\ left'[m] \in Nat /\ used[m] \in Nat
        /\ left'[m] = 0 \/ left'[m] + d <= left[m]
        /\ used'[m] = used[m] \/ used'[m] = used[m] + d
    BY <1>1, RerunFacts DEF TypeOK
  <2>2. /\ ~run.worker => left[m] = 0 \/ left[m] + used[m] <= Budget(m)
        /\ run.worker /\ m = "detector" => left[m] <= Budget(m) \div Cardinality(Detected)
    BY DEF IInv, Afforded
  <2>3. Budget(m) \in Nat
    BY <1>1, BudgetTyped
  <2>4. ASSUME ~run.worker PROVE left'[m] = 0 \/ left'[m] + used'[m] <= Budget(m)
    BY <2>1, <2>2, <2>3, <2>4, <1>1
  <2>5. ASSUME run.worker, m = "detector"
        PROVE  left'[m] <= Budget(m) \div Cardinality(Detected)
    <3>1. left'[m] <= left[m]
      BY <2>1, <1>1
    <3>2. Detected # {}
      <4>1. item \in Targets("detector")
        BY <2>5 DEF IInv, Owned
      <4> QED BY <4>1, <1>1, Plans
    <3>3. Cardinality(Detected) \in Nat \ {0}
      BY <1>1, <3>2, Plans, SizeTyped, FS_EmptySet
    <3>4. Budget(m) \div Cardinality(Detected) \in Nat
      BY <2>3, <3>3, DivTyped
    <3> QED BY <3>1, <3>4, <2>1, <2>2, <2>5
  <2> QED BY <2>4, <2>5
<1>6. SharesAreOfTargets'
  BY <1>2, <1>3 DEF IInv, SharesAreOfTargets
<1>7. Accounted'
  <2> SUFFICES ASSUME item \in failedInitially, item \in Targets("retrier") \ run.tooLong
               PROVE  /\ metrics'["retrier"].deadline
                      /\ metrics'["retrier"].tooSlow => item \in exhausted'
                      /\ metrics'["retrier"].last =>
                           \/ item \in rescued' \cup exhausted' \/ broke' \/ late'
                           \/ metrics'["retrier"].calls >= context.max
    BY <1>2, <1>3 DEF Accounted, Mechanisms
  <2>1. /\ metrics["retrier"].deadline
        /\ metrics["retrier"].tooSlow => item \in exhausted
    BY DEF IInv, Accounted
  <2>2. exhausted \subseteq exhausted' /\ "retrier" \in Mechanisms
    BY DEF Rerun, Mechanisms
  <2>3. n = "retrier"
    <3>1. item \in Targets(n)
      BY RerunFacts DEF IInv, Owned
    <3> QED BY <3>1, <1>1, Plans DEF Mechanisms
  <2>4. ASSUME metrics'["retrier"].last
        PROVE  \/ item \in exhausted' \/ broke' \/ late'
               \/ metrics'["retrier"].calls >= context.max
    <3>1. ReachedLimit("retrier", slip) /\ item \notin rescued
      BY <2>3, <2>4, RerunFacts
    <3>2. CASE WillExceedDeadline("retrier", 0)
      <4>1. NotesShortfall("retrier", slip)
        BY <3>1, <3>2 DEF NotesShortfall
      <4> QED BY <4>1, <2>3 DEF Rerun
    <3>3. CASE WillExceedDeadline("retrier", slip) /\ ~WillExceedDeadline("retrier", 0)
      BY <3>3, <2>3 DEF Rerun
    <3>4. CASE ~WillExceedDeadline("retrier", slip)
      <4>1. metrics["retrier"].calls + 1 >= context.max
        BY <3>1, <3>4 DEF ReachedLimit
      <4>2. o = "broken" => broke'
        BY <2>3 DEF Rerun
      <4> QED BY <4>1, <4>2, <2>3, RerunFacts
    <3> QED BY <3>2, <3>3, <3>4
  <2> QED BY <2>1, <2>2, <2>4, RerunFacts
<1> QED BY <1>1, <1>4, <1>5, <1>6, <1>7 DEF IInv

LEMMA FinishStep == IInv /\ FinishTest => IInv'
<1> SUFFICES ASSUME IInv, FinishTest PROVE IInv'
  OBVIOUS
<1>1. /\ UNCHANGED <<planned, todo, spent, retry>> /\ item' = NoTest /\ paid' = {}
      /\ late' = FALSE
      /\ metrics' = [m \in Mechanisms |-> NoMetrics] /\ left' = [m \in Mechanisms |-> 0]
  BY DEF FinishTest
<1>2. TypeOK'
  <2>1. NoMetrics \in Metrics
    BY DEF NoMetrics, Metrics
  <2> QED BY <1>1, <2>1 DEF IInv, TypeOK, planned, spent, retry
<1>3. /\ run' = run /\ context' = context /\ Detected' = Detected /\ Eligible' = Eligible
      /\ \A m \in Mechanisms : Targets(m)' = Targets(m) /\ Budget(m)' = Budget(m)
  BY <1>1, PlanStands
<1>4. \A m \in Mechanisms : ~metrics'[m].kept /\ ~metrics'[m].deadline
  BY <1>1 DEF NoMetrics
<1>5. Owned'
  BY <1>1, <1>3, <1>4 DEF IInv, Owned, retry, Mechanisms
<1>6. \A m \in Mechanisms : Afforded(m)'
  BY <1>4 DEF Afforded
<1>7. SharesAreOfTargets'
  BY <1>1, <1>3 DEF IInv, SharesAreOfTargets, spent
<1>8. Accounted'
  <2>1. NoTest \notin failedInitially'
    BY <1>2, BudgetConstants DEF TypeOK
  <2> QED BY <1>1, <2>1 DEF Accounted
<1> QED BY <1>2, <1>5, <1>6, <1>7, <1>8 DEF IInv

LEMMA NextIInv == IInv /\ [Next]_vars => IInv'
<1> SUFFICES ASSUME IInv, [Next]_vars PROVE IInv'
  OBVIOUS
<1>1. ASSUME UNCHANGED vars PROVE IInv'
  <2>1. UNCHANGED <<planned, todo, item, metrics, left, used, processed, failedInitially,
                    rescued, exhausted, broke, paid, late>>
    BY <1>1 DEF vars, spent, retry
  <2>2. /\ run' = run /\ context' = context /\ Detected' = Detected /\ Eligible' = Eligible
        /\ \A m \in Mechanisms : Targets(m)' = Targets(m) /\ Budget(m)' = Budget(m)
    BY <2>1, PlanStands
  <2>3. TypeOK'
    BY <2>1, <2>2 DEF IInv, TypeOK
  <2>4. Owned'
    BY <2>1, <2>2 DEF IInv, Owned
  <2>5. SharesAreOfTargets'
    BY <2>1, <2>2 DEF IInv, SharesAreOfTargets
  <2>6. Accounted'
    BY <2>1, <2>2 DEF IInv, Accounted, Mechanisms
  <2>7. \A m \in Mechanisms : Afforded(m)'
    BY <2>1, <2>2 DEF IInv, Afforded
  <2> QED BY <2>3, <2>4, <2>5, <2>6, <2>7 DEF IInv
<1>2. CASE Over
  BY <1>1, <1>2 DEF Over
<1> QED
  BY <1>1, <1>2, FirstAttemptStep, RerunStep, FinishStep DEF Next

LEMMA Invariance == Spec => []IInv
BY InitIInv, NextIInv, PTL DEF Spec

-----------------------------------------------------------------------------
(* The theorems.                                                           *)

\* What both mechanisms keep of a test is what they may keep, and only a failure
\* retry answers for is rescued or noted (rerun.py, test_retry.py).
THEOREM Types == Spec => []TypeOK
<1>1. IInv => TypeOK
  BY DEF IInv
<1> QED BY <1>1, Invariance, PTL

\* Whatever the server says, no test is rerun by both mechanisms, and what
\* detection reruns costs retry nothing (retry_plan).
THEOREM OneMechanismPays == Spec => []NobodyPaysTwice
<1>1. ASSUME IInv PROVE NobodyPaysTwice
  <2>1. TypeOK /\ Targets("detector") = Detected /\ Targets("retrier") = Eligible \ Detected
    BY <1>1, Plans DEF IInv
  <2>2. \A m \in paid : m \in Mechanisms /\ metrics[m].deadline /\ item \in Targets(m)
    BY <1>1, <2>1 DEF IInv, Owned, TypeOK
  <2>3. ASSUME "retrier" \in paid PROVE item \in failedInitially \ Detected
    BY <1>1, <2>1, <2>2, <2>3 DEF IInv, Owned
  <2>4. paid = {} \/ \E m \in Mechanisms : paid = {m}
    <3>1. ~("detector" \in paid /\ "retrier" \in paid)
      BY <2>1, <2>2
    <3>2. paid \subseteq {"detector", "retrier"}
      BY <2>1 DEF TypeOK, Mechanisms
    <3> QED BY <3>1, <3>2 DEF Mechanisms
  <2>5. Cardinality(paid) <= 1
    <3>1. CASE paid = {}
      <4>1. Cardinality(paid) = 0
        BY <3>1, FS_EmptySet
      <4> QED BY <4>1
    <3>2. ASSUME NEW m \in Mechanisms, paid = {m} PROVE Cardinality(paid) <= 1
      <4>1. Cardinality(paid) = 1
        BY <3>2, FS_Singleton
      <4> QED BY <4>1
    <3> QED BY <2>4, <3>1, <3>2
  <2> QED BY <2>3, <2>5 DEF NobodyPaysTwice
<1> QED BY <1>1, Invariance, PTL

\* However a test came to be both new and known to be flaky, its first failure
\* stands (retry_plan's detection_gates_failures).
THEOREM TheGateStands == Spec => []GateStands
<1>1. IInv => GateStands
  BY Plans DEF IInv, Owned, TypeOK, GateStands
<1> QED BY <1>1, Invariance, PTL

\* Retry gives up on a failure in silence on one path only: when the deadline passes
\* between the two looks _reached_rerun_limit takes at the clock
\* (decide_test_is_too_slow, _reached_rerun_limit).
THEOREM EveryShortfallIsSaid == Spec => []ShortfallIsSaid
<1>1. ASSUME IInv PROVE ShortfallIsSaid
  <2> SUFFICES ASSUME item \in failedInitially \cap (Targets("retrier") \ run.tooLong),
                      \A m \in Mechanisms : ~WantsAnother(m),
                      item \notin rescued, ~broke, metrics["retrier"].calls < context.max
               PROVE  item \in exhausted \/ late
    BY DEF ShortfallIsSaid
  <2>1. /\ metrics["retrier"].deadline
        /\ metrics["retrier"].tooSlow => item \in exhausted
        /\ metrics["retrier"].last =>
             item \in exhausted \/ late \/ metrics["retrier"].calls >= context.max
    BY <1>1 DEF IInv, Accounted
  <2>2. metrics["retrier"].tooSlow \/ metrics["retrier"].last
    <3>1. item # NoTest
      BY <1>1, BudgetConstants DEF IInv, TypeOK
    <3> QED BY <3>1, <2>1 DEF WantsAnother, Mechanisms
  <2>3. metrics["retrier"].calls \in Nat /\ context.max \in Nat
    BY <1>1, BudgetConstants DEF IInv, TypeOK, Metrics, Mechanisms, Context
  <2> QED BY <2>1, <2>2, <2>3
<1> QED BY <1>1, Invariance, PTL

\* No rerun but a loop's last starts without room in the budget for a run as long
\* as the test's first (flag_last_rerun, with dynamic_share_ms and static_share_ms).
THEOREM TheBudgetBinds == Spec => BudgetBinds
<1> DEFINE Binds ==
      \A m \in Mechanisms :
        Reran(m) /\ ~metrics'[m].last =>
          IF run.worker THEN m = "detector" => metrics[m].initial * Cardinality(Detected) < Budget(m)
          ELSE used[m] + metrics[m].initial < Budget(m)
<1>1. ASSUME IInv, IInv', [Next]_vars PROVE Binds
  <2> SUFFICES ASSUME NEW m \in Mechanisms, Reran(m), ~metrics'[m].last
               PROVE  IF run.worker
                      THEN m = "detector" => metrics[m].initial * Cardinality(Detected) < Budget(m)
                      ELSE used[m] + metrics[m].initial < Budget(m)
    OBVIOUS
  <2>1. PICK n \in Mechanisms, o \in Outcomes, d \in Durations, slip \in Slips :
               Rerun(n, o, d, slip)
    <3>1. item # NoTest /\ item' = item /\ used'[m] > used[m]
      BY DEF Reran
    <3>2. used[m] \in Nat
      BY <1>1 DEF IInv, TypeOK
    <3>3. ~UNCHANGED used
      BY <3>1, <3>2
    <3> QED BY <1>1, <3>1, <3>3 DEF Next, FirstAttempt, FinishTest, Over, vars, spent
  <2>2. used[m] \in Nat /\ left[m] \in Nat /\ metrics[m].initial \in Nat
        /\ slip \in Nat
    BY <1>1, BudgetConstants DEF IInv, TypeOK, Metrics
  <2>3. n = m
    BY <1>1, <2>1, <2>2, RerunFacts DEF Reran
  <2>4. metrics[m].deadline /\ left[m] > metrics[m].initial
    <3>1. metrics[m].deadline /\ ~ReachedLimit(m, slip)
      BY <1>1, <2>1, <2>3, RerunFacts
    <3> QED BY <3>1, <2>2 DEF ReachedLimit, WillExceedDeadline
  <2>5. Budget(m) \in Nat
    BY <1>1, BudgetTyped DEF IInv
  <2>6. ASSUME ~run.worker PROVE used[m] + metrics[m].initial < Budget(m)
    <3>1. left[m] = 0 \/ left[m] + used[m] <= Budget(m)
      BY <1>1, <2>4, <2>6 DEF IInv, Afforded
    <3> QED BY <3>1, <2>2, <2>4, <2>5
  <2>7. ASSUME run.worker, m = "detector"
        PROVE  metrics[m].initial * Cardinality(Detected) < Budget(m)
    <3>1. left[m] <= Budget(m) \div Cardinality(Detected)
      BY <1>1, <2>4, <2>7 DEF IInv, Afforded
    <3>2. Cardinality(Detected) \in Nat \ {0}
      <4>1. item \in Detected
        BY <1>1, <2>4, <2>7, Plans DEF IInv, Owned
      <4> QED BY <4>1, <1>1, Plans, SizeTyped, FS_EmptySet DEF IInv
    <3>3. metrics[m].initial < Budget(m) \div Cardinality(Detected)
      BY <3>1, <3>2, <2>2, <2>4, <2>5, DivTyped
    <3> QED BY <3>2, <3>3, <2>2, <2>5, BelowShare
  <2> QED BY <2>6, <2>7
<1>2. IInv /\ IInv' /\ [Next]_vars => [Binds]_vars
  BY <1>1
<1> QED BY <1>2, Invariance, PTL DEF Spec, BudgetBinds

\* The order of the tests starves none of them: as long as those before a test
\* used no more than an equal part each, it is given one (dynamic_share_ms).
THEOREM AnEqualPartIsLeft == Spec => NobodyIsStarved
<1> DEFINE Fair ==
      \A t \in todo :
        /\ item' = t /\ metrics'["detector"].deadline /\ ~run.worker /\ run.timeout = 0
        /\ used["detector"] * Cardinality(Detected) <= processed["detector"] * Budget("detector")
        => left'["detector"] >= Budget("detector") \div Cardinality(Detected)
<1>1. ASSUME IInv, IInv', [Next]_vars PROVE Fair
  <2> SUFFICES ASSUME NEW t \in todo,
                      item' = t, metrics'["detector"].deadline, ~run.worker, run.timeout = 0,
                      used["detector"] * Cardinality(Detected)
                        <= processed["detector"] * Budget("detector")
               PROVE  left'["detector"] >= Budget("detector") \div Cardinality(Detected)
    OBVIOUS
  <2>1. /\ TypeOK /\ t \in Tests /\ "detector" \in Mechanisms
        /\ Detected \subseteq Tests /\ Targets("detector") = Detected
    BY <1>1, Plans DEF IInv, TypeOK, Mechanisms
  <2>2. PICK o \in Outcomes, d \in Durations : FirstAttempt(t, o, d)
    <3>1. t # NoTest /\ item # t
      BY <2>1, BudgetConstants DEF TypeOK
    <3>2. item' # item /\ item' # NoTest
      BY <3>1
    <3>3. ~UNCHANGED vars /\ ~FinishTest
      BY <3>2 DEF vars, FinishTest
    <3>4. ~\E m \in Mechanisms, o \in Outcomes, d \in Durations, slip \in Slips :
             Rerun(m, o, d, slip)
      BY <3>2 DEF Rerun
    <3>5. PICK s \in Tests, o \in Outcomes, d \in Durations : FirstAttempt(s, o, d)
      BY <1>1, <3>3, <3>4 DEF Next, Over
    <3>6. s = t
      BY <3>5 DEF FirstAttempt
    <3> QED BY <3>5, <3>6
  <2>3. t \in Detected /\ left'["detector"] = TimeGiven("detector", failedInitially')
    BY <1>1, <2>1, <2>2, FirstAttemptFacts
  <2> DEFINE b == Budget("detector")
             u == used["detector"]
             p == processed["detector"]
             n == Cardinality(Detected)
  <2>4. b \in Nat /\ u \in Nat /\ p \in Nat
    BY <2>1, BudgetTyped DEF TypeOK
  <2>5. n \in Nat \ {0} /\ p < n
    <3>1. /\ IsFiniteSet(Detected) /\ n \in Nat /\ Cardinality(Detected \ todo) \in Nat
      BY <2>1, SizeTyped
    <3>2. Detected \ todo \subseteq Detected /\ Detected \ todo # Detected
      BY <2>3
    <3>3. Cardinality(Detected \ todo) < n
      BY <3>1, <3>2, FS_Subset
    <3> QED BY <1>1, <2>4, <3>1, <3>3 DEF IInv, SharesAreOfTargets
  <2>6. SharingBudget("detector", failedInitially') = n
    BY <2>1 DEF SharingBudget
  <2>7. Share("detector", failedInitially') = DynamicShare(b, u, n, p)
    BY <2>5, <2>6 DEF Share, AtLeast
  <2>8. left'["detector"] = DynamicShare(b, u, n, p)
    BY <2>1, <2>3, <2>4, <2>5, <2>7, WithinWhatIsLeft, BeforeTimeoutBounds DEF TimeGiven
  <2>9. b \div n <= DynamicShare(b, u, n, p)
    BY <2>4, <2>5, AtLeastAnEqualPart
  <2>10. b \div n \in Nat /\ DynamicShare(b, u, n, p) \in Nat
    BY <2>4, <2>5, DivTyped, WithinWhatIsLeft
  <2> HIDE DEF b, n
  <2>11. left'["detector"] >= b \div n
    BY <2>8, <2>9, <2>10
  <2> QED BY <2>11 DEF b, n
<1>2. IInv /\ IInv' /\ [Next]_vars => [Fair]_vars
  BY <1>1
<1> QED BY <1>2, Invariance, PTL DEF Spec, NobodyIsStarved
=============================================================================
