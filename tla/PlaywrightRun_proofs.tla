------------------------ MODULE PlaywrightRun_proofs ------------------------
(***************************************************************************)
(* The safety properties of PlaywrightRun, for every suite, sharding and   *)
(* answer.  The inductive invariant has four parts: the types, what the    *)
(* decision of preprocess says of the suite, what the attempts say of      *)
(* expectations and outcomes, and what onEnd computed from them.           *)
(***************************************************************************)
EXTENDS PlaywrightRun, TsVerdict_proofs

Deciding ==
  \/ DoesNotAsk \/ SliceUnavailable \/ ShardingTaken
  \/ \E mine, missed \in SUBSET Collectable : AsksNothing(mine, missed)
  \/ \E mine, missed \in SUBSET Collectable, response \in Answers :
       AsksForSelection(mine, response, missed)

\* Asking and attempting, as the steps they come down to.
LEMMA StepCases ==
  ASSUME [Next]_vars
  PROVE  \/ \E list, flaky \in {"answered", "dormant", "threw"}, names \in Quarantines,
              context \in Contexts, shape \in Shapes : GlobalSetup(list, names, flaky, context, shape)
         \/ Deciding
         \/ \E readable \in BOOLEAN : OnBegin(readable)
         \/ \E c \in Cases, how \in Statuses, reached \in BOOLEAN :
              \E declared \in Declares[c] : Attempt(c, declared, how, reached)
         \/ \E why \in Halting : Halts(why)
         \/ RunError
         \/ \E how \in Receiving, duration \in Durations, lines \in [Measured -> Leaves] :
              RunEnd(how, duration, lines)
         \/ UNCHANGED vars
  BY DEF Next, Prepares, Runs, Ends, Ended, Deciding

-----------------------------------------------------------------------------
(* Types of what the operators return.                                     *)

\* The context that stands for none is typed like one.
LEMMA NoContextType == F!NoContext \in F!FlakyContexts
  BY DEF F!NoContext, F!FlakyContexts

\* The identities of a set of cases are tests.
LEMMA NamesType == \A C \in SUBSET Cases : NamesOf(C) \in SUBSET Tests
  BY PlaywrightConstants DEF NamesOf

\* Sets of tests are counted by naturals.
LEMMA CountType == \A S \in SUBSET Tests : Cardinality(S) \in Nat
  BY PlaywrightConstants, FS_Subset, FS_CardinalityType

\* A reader of the state file holds a context that was written to it, or none.
LEMMA StateRead ==
  ASSUME TypeOK, NEW readable
  PROVE  ReadStateFile(readable).flaky \in Contexts \cup {F!NoContext}
  BY DEF TypeOK, ReadStateFile, NoState

\* Metrics put together from their parts.
LEMMA MetricsRecord ==
  ASSUME NEW O \in SUBSET {"pass", "fail"}, NEW n \in Nat, NEW slow \in BOOLEAN
  PROVE  [outcomes |-> O, attempts |-> n, tooSlow |-> slow] \in F!Metrics
  BY DEF F!Metrics

\* What the lines of a rerun add to the metrics of a test keeps their type.
LEMMA RecordedType ==
  ASSUME NEW t, phase1[t] \in {"none", "pass", "fail"}, NEW lines \in Leaves
  PROVE  Recorded(t, lines) \in F!Metrics
<1>1. PICK n \in 0..RerunLines : lines \in [1..n -> {"passed", "failed", "timedOut", "skipped"}]
  BY DEF Leaves
<1>2. Cardinality(Telling(lines)) \in Nat
  <2>1. n \in Nat /\ Telling(lines) \subseteq 1..n
    BY <1>1, PlaywrightConstants DEF Telling
  <2>2. IsFiniteSet(1..n)
    BY <2>1, FS_Interval
  <2> QED
    BY <2>1, <2>2, FS_Subset, FS_CardinalityType
<1> DEFINE first == IF phase1[t] = "none" THEN F!NoMetrics
                    ELSE F!RecordOutcome(F!NoMetrics, phase1[t])
           said == {PassOrFail(lines[i]) : i \in Telling(lines)}
<1>3. first \in F!Metrics
  <2>1. F!NoMetrics \in F!Metrics
    BY DEF F!NoMetrics, F!Metrics
  <2>2. ASSUME NEW o \in {"pass", "fail"} PROVE F!RecordOutcome(F!NoMetrics, o) \in F!Metrics
    <3>1. F!RecordOutcome(F!NoMetrics, o) =
            [F!NoMetrics EXCEPT !.outcomes = @ \cup {o}, !.attempts = @ + 1]
      BY DEF F!RecordOutcome
    <3>3. F!NoMetrics = [outcomes |-> {}, attempts |-> 0, tooSlow |-> FALSE]
      BY DEF F!NoMetrics
    <3>4. F!RecordOutcome(F!NoMetrics, o) =
            [outcomes |-> {} \cup {o}, attempts |-> 0 + 1, tooSlow |-> FALSE]
      BY <3>1, <3>3, Zenon
    <3>2. {} \cup {o} \in SUBSET {"pass", "fail"} /\ 0 + 1 \in Nat /\ FALSE \in BOOLEAN
      OBVIOUS
    <3> QED
      BY <3>4, <3>2, MetricsRecord
  <2>3. CASE phase1[t] = "none"
    BY <2>1, <2>3
  <2>4. CASE phase1[t] \in {"pass", "fail"}
    BY <2>2, <2>4
  <2> QED
    BY <2>3, <2>4
<1>4. said \in SUBSET {"pass", "fail"}
  BY DEF PassOrFail
<1>5. Recorded(t, lines) = [first EXCEPT !.outcomes = @ \cup said,
                                         !.attempts = @ + Cardinality(Telling(lines))]
  BY DEF Recorded
<1> DEFINE card == Cardinality(Telling(lines))
<1> HIDE DEF first, said, card
<1>6. Recorded(t, lines) = [outcomes |-> first.outcomes \cup said,
                            attempts |-> first.attempts + card, tooSlow |-> first.tooSlow]
  BY <1>3, <1>5 DEF card, F!Metrics
<1>7. card \in Nat
  BY <1>2 DEF card
<1>8. /\ first.outcomes \in SUBSET {"pass", "fail"}
      /\ first.attempts \in Nat /\ first.tooSlow \in BOOLEAN
  BY <1>3 DEF F!Metrics
<1>9. first.outcomes \cup said \in SUBSET {"pass", "fail"}
  BY <1>4, <1>8
<1>10. first.attempts + card \in Nat
  BY <1>7, <1>8
<1> QED
  BY <1>6, <1>8, <1>9, <1>10, MetricsRecord

\* No line at all is among what a rerun may leave.
LEMMA NoLinesType == <<>> \in Leaves
<1>1. 0 \in 0..RerunLines /\ 1..0 = {}
  <2>1. RerunLines \in Nat
    BY PlaywrightConstants
  <2> QED
    BY <2>1
<1>2. <<>> \in [1..0 -> {"passed", "failed", "timedOut", "skipped"}]
  BY <1>1
<1> QED
  BY <1>1, <1>2 DEF Leaves

-----------------------------------------------------------------------------
(* The invariant.                                                          *)

\* The types, by who writes the variables.
SetupTypes ==
  /\ env \in Environments
  /\ phase \in {"setup", "loading", "loaded", "running", "ended"}
  /\ stateFile \in [shape : Shapes, quarantined : Quarantines \cup {{}},
                    flaky : Contexts \cup {F!NoContext}]
DecisionTypes ==
  /\ selection \in TestSelection /\ application \in Applications
  /\ collection \in [asked : BOOLEAN, ids : SUBSET Tests]
  /\ excluded \subseteq Collectable /\ sharding \in {"playwright", "reporter"}
  /\ kept \in {Everything} \cup SUBSET Tests
BegunTypes == suite \subseteq Cases /\ detector \in Contexts \cup {F!NoContext}
AttemptTypes ==
  /\ results \in [Cases -> Seq(Statuses)] /\ \A c \in Cases : Len(results[c]) <= Retries[c] + 1
  /\ expected \in [Cases -> AttemptStatus] /\ annotated \subseteq suite
  /\ caught \subseteq Tests /\ phase1 \in [Tests -> {"none", "pass", "fail"}]
  /\ witnessed \in [Tests -> SUBSET {"pass", "fail"}]
TroubleTypes ==
  /\ runErrors \subseteq {"no tests found", "other"}
  /\ halted \in {"no", "interrupted", "timedout", "maxFailures"}
EndTypes ==
  /\ metrics \in [Tests -> F!Metrics]
  /\ final \in [Tests -> Status] /\ receipt \in Results
  /\ reported \in {"none", "passed", "failed", "interrupted", "timedout"}
  /\ status \in {"none", "passed", "failed", "interrupted", "timedout"}

\* Nothing was decided before preprocess, and nothing ran before onBegin.
Undecided ==
  phase \in {"setup", "loading"} =>
    /\ selection = NoSelection /\ application = NoApplication /\ collection = NotAsked
    /\ excluded = {} /\ sharding = "playwright" /\ kept = Everything
Unbegun ==
  phase \in {"setup", "loading", "loaded"} =>
    suite = {} /\ annotated = {} /\ \A c \in Cases : results[c] = <<>>

\* From onBegin on, the suite is what preprocess left of it.
SuiteIsLeft == phase \in {"running", "ended"} => suite = SuiteLeft

\* Once an answer is in force, nothing but this run's share is in its suite,
\* beside the readonly cases.
WithinShare == application.outcome # "full" => SuiteLeft \ Readonly \subseteq env.share

\* A case of this run's share is missing only if the answer leaves it out, and
\* an answer in force leaves in only what it keeps.
LeftOutByAnswer == \A c \in env.share \ SuiteLeft : kept # Everything /\ NameOf[c] \notin kept
KeptByAnswer ==
  application.outcome # "full" =>
    /\ selection # NoSelection /\ kept = application.keep
    /\ \A c \in SuiteLeft \ Readonly : NameOf[c] \in kept

\* A selection held is one the run met its whole share with.
Applied ==
  selection # NoSelection =>
    \/ /\ collection.asked /\ application = ApplyToCollected(selection, NamesOf(env.share))
       /\ \E response \in Answers : selection = FetchTestSelection(response)
    \/ application.outcome = "full" /\ selection = FullRun("shard_slice_unavailable")
AppliedOrNothing ==
  selection # NoSelection /\ application.outcome = "full" => kept = Everything

DecisionInv == Undecided /\ Unbegun /\ SuiteIsLeft /\ WithinShare /\ LeftOutByAnswer
               /\ KeptByAnswer /\ Applied /\ AppliedOrNothing

\* What onEnd computed is of the state it left alone.
EndInv ==
  IF phase = "ended"
  THEN /\ block = ReportTestSelection /\ final = FoldVerdict
       /\ receipt.sent => collection.asked /\ verdict = BuildSessionVerdict(Cardinality(collection.ids), final, echo)
  ELSE block = NoBlock /\ ~receipt.sent

IInv == TypeOK /\ DecisionInv /\ EndInv

\* The parts make up the whole.
LEMMA TypeParts ==
  TypeOK <=> SetupTypes /\ DecisionTypes /\ BegunTypes /\ AttemptTypes /\ TroubleTypes /\ EndTypes
  BY DEF TypeOK, SetupTypes, DecisionTypes, BegunTypes, AttemptTypes, TroubleTypes, EndTypes

\* So they do in the next state.
LEMMA NextTypeParts ==
  ASSUME (SetupTypes /\ DecisionTypes /\ BegunTypes /\ AttemptTypes /\ TroubleTypes /\ EndTypes)'
  PROVE  TypeOK'
  BY DEF TypeOK, SetupTypes, DecisionTypes, BegunTypes, AttemptTypes, TroubleTypes, EndTypes

-----------------------------------------------------------------------------
(* The types hold at first, and after every step.                          *)

\* The initial values have their types.
LEMMA TypesInit == ASSUME Init PROVE TypeOK
<1>1. NoSelection \in TestSelection
  BY DEF NoSelection, FullRun, TestSelection, Selections, Reasons, NotAppliedReasons
<1>2. NoApplication \in Applications
  BY DEF NoApplication, Application, Applications, Outcomes, NotAppliedReasons
<1>3. NothingRecorded \in [Tests -> Status] /\ NotSent \in Results
  BY DEF NothingRecorded, Status, NotSent, Results
<1>4. F!NoMetrics \in F!Metrics
  BY DEF F!NoMetrics, F!Metrics
<1>5. \A c \in Cases : Retries[c] \in Nat
  BY PlaywrightConstants
<1>6. results \in [Cases -> Seq(Statuses)] /\ \A c \in Cases : Len(results[c]) <= Retries[c] + 1
  BY <1>5 DEF Init
<1>7. metrics \in [Tests -> F!Metrics] /\ final \in [Tests -> Status] /\ receipt \in Results
  BY <1>3, <1>4 DEF Init
<1> QED
  BY <1>1, <1>2, <1>6, <1>7 DEF Init, TypeOK, Shapes, NotAsked, AttemptStatus

\* The global setup writes nothing but the state file.
LEMMA GlobalSetupTypes ==
  ASSUME TypeOK, NEW list, NEW names \in Quarantines, NEW flaky, NEW context \in Contexts,
         NEW shape \in Shapes, GlobalSetup(list, names, flaky, context, shape)
  PROVE  TypeOK'
<1>1. F!FetchQuarantineList(list, names) \in Quarantines \cup {{}}
      /\ F!FetchFlakyContext(flaky, context) \in Contexts \cup {F!NoContext}
  BY DEF F!FetchQuarantineList, F!FetchFlakyContext
<1>2. SetupTypes'
  BY <1>1, TypeParts DEF SetupTypes, GlobalSetup
<1>3. (DecisionTypes /\ BegunTypes /\ AttemptTypes /\ TroubleTypes /\ EndTypes)'
  BY TypeParts DEF GlobalSetup, decision, begun, attempts, trouble, ending,
     DecisionTypes, BegunTypes, AttemptTypes, TroubleTypes, EndTypes
<1> QED
  BY <1>2, <1>3, NextTypeParts

\* A step of preprocess writes the decision and nothing else.
LEMMA PreprocessedTypes ==
  ASSUME TypeOK, Preprocessed, DecisionTypes' PROVE TypeOK'
<1>1. SetupTypes'
  BY TypeParts DEF SetupTypes, Preprocessed
<1>2. (BegunTypes /\ AttemptTypes /\ TroubleTypes /\ EndTypes)'
  BY TypeParts DEF Preprocessed, begun, attempts, trouble, ending,
     BegunTypes, AttemptTypes, TroubleTypes, EndTypes
<1> QED
  BY <1>1, <1>2, NextTypeParts

\* Each way preprocess may end keeps the types, and is a step of it.
LEMMA DecidingTypes == ASSUME TypeOK, Deciding PROVE TypeOK' /\ Preprocessed
<1> USE TypeParts DEF DecisionTypes
<1>1. CASE DoesNotAsk \/ ShardingTaken
  <2>1. Preprocessed /\ DecisionTypes'
    BY <1>1 DEF DoesNotAsk, ShardingTaken, decision
  <2> QED
    BY <2>1, PreprocessedTypes
<1>2. CASE SliceUnavailable
  <2>1. "shard_slice_unavailable" \in Reasons
    BY DEF Reasons
  <2>2. Preprocessed /\ DecisionTypes'
    BY <1>2, <2>1, FullRunType, ApplicationType, PlaywrightConstants DEF SliceUnavailable
  <2> QED
    BY <2>2, PreprocessedTypes
<1>3. ASSUME NEW mine \in SUBSET Collectable, NEW missed \in SUBSET Collectable,
             AsksNothing(mine, missed)
      PROVE  TypeOK' /\ Preprocessed
  <2>1. Preprocessed /\ DecisionTypes'
    BY <1>3 DEF AsksNothing, Collects
  <2> QED
    BY <2>1, PreprocessedTypes
<1>4. ASSUME NEW mine \in SUBSET Collectable, NEW missed \in SUBSET Collectable,
             NEW response \in Answers, AsksForSelection(mine, response, missed)
      PROVE  TypeOK' /\ Preprocessed
  <2> DEFINE sel == FetchTestSelection(response)
             app == ApplyToCollected(sel, NamesOf(mine))
  <2>1. sel \in TestSelection
    BY SelectionType, PlaywrightConstants
  <2>2. NamesOf(mine) \in SUBSET Tests
    BY NamesType, PlaywrightConstants DEF Collectable
  <2>3. app \in Applications
    BY <2>1, <2>2, ApplicationType, PlaywrightConstants
  <2>4. app.keep \in SUBSET Tests /\ TakenOut(app, mine) \subseteq mine
    BY <2>3 DEF Applications, TakenOut
  <2>5. /\ Preprocessed /\ sharding' \in {"playwright", "reporter"}
        /\ collection' = [asked |-> TRUE, ids |-> NamesOf(mine)]
        /\ excluded' = (Collectable \ mine) \cup (TakenOut(app, mine) \ missed)
        /\ kept' = IF app.outcome = "full" THEN Everything ELSE app.keep
        /\ selection' \in {selection, sel} /\ application' \in {application, app}
    BY <1>4 DEF AsksForSelection, Collects
  <2> HIDE DEF sel, app
  <2>6. DecisionTypes'
    BY <2>1, <2>2, <2>3, <2>4, <2>5
  <2> QED
    BY <2>5, <2>6, PreprocessedTypes
<1> QED
  BY <1>1, <1>2, <1>3, <1>4 DEF Deciding

\* onBegin reads the suite and the context.
LEMMA OnBeginTypes ==
  ASSUME TypeOK, Unbegun, NEW readable \in BOOLEAN, OnBegin(readable) PROVE TypeOK'
<1>1. (SetupTypes /\ DecisionTypes /\ EndTypes)'
  BY TypeParts DEF OnBegin, decision, ending, SetupTypes, DecisionTypes, EndTypes
<1>2. BegunTypes'
  <2>1. SuiteLeft \subseteq Cases
    BY TypeParts, PlaywrightConstants DEF SuiteLeft, Collectable, SetupTypes, Environment
  <2> QED
    BY <2>1, StateRead DEF OnBegin, BegunTypes
<1>3. AttemptTypes'
  BY TypeParts DEF OnBegin, attempts, AttemptTypes, Unbegun
<1>4. TroubleTypes'
  BY TypeParts DEF OnBegin, TroubleTypes
<1> QED
  BY <1>1, <1>2, <1>3, <1>4, NextTypeParts

\* An attempt adds a status to one case and settles what is expected of it.
LEMMA AttemptStepTypes ==
  ASSUME TypeOK, NEW c \in Cases, NEW how \in Statuses, NEW reached \in BOOLEAN,
         NEW declared \in Declares[c], Attempt(c, declared, how, reached)
  PROVE  TypeOK'
<1>1. (SetupTypes /\ DecisionTypes /\ BegunTypes /\ TroubleTypes /\ EndTypes)'
  <2>1. UNCHANGED <<env, phase, stateFile, decision, begun, trouble, ending>>
    BY DEF Attempt
  <2>2. (SetupTypes /\ BegunTypes /\ TroubleTypes)'
    BY <2>1, TypeParts DEF begun, trouble, SetupTypes, BegunTypes, TroubleTypes
  <2>3. (DecisionTypes /\ EndTypes)'
    BY <2>1, TypeParts DEF decision, ending, DecisionTypes, EndTypes
  <2> QED
    BY <2>2, <2>3
<1>2. AttemptTypes
  BY TypeParts
<1>3. how \in AttemptStatus /\ declared \in AttemptStatus /\ NameOf[c] \in Tests
      /\ Retries[c] \in Nat
  BY PlaywrightConstants DEF AttemptStatus
<1>4. results' \in [Cases -> Seq(Statuses)] /\ \A d \in Cases : Len(results'[d]) <= Retries[d] + 1
  <2>1. results' = [results EXCEPT ![c] = Append(@, how)] /\ Len(results[c]) <= Retries[c]
    BY DEF Attempt, MayStart
  <2>2. results[c] \in Seq(Statuses)
    BY <1>2 DEF AttemptTypes
  <2>3. Append(results[c], how) \in Seq(Statuses) /\ Len(Append(results[c], how)) = Len(results[c]) + 1
    BY <2>2
  <2>4. Len(results[c]) \in Nat
    BY <2>2
  <2> QED
    BY <1>2, <1>3, <2>1, <2>3, <2>4 DEF AttemptTypes
<1>5. expected' \in [Cases -> AttemptStatus]
  <2>1. PICK e \in AttemptStatus : expected' = [expected EXCEPT ![c] = e]
    BY <1>3 DEF Attempt
  <2> QED
    BY <1>2, <2>1 DEF AttemptTypes
<1>6. annotated' \subseteq suite'
  BY <1>2 DEF Attempt, AttemptTypes, begun
<1>7. PICK absorbed : OnTestEnd(c, how, absorbed)
  BY DEF Attempt
<1>8. caught' \subseteq Tests
  BY <1>2, <1>3, <1>7 DEF OnTestEnd, AttemptTypes
<1>9. phase1' \in [Tests -> {"none", "pass", "fail"}]
  <2>1. Phase1With(NameOf[c], how) \in [Tests -> {"none", "pass", "fail"}]
    BY <1>2 DEF Phase1With, PassOrFail, AttemptTypes
  <2> QED
    BY <1>2, <1>7, <2>1 DEF OnTestEnd, AttemptTypes
<1>10. witnessed' \in [Tests -> SUBSET {"pass", "fail"}]
  <2>1. PassOrFail(how) \in {"pass", "fail"}
    BY DEF PassOrFail
  <2>2. CASE UNCHANGED witnessed
    BY <1>2, <2>2 DEF AttemptTypes
  <2>3. CASE witnessed' = [witnessed EXCEPT ![NameOf[c]] = @ \cup {PassOrFail(how)}]
    <3>1. witnessed[NameOf[c]] \in SUBSET {"pass", "fail"}
      BY <1>2, <1>3 DEF AttemptTypes
    <3>2. witnessed[NameOf[c]] \cup {PassOrFail(how)} \in SUBSET {"pass", "fail"}
      BY <2>1, <3>1
    <3> QED
      BY <1>2, <2>3, <3>2 DEF AttemptTypes
  <2> QED
    BY <1>7, <2>2, <2>3 DEF OnTestEnd
<1>11. AttemptTypes'
  BY <1>4, <1>5, <1>6, <1>8, <1>9, <1>10 DEF AttemptTypes
<1> QED
  BY <1>1, <1>11, NextTypeParts

\* A halt is one of those that may happen.
LEMMA HaltsTypes ==
  ASSUME TypeOK, NEW why \in Halting, Halts(why) PROVE TypeOK'
<1>1. (SetupTypes /\ DecisionTypes /\ BegunTypes /\ AttemptTypes /\ EndTypes)'
  BY TypeParts DEF Halts, decision, begun, attempts, ending,
     SetupTypes, DecisionTypes, BegunTypes, AttemptTypes, EndTypes
<1>2. TroubleTypes'
  BY TypeParts, PlaywrightConstants DEF Halts, TroubleTypes
<1> QED
  BY <1>1, <1>2, NextTypeParts

\* A run-level error is noted.
LEMMA RunErrorTypes == ASSUME TypeOK, RunError PROVE TypeOK'
<1>1. (SetupTypes /\ DecisionTypes /\ BegunTypes /\ AttemptTypes /\ EndTypes)'
  BY TypeParts DEF RunError, decision, begun, attempts, ending,
     SetupTypes, DecisionTypes, BegunTypes, AttemptTypes, EndTypes
<1>2. TroubleTypes'
  BY TypeParts DEF RunError, TroubleTypes
<1> QED
  BY <1>1, <1>2, NextTypeParts

\* onEnd computes metrics, statuses and a receipt.
LEMMA RunEndTypes ==
  ASSUME TypeOK, NEW how \in Receiving, NEW duration \in Durations,
         NEW lines \in [Measured -> Leaves], RunEnd(how, duration, lines)
  PROVE  TypeOK'
<1>1. (DecisionTypes /\ BegunTypes /\ AttemptTypes /\ TroubleTypes)'
  BY TypeParts DEF RunEnd, decision, begun, attempts, trouble,
     DecisionTypes, BegunTypes, AttemptTypes, TroubleTypes
<1>2. SetupTypes'
  BY TypeParts DEF RunEnd, SetupTypes
<1>3. metrics' \in [Tests -> F!Metrics]
  <2>1. \A t \in Tests : reruns'[t] \in Leaves
    <3>1. \A t \in Tests : t \in Measured => lines[t] \in Leaves
      OBVIOUS
    <3> QED
      BY <3>1, NoLinesType DEF RunEnd, Phase2
  <2>2. \A t \in Tests : phase1[t] \in {"none", "pass", "fail"}
    BY TypeParts DEF AttemptTypes
  <2>3. \A t \in Tests : Recorded(t, reruns'[t]) \in F!Metrics
    BY <2>1, <2>2, RecordedType
  <2>4. metrics \in [Tests -> F!Metrics]
    BY TypeParts DEF EndTypes
  <2>5. metrics' = IF detector = F!NoContext THEN metrics
                   ELSE [t \in Tests |-> Recorded(t, reruns'[t])]
    BY DEF RunEnd, Phase2
  <2> QED
    BY <2>3, <2>4, <2>5
<1>4. final' \in [Tests -> Status]
  <2>1. NothingRecorded \in [Tests -> Status]
    BY DEF NothingRecorded, Status
  <2> QED
    BY <2>1, FoldType DEF RunEnd, FoldVerdict
<1>5. receipt' \in Results
  <2>1. \A r : SendSessionVerdict(r) \in Results
    BY DEF SendSessionVerdict, Results
  <2>2. NotSent \in Results
    BY DEF NotSent, Results
  <2> QED
    BY <2>1, <2>2 DEF RunEnd, SendVerdict
<1>6. Reported \in {"passed", "failed", "interrupted", "timedout"}
  BY DEF Reported
<1>7. FinalRunStatus \in {"passed", "failed", "interrupted", "timedout"}
  BY <1>6 DEF FinalRunStatus
<1>8. EndTypes'
  BY <1>3, <1>4, <1>5, <1>6, <1>7 DEF EndTypes, RunEnd
<1> QED
  BY <1>1, <1>2, <1>8, NextTypeParts

\* Where nothing changes, no type does.
LEMMA StutterTypes == ASSUME TypeOK, UNCHANGED vars PROVE TypeOK'
  BY DEF TypeOK, vars, decision, begun, attempts, trouble, ending

\* So every step keeps the types; onBegin needs that nothing ran before it.
LEMMA TypesStep == ASSUME TypeOK, Unbegun, [Next]_vars PROVE TypeOK'
  BY StepCases, GlobalSetupTypes, DecidingTypes, OnBeginTypes, AttemptStepTypes, HaltsTypes,
     RunErrorTypes, RunEndTypes, StutterTypes

-----------------------------------------------------------------------------
(* What preprocess decided, and onEnd computed.                            *)

\* Whoever shards, what a leg collects is its share, and of its share the suite
\* is left what is not excluded; and nothing else, once the others' is excluded.
LEMMA CollectsShare ==
  ASSUME SetupTypes, sharding = "playwright", NEW mine \in SUBSET Collectable, Collects(mine),
         env' = env
  PROVE  /\ mine = env.share /\ env.share \ excluded' \subseteq SuiteLeft'
         /\ Collectable \ mine \subseteq excluded' => SuiteLeft' \ Readonly = env.share \ excluded'
<1>1. env.share \subseteq Collectable /\ (~env.sharded => env.share = Collectable)
  BY PlaywrightConstants DEF SetupTypes
<1>2. CASE ~env.sharded
  BY <1>1, <1>2 DEF Collects, SuiteLeft, Collectable
<1>3. CASE env.sharded
  <2>1. PICK l \in Listings : ListingAgrees(l) /\ mine = l.slice
    BY <1>3 DEF Collects
  <2>2. mine = env.share
    BY <2>1 DEF Listings, ListingAgrees
  <2>3. sharding' = "reporter"
    BY <1>3 DEF Collects
  <2>4. Collectable \ excluded' \subseteq SuiteLeft' /\ SuiteLeft' \ Readonly = Collectable \ excluded'
    BY <2>3 DEF SuiteLeft, Collectable
  <2> QED
    BY <1>1, <2>2, <2>4
<1> QED
  BY <1>2, <1>3

\* Nothing is decided at first.
LEMMA DecisionInit == ASSUME Init PROVE DecisionInv /\ EndInv
<1>1. env.share \subseteq Collectable /\ (~env.sharded => env.share = Collectable)
  BY PlaywrightConstants DEF Init
<1>2. Undecided /\ Unbegun /\ SuiteIsLeft
  BY DEF Init, Undecided, Unbegun, SuiteIsLeft
<1>3. env.share \subseteq SuiteLeft /\ application.outcome = "full"
  BY DEF Init, SuiteLeft, NoApplication, Application
<1>4. WithinShare /\ LeftOutByAnswer
  BY <1>3 DEF WithinShare, LeftOutByAnswer
<1>5. KeptByAnswer /\ Applied /\ AppliedOrNothing
  BY DEF Init, KeptByAnswer, Applied, AppliedOrNothing, NoApplication, Application
<1>6. EndInv
  BY DEF Init, EndInv, NotSent
<1> QED
  BY <1>2, <1>4, <1>5, <1>6 DEF DecisionInv

\* What the last four parts say of a decision, for a step that makes one.
LEMMA AsksDecision ==
  ASSUME IInv, TypeOK', NEW mine \in SUBSET Collectable, NEW missed \in SUBSET Collectable,
         NEW response \in Answers, AsksForSelection(mine, response, missed)
  PROVE  (WithinShare /\ LeftOutByAnswer /\ KeptByAnswer /\ Applied /\ AppliedOrNothing)'
<1> DEFINE sel == FetchTestSelection(response)
           app == ApplyToCollected(sel, NamesOf(mine))
           out == TakenOut(app, mine) \ missed
<1>1. /\ Preprocessed /\ Collects(mine) /\ missed \subseteq TakenOut(app, mine)
      /\ collection' = [asked |-> TRUE, ids |-> NamesOf(mine)]
      /\ excluded' = (Collectable \ mine) \cup out
      /\ kept' = IF app.outcome = "full" THEN Everything ELSE app.keep
      /\ IF missed = {} THEN selection' = sel /\ application' = app
                        ELSE UNCHANGED <<selection, application>>
  BY DEF AsksForSelection
<1>2. phase = "loading" /\ env' = env
  BY <1>1 DEF Preprocessed
<1>3. sharding = "playwright" /\ selection = NoSelection /\ application = NoApplication
  BY <1>2 DEF IInv, DecisionInv, Undecided
<1>4. /\ mine = env.share /\ env.share \ excluded' \subseteq SuiteLeft'
      /\ SuiteLeft' \ Readonly = env.share \ excluded'
  BY <1>1, <1>2, <1>3, CollectsShare, TypeParts DEF IInv
<1>5. sel \in TestSelection
  BY SelectionType, PlaywrightConstants
<1>6. NamesOf(mine) \in SUBSET Tests
  BY NamesType, PlaywrightConstants DEF Collectable
<1>7. /\ app.keep \subseteq NamesOf(mine)
      /\ app.outcome \in {"refused", "empty"} => app.keep = {}
      /\ app.outcome \in {"full", "refused", "empty", "subset"}
  BY <1>5, <1>6, KeepsCollected
<1>8. app.keep # Everything
  BY <1>6, <1>7, EverythingIsNoTestSet
<1>9. /\ app.outcome = "full" => TakenOut(app, mine) = {}
      /\ app.outcome # "full" => TakenOut(app, mine) = {c \in mine : NameOf[c] \notin app.keep}
  BY <1>7 DEF TakenOut
<1>10. env.share \cap Readonly = {} /\ env.share \subseteq Collectable
  BY <1>4 DEF Collectable
<1> HIDE DEF sel, app
<1>11. LeftOutByAnswer'
  <2> SUFFICES ASSUME NEW c \in env.share \ SuiteLeft'
               PROVE  kept' # Everything /\ NameOf[c] \notin kept'
    BY <1>2 DEF LeftOutByAnswer
  <2>1. c \in out
    BY <1>1, <1>4
  <2> QED
    BY <1>1, <1>8, <1>9, <2>1
<1>12. KeptByAnswer'
  <2> SUFFICES ASSUME application'.outcome # "full"
               PROVE  /\ selection' # NoSelection /\ kept' = application'.keep
                      /\ \A c \in SuiteLeft' \ Readonly : NameOf[c] \in kept'
    BY DEF KeptByAnswer
  <2>1. missed = {} /\ application' = app
    BY <1>1, <1>3 DEF NoApplication, Application
  <2>2. kept' = app.keep
    BY <1>1, <2>1
  <2>4. selection' # NoSelection
    <3>1. sel = NoSelection => app.outcome = "full"
      BY DEF app, NoSelection, FullRun, ApplyToCollected, RunsInFull, Application
    <3>2. selection' = sel
      BY <1>1, <2>1
    <3> QED
      BY <2>1, <3>1, <3>2
  <2>3. \A c \in SuiteLeft' \ Readonly : c \in mine /\ c \notin TakenOut(app, mine)
    BY <1>1, <1>4, <2>1
  <2> QED
    BY <1>9, <2>1, <2>2, <2>3, <2>4
<1>13. Applied'
  BY <1>1, <1>2, <1>3, <1>4 DEF Applied, sel, app
<1>14. AppliedOrNothing'
  BY <1>1, <1>3 DEF AppliedOrNothing
<1>15. WithinShare'
  BY <1>2, <1>4 DEF WithinShare
<1> QED
  BY <1>11, <1>12, <1>13, <1>14, <1>15

\* A listing that failed leaves every case in.
LEMMA SliceUnavailableDecision ==
  ASSUME IInv, SliceUnavailable
  PROVE  (WithinShare /\ LeftOutByAnswer /\ KeptByAnswer /\ Applied /\ AppliedOrNothing)'
<1>1. Preprocessed /\ UNCHANGED <<collection, excluded, sharding, kept>>
      /\ selection' = FullRun("shard_slice_unavailable")
      /\ application' = ApplyToCollected(selection', {})
  BY DEF SliceUnavailable
<1>2. phase = "loading" /\ env' = env /\ kept = Everything
  BY <1>1 DEF Preprocessed, IInv, DecisionInv, Undecided
<1>3. application'.outcome = "full"
  BY <1>1 DEF FullRun, ApplyToCollected, RunsInFull, Application
<1>4. WithinShare' /\ LeftOutByAnswer'
  BY <1>1, <1>2, <1>3 DEF IInv, DecisionInv, WithinShare, LeftOutByAnswer, SuiteLeft
<1>5. KeptByAnswer' /\ Applied' /\ AppliedOrNothing'
  BY <1>1, <1>2, <1>3 DEF KeptByAnswer, Applied, AppliedOrNothing
<1> QED
  BY <1>4, <1>5

\* A leg that does not come to asking runs its share, and what it failed to take
\* out of the others'.
LEMMA AsksNothingDecision ==
  ASSUME IInv, NEW mine \in SUBSET Collectable, NEW missed \in SUBSET Collectable,
         AsksNothing(mine, missed)
  PROVE  (WithinShare /\ LeftOutByAnswer /\ KeptByAnswer /\ Applied /\ AppliedOrNothing)'
<1>1. Preprocessed /\ Collects(mine) /\ excluded' = (Collectable \ mine) \ missed
      /\ UNCHANGED <<selection, application, collection, kept>>
  BY DEF AsksNothing
<1>2. phase = "loading" /\ env' = env
  BY <1>1 DEF Preprocessed
<1>3. sharding = "playwright" /\ selection = NoSelection /\ application = NoApplication
  BY <1>2 DEF IInv, DecisionInv, Undecided
<1>4. mine = env.share /\ env.share \ excluded' \subseteq SuiteLeft'
  BY <1>1, <1>2, <1>3, CollectsShare, TypeParts DEF IInv
<1>5. WithinShare' /\ LeftOutByAnswer'
  BY <1>1, <1>2, <1>3, <1>4 DEF WithinShare, LeftOutByAnswer, NoApplication, Application
<1>6. KeptByAnswer' /\ Applied' /\ AppliedOrNothing'
  BY <1>1, <1>3 DEF KeptByAnswer, Applied, AppliedOrNothing, NoApplication, Application
<1> QED
  BY <1>5, <1>6

\* A step that leaves the decision alone leaves what is said of it alone.
LEMMA DecisionKept ==
  ASSUME IInv, UNCHANGED <<env, decision>>
  PROVE  (WithinShare /\ LeftOutByAnswer /\ KeptByAnswer /\ Applied /\ AppliedOrNothing)'
  BY DEF IInv, DecisionInv, decision, WithinShare, LeftOutByAnswer, KeptByAnswer, Applied, AppliedOrNothing,
         SuiteLeft

\* The decision is made by preprocess, read by onBegin, and told by onEnd.
LEMMA DecisionStep ==
  ASSUME IInv, TypeOK', [Next]_vars PROVE DecisionInv' /\ EndInv'
<1> USE DEF IInv, DecisionInv
<1>1. ASSUME Deciding PROVE DecisionInv' /\ EndInv'
  <2>1. Preprocessed
    BY <1>1, DecidingTypes
  <2>2. (WithinShare /\ LeftOutByAnswer /\ KeptByAnswer /\ Applied /\ AppliedOrNothing)'
    BY <1>1, <2>1, AsksDecision, SliceUnavailableDecision, AsksNothingDecision, DecisionKept
       DEF Deciding, DoesNotAsk, ShardingTaken, Preprocessed
  <2>3. (Undecided /\ Unbegun /\ SuiteIsLeft)'
    BY <2>1 DEF Preprocessed, Undecided, Unbegun, SuiteIsLeft, begun, attempts
  <2>4. EndInv'
    BY <2>1 DEF Preprocessed, EndInv, ending
  <2> QED
    BY <2>2, <2>3, <2>4
<1>2. ASSUME NEW list, NEW names, NEW flaky, NEW context, NEW shape,
             GlobalSetup(list, names, flaky, context, shape)
      PROVE  DecisionInv' /\ EndInv'
  <2>1. UNCHANGED <<env, decision, begun, attempts, ending>> /\ phase = "setup" /\ phase' = "loading"
    BY <1>2 DEF GlobalSetup
  <2>2. (Undecided /\ Unbegun /\ SuiteIsLeft)'
    BY <2>1 DEF Undecided, Unbegun, SuiteIsLeft, decision, begun, attempts
  <2>3. EndInv'
    BY <2>1 DEF EndInv, ending
  <2> QED
    BY <2>1, <2>2, <2>3, DecisionKept
<1>3. ASSUME NEW readable, OnBegin(readable) PROVE DecisionInv' /\ EndInv'
  <2>1. UNCHANGED <<env, decision, ending>> /\ phase = "loaded" /\ phase' = "running"
        /\ suite' = SuiteLeft
    BY <1>3 DEF OnBegin
  <2>2. SuiteLeft' = SuiteLeft
    BY <2>1 DEF SuiteLeft, decision
  <2>3. (Undecided /\ Unbegun /\ SuiteIsLeft)'
    BY <2>1, <2>2 DEF Undecided, Unbegun, SuiteIsLeft
  <2>4. EndInv'
    BY <2>1 DEF EndInv, ending
  <2> QED
    BY <2>1, <2>3, <2>4, DecisionKept
<1>4. ASSUME phase = "running", phase' = "running", UNCHANGED <<env, decision, begun, ending>>
      PROVE  DecisionInv' /\ EndInv'
  <2>1. (Undecided /\ Unbegun /\ SuiteIsLeft)'
    BY <1>4 DEF Undecided, Unbegun, SuiteIsLeft, SuiteLeft, decision, begun
  <2>2. EndInv'
    BY <1>4 DEF EndInv, ending
  <2> QED
    BY <1>4, <2>1, <2>2, DecisionKept
<1>5. ASSUME NEW how, NEW duration, NEW lines, RunEnd(how, duration, lines)
      PROVE  DecisionInv' /\ EndInv'
  <2>1. /\ UNCHANGED <<env, stateFile, decision, begun, attempts, trouble>>
        /\ phase = "running" /\ phase' = "ended"
        /\ block' = ReportTestSelection /\ final' = FoldVerdict /\ SendVerdict(how)
    BY <1>5 DEF RunEnd
  <2>2. (Undecided /\ Unbegun /\ SuiteIsLeft)'
    BY <2>1 DEF Undecided, Unbegun, SuiteIsLeft, SuiteLeft, decision, begun
  <2>3. block' = ReportTestSelection'
    BY <2>1 DEF ReportTestSelection, decision
  <2>4. final' = FoldVerdict'
    BY <2>1 DEF FoldVerdict, FinalStatusOf, Outcome, Attempts, decision, begun, attempts
  <2>5. (receipt.sent => collection.asked
          /\ verdict = BuildSessionVerdict(Cardinality(collection.ids), final, echo))'
    BY <2>1 DEF SendVerdict, NotSent, decision
  <2>6. EndInv'
    BY <2>1, <2>3, <2>4, <2>5 DEF EndInv
  <2> QED
    BY <2>1, <2>2, <2>6, DecisionKept
<1>6. CASE UNCHANGED vars
  <2>1. (Undecided /\ Unbegun /\ SuiteIsLeft)'
    BY <1>6 DEF vars, Undecided, Unbegun, SuiteIsLeft, SuiteLeft, decision, begun, attempts
  <2>2. EndInv'
    BY <1>6 DEF vars, EndInv, ReportTestSelection, FoldVerdict, FinalStatusOf, Outcome, Attempts,
                decision, begun, attempts, ending
  <2> QED
    BY <1>6, <2>1, <2>2, DecisionKept DEF vars
<1>7. ASSUME NEW c, NEW declared, NEW how, NEW reached, Attempt(c, declared, how, reached)
      PROVE  DecisionInv' /\ EndInv'
  BY <1>4, <1>7 DEF Attempt
<1>8. ASSUME NEW why, Halts(why) PROVE DecisionInv' /\ EndInv'
  BY <1>4, <1>8 DEF Halts
<1>9. CASE RunError
  BY <1>4, <1>9 DEF RunError
<1> QED
  BY StepCases, <1>1, <1>2, <1>3, <1>5, <1>6, <1>7, <1>8, <1>9

\* The invariant holds in every reachable state.
LEMMA Invariance == Spec => []IInv
<1>1. Init => IInv
  BY TypesInit, DecisionInit DEF IInv
<1>2. IInv /\ [Next]_vars => IInv'
  <2> SUFFICES ASSUME IInv, [Next]_vars PROVE IInv'
    OBVIOUS
  <2>1. TypeOK'
    BY TypesStep DEF IInv, DecisionInv
  <2>2. DecisionInv' /\ EndInv'
    BY <2>1, DecisionStep
  <2> QED
    BY <2>1, <2>2 DEF IInv
<1> QED
  BY <1>1, <1>2, PTL DEF Spec

\* Every variable of the reporter, the fixture and the setup keeps its type
\* (reporter.ts, fixture.ts, global-setup.ts and state-file.ts of the package).
THEOREM TypeCorrect == Spec => []TypeOK
<1>1. IInv => TypeOK
  BY DEF IInv
<1> QED
  BY <1>1, Invariance, PTL

-----------------------------------------------------------------------------
(* The contract.                                                           *)

\* No case has no name.
LEMMA NoNames == NamesOf({}) = {}
  BY DEF NamesOf

\* Before a test runs nothing is executed and nothing left out.
LEMMA NothingExecuted ==
  ASSUME IInv, phase \in {"setup", "loading", "loaded"}
  PROVE  Executed = {} /\ OwnShare = {} /\ Conclusion = "open"
  BY DEF IInv, DecisionInv, Unbegun, Executed, OwnShare, Conclusion

\* The initial states are the contract's.
LEMMA InitContract == Init => Contract!Init
<1> SUFFICES ASSUME Init PROVE Contract!Init
  OBVIOUS
<1>1. Executed = {} /\ OwnShare = {} /\ Conclusion = "open" /\ Decided = FALSE /\ kept = Everything
  BY DEF Init, Executed, OwnShare, Conclusion, Decided
<1> QED
  BY <1>1, NoNames DEF Contract!Init

\* A step that leaves the decision, the suite and the attempts alone.
LEMMA ContractStutters ==
  ASSUME UNCHANGED <<kept, Decided, Executed, OwnShare, Conclusion>>
  PROVE  UNCHANGED Contract!vars
  BY DEF Contract!vars, NamesOf

\* Each way preprocess may end is the decision, of everything or of what is kept.
LEMMA DecidingContract == ASSUME IInv, IInv', Deciding PROVE Contract!Decide
<1>1. phase = "loading" /\ phase' = "loaded"
  BY DecidingTypes DEF IInv, Preprocessed
<1>2. Executed = {} /\ OwnShare = {} /\ Conclusion = "open"
  BY <1>1, NothingExecuted
<1>3. Executed' = {} /\ OwnShare' = {} /\ Conclusion' = "open"
  BY <1>1 DEF IInv, DecisionInv, Unbegun, Executed, OwnShare, Conclusion
<1>4. Decided = FALSE /\ Decided' = TRUE
  BY <1>1 DEF Decided
<1>5. kept' \in {Everything} \cup SUBSET Tests
  BY DEF IInv, TypeOK
<1>6. NamesOf(Executed') = NamesOf(Executed) /\ NamesOf(OwnShare') = NamesOf(OwnShare)
  BY <1>2, <1>3
<1>7. NamesOf(Executed)' = NamesOf(Executed) /\ NamesOf(OwnShare)' = NamesOf(OwnShare)
  BY <1>6 DEF NamesOf
<1> QED
  BY <1>2, <1>3, <1>4, <1>5, <1>7 DEF Contract!Decide

\* Playwright is given the suite: what it lacks of the share, the answer left out.
LEMMA OnBeginContract ==
  ASSUME IInv, NEW readable, OnBegin(readable) PROVE [Contract!Next]_Contract!vars
<1>1. phase = "loaded" /\ phase' = "running" /\ suite' = SuiteLeft
      /\ UNCHANGED <<env, kept, results>>
  BY DEF OnBegin, decision, attempts
<1>2. Executed = {} /\ OwnShare = {} /\ Conclusion = "open" /\ Decided = TRUE
  BY <1>1, NothingExecuted DEF Decided
<1>3. Conclusion' = "open" /\ Decided' = TRUE
  BY <1>1 DEF Conclusion, Decided
<1>4. Executed' = {}
  <2>1. env.share \subseteq Cases /\ SuiteLeft \subseteq Cases
    BY TypeParts, PlaywrightConstants DEF IInv, SetupTypes, SuiteLeft, Collectable
  <2>2. \A c \in SuiteLeft : Attempts(c)' = {}
    BY <1>1, <2>1 DEF IInv, DecisionInv, Unbegun, Attempts
  <2> QED
    BY <1>1, <2>2 DEF Executed
<1> DEFINE S == NamesOf(env.share \ SuiteLeft)
<1>5. OwnShare' = env.share \ SuiteLeft
  BY <1>1 DEF OwnShare
<1>6. NamesOf(OwnShare)' = S /\ NamesOf(OwnShare) = {}
  BY <1>2, <1>5, NoNames DEF NamesOf
<1>7. NamesOf(Executed)' = {} /\ NamesOf(Executed) = {}
  BY <1>2, <1>4, NoNames DEF NamesOf
<1>8. S \in SUBSET Tests
  BY NamesType, TypeParts, PlaywrightConstants DEF IInv, SetupTypes, Collectable
<1>9. CASE env.share \ SuiteLeft = {}
  <2>1. S = {}
    BY <1>9, NoNames
  <2> QED
    BY <1>1, <1>2, <1>3, <1>6, <1>7, <2>1 DEF Contract!vars
<1>10. CASE env.share \ SuiteLeft # {}
  <2>1. kept # Everything /\ S \cap kept = {}
    BY <1>10 DEF IInv, DecisionInv, LeftOutByAnswer, NamesOf
  <2>2. Contract!LeaveOut(S)
    BY <1>1, <1>2, <1>3, <1>6, <1>7, <2>1 DEF Contract!LeaveOut
  <2> QED
    BY <1>8, <2>2 DEF Contract!Next
<1> QED
  BY <1>9, <1>10

\* An attempt executes its case, if of the collection and not skipped.
LEMMA AttemptContract ==
  ASSUME IInv, NEW c \in Cases, NEW how \in Statuses, NEW reached, NEW declared,
         Attempt(c, declared, how, reached)
  PROVE  [Contract!Next]_Contract!vars
<1>1. /\ phase = "running" /\ c \in suite /\ results' = [results EXCEPT ![c] = Append(@, how)]
      /\ UNCHANGED <<env, phase, kept, suite>>
  BY DEF Attempt, decision, begun
<1>2. Conclusion = "open" /\ Conclusion' = "open" /\ Decided = TRUE /\ Decided' = TRUE
      /\ OwnShare' = OwnShare
  BY <1>1 DEF Conclusion, Decided, OwnShare
<1>3. results \in [Cases -> Seq(Statuses)] /\ suite \subseteq Cases
  BY DEF IInv, TypeOK
<1>4. \A d \in Cases : d # c => Attempts(d)' = Attempts(d)
  BY <1>1, <1>3 DEF Attempts
<1>5. Attempts(c)' = Attempts(c) \cup {how}
  <2>1. results'[c] = Append(results[c], how) /\ results[c] \in Seq(Statuses)
    BY <1>1, <1>3
  <2>2. /\ DOMAIN results'[c] = DOMAIN results[c] \cup {Len(results[c]) + 1}
        /\ results'[c][Len(results[c]) + 1] = how
        /\ \A i \in DOMAIN results[c] : results'[c][i] = results[c][i]
    BY <2>1
  <2> QED
    BY <2>2 DEF Attempts
<1>6. NamesOf(OwnShare)' = NamesOf(OwnShare)
  BY <1>2 DEF NamesOf
<1>7. CASE c \in Readonly \/ how = "skipped"
  <2>1. Executed' = Executed
    BY <1>1, <1>3, <1>4, <1>5, <1>7 DEF Executed
  <2> QED
    BY <1>1, <1>2, <2>1, ContractStutters
<1>8. CASE c \notin Readonly /\ how # "skipped"
  <2>1. Executed' = Executed \cup {c}
    <3>1. Attempts(c)' \ {"skipped"} # {} /\ c \in suite \ Readonly
      BY <1>1, <1>5, <1>8
    <3>2. \A d \in suite \ Readonly : d # c => Attempts(d)' = Attempts(d)
      BY <1>3, <1>4
    <3>3. Executed' = {d \in suite \ Readonly : Attempts(d)' \ {"skipped"} # {}}
      BY <1>1 DEF Executed
    <3>4. ASSUME NEW d PROVE d \in Executed' <=> d \in Executed \cup {c}
      <4>1. CASE d = c
        BY <3>1, <3>3, <4>1
      <4>2. CASE d # c
        BY <3>2, <3>3, <4>2 DEF Executed
      <4> QED
        BY <4>1, <4>2
    <3> QED
      BY <3>4
  <2>2. NamesOf(Executed)' = NamesOf(Executed) \cup {NameOf[c]}
    BY <2>1 DEF NamesOf
  <2>3. Contract!Execute(NameOf[c]) /\ NameOf[c] \in Tests
    BY <1>1, <1>2, <1>6, <2>2, PlaywrightConstants DEF Contract!Execute
  <2> QED
    BY <2>3 DEF Contract!Next
<1> QED
  BY <1>7, <1>8

\* A run that reports a reduction ran nothing the answer does not keep.
LEMMA RunEndContract ==
  ASSUME IInv, NEW how, NEW duration, NEW lines, RunEnd(how, duration, lines)
  PROVE  Contract!Conclude
<1>1. phase = "running" /\ phase' = "ended" /\ UNCHANGED <<env, suite, results, kept, application>>
  BY DEF RunEnd, decision, begun, attempts
<1>2. /\ Conclusion = "open" /\ Conclusion' \in {"reduced", "other"}
      /\ Decided' = Decided /\ Executed' = Executed /\ OwnShare' = OwnShare
  BY <1>1 DEF Conclusion, Decided, Executed, Attempts, OwnShare
<1>3. NamesOf(Executed)' = NamesOf(Executed) /\ NamesOf(OwnShare)' = NamesOf(OwnShare)
  BY <1>2 DEF NamesOf
<1>4. ASSUME Conclusion' = "reduced" PROVE kept # Everything /\ NamesOf(Executed) \subseteq kept
  <2>1. application.outcome # "full"
    BY <1>1, <1>4 DEF Conclusion
  <2>2. kept = application.keep /\ \A c \in suite \ Readonly : NameOf[c] \in kept
    BY <1>1, <2>1 DEF IInv, DecisionInv, KeptByAnswer, SuiteIsLeft
  <2>3. application.keep # Everything
    BY EverythingIsNoTestSet DEF IInv, TypeOK, Applications
  <2> QED
    BY <2>2, <2>3 DEF Executed, NamesOf
<1> QED
  BY <1>1, <1>2, <1>3, <1>4 DEF Contract!Conclude

\* Every step is one of the contract's or a stutter of it.
LEMMA NextContract ==
  ASSUME IInv, IInv', [Next]_vars PROVE [Contract!Next]_Contract!vars
<1>1. ASSUME NEW list, NEW names, NEW flaky, NEW context, NEW shape,
             GlobalSetup(list, names, flaky, context, shape)
      PROVE  UNCHANGED Contract!vars
  <2>1. phase = "setup" /\ phase' = "loading" /\ UNCHANGED <<env, kept, suite, results>>
    BY <1>1 DEF GlobalSetup, decision, begun, attempts
  <2>2. UNCHANGED <<kept, Decided, Executed, OwnShare, Conclusion>>
    BY <2>1 DEF Decided, Executed, Attempts, OwnShare, Conclusion
  <2> QED
    BY <2>2, ContractStutters
<1>2. ASSUME (\E why : Halts(why)) \/ RunError \/ UNCHANGED vars PROVE UNCHANGED Contract!vars
  <2>1. UNCHANGED <<env, phase, kept, suite, results, application>>
    BY <1>2 DEF Halts, RunError, vars, decision, begun, attempts
  <2>2. UNCHANGED <<kept, Decided, Executed, OwnShare, Conclusion>>
    BY <2>1 DEF Decided, Executed, Attempts, OwnShare, Conclusion
  <2> QED
    BY <2>2, ContractStutters
<1>3. CASE Deciding
  BY <1>3, DecidingContract DEF Contract!Next
<1>4. ASSUME NEW how, NEW duration, NEW lines, RunEnd(how, duration, lines)
      PROVE  Contract!Next
  BY <1>4, RunEndContract DEF Contract!Next
<1> QED
  BY StepCases, <1>1, <1>2, <1>3, <1>4, OnBeginContract, AttemptContract

\* Global setup, preprocess, the fixture and the reporter together are one client
\* that decides before the first test, leaves out only what the answer leaves
\* out, and reports a reduction only of a run that kept to it (preprocess,
\* onBegin, onTestEnd and onEnd of reporter.ts), whoever shards the suite.
THEOREM Refinement == Spec => ImplementsContract
<1>1. IInv /\ IInv' /\ [Next]_vars => [Contract!Next]_Contract!vars
  BY NextContract
<1> QED
  BY <1>1, InitContract, Invariance, PTL DEF Spec, ImplementsContract, Contract!Spec

-----------------------------------------------------------------------------
(* The terminal block.                                                     *)

\* Names of a share, once an answer was applied to it: those left in are those
\* kept, those left out the others.
LEMMA ShareSplits ==
  ASSUME IInv, phase = "ended", application.outcome # "full"
  PROVE  /\ NamesOf(suite \ Readonly) = kept \cap NamesOf(env.share)
         /\ NamesOf(OwnShare) = NamesOf(env.share) \ kept
<1>1. suite = SuiteLeft /\ (\A c \in suite \ Readonly : NameOf[c] \in kept)
      /\ (\A c \in env.share \ suite : NameOf[c] \notin kept) /\ suite \ Readonly \subseteq env.share
  BY DEF IInv, DecisionInv, SuiteIsLeft, KeptByAnswer, LeftOutByAnswer, WithinShare
<1>2. env.share \cap Readonly = {}
  BY TypeParts, PlaywrightConstants DEF IInv, SetupTypes, Collectable
<1>3. OwnShare = env.share \ suite
  BY DEF OwnShare
<1>4. \A t \in kept \cap NamesOf(env.share) : t \in NamesOf(suite \ Readonly)
  BY <1>1, <1>2 DEF NamesOf
<1>5. \A t \in NamesOf(suite \ Readonly) : t \in kept \cap NamesOf(env.share)
  BY <1>1 DEF NamesOf
<1>6. \A t \in NamesOf(OwnShare) : t \in NamesOf(env.share) \ kept
  BY <1>1, <1>3 DEF NamesOf
<1>7. \A t \in NamesOf(env.share) \ kept : t \in NamesOf(OwnShare)
  BY <1>1, <1>2, <1>3 DEF NamesOf
<1> QED
  BY <1>4, <1>5, <1>6, <1>7

\* The block is one of the texts, and each text follows from the application.
LEMMA BlockIsTrue == ASSUME IInv PROVE ReportIsTrue
<1>1. CASE block = NoBlock
  BY <1>1 DEF ReportIsTrue, NoBlock, Block
<1>2. CASE block # NoBlock
  <2>1. phase = "ended" /\ selection # NoSelection
        /\ block = FormatTestSelectionReport(selection, application)
    BY <1>2 DEF IInv, EndInv, ReportTestSelection
  <2>2. CASE application.outcome = "full"
    <3>1. kept = Everything /\ suite = SuiteLeft
      BY <2>1, <2>2 DEF IInv, DecisionInv, AppliedOrNothing, SuiteIsLeft
    <3>2. OwnShare = {}
      BY <3>1 DEF IInv, DecisionInv, LeftOutByAnswer, OwnShare
    <3>3. block.text \in {"in full", "not matching, in full", "could not be asked"}
      BY <2>1, <2>2 DEF FormatTestSelectionReport, FullRunSentence, Block
    <3> QED
      BY <3>2, <3>3 DEF ReportIsTrue
  <2>3. CASE application.outcome # "full"
    <3>1. application = ApplyToCollected(selection, NamesOf(env.share))
      BY <2>1, <2>3 DEF IInv, DecisionInv, Applied
    <3>2. selection \in TestSelection /\ NamesOf(env.share) \in SUBSET Tests
      BY TypeParts, NamesType, PlaywrightConstants
         DEF IInv, SetupTypes, DecisionTypes, Collectable
    <3>3. kept = application.keep /\ suite = SuiteLeft
          /\ \A c \in SuiteLeft \ Readonly : NameOf[c] \in kept
      BY <2>1, <2>3 DEF IInv, DecisionInv, KeptByAnswer, SuiteIsLeft
    <3>4. /\ application.outcome = "empty" =>
               kept = {} /\ application.deselectedCount = Cardinality(NamesOf(env.share) \ kept)
          /\ application.outcome = "refused" => kept = {}
          /\ application.outcome = "subset" =>
               /\ kept = selection.tests /\ selection.tests \subseteq NamesOf(env.share)
               /\ application.keptCount = Cardinality(selection.tests)
               /\ application.deselectedCount = Cardinality(NamesOf(env.share) \ kept)
      BY <3>1, <3>2, <3>3, ApplicationCounts
    <3>5. /\ NamesOf(suite \ Readonly) = kept \cap NamesOf(env.share)
          /\ NamesOf(OwnShare) = NamesOf(env.share) \ kept
      BY <2>1, <2>3, ShareSplits
    <3>6. application.outcome \in {"subset", "empty", "refused"}
      BY <2>3, TypeParts DEF IInv, DecisionTypes, Applications, Outcomes
    <3>7. CASE selection.reason = "fetch_failed"
      <4>1. PICK response \in Answers : selection = FetchTestSelection(response)
        BY <2>1, <2>3 DEF IInv, DecisionInv, Applied
      <4>2. selection = FullRun("fetch_failed")
        BY <3>7, <4>1 DEF FetchTestSelection, FullRun, ToTestSelection, Served
      <4>3. application.outcome = "full"
        BY <3>1, <4>2 DEF FullRun, ApplyToCollected, RunsInFull, Application
      <4> QED
        BY <2>3, <4>3
    <3>8. CASE selection.reason # "fetch_failed" /\ application.outcome = "refused"
      <4>1. block.text = "stopped"
        BY <2>1, <3>8 DEF FormatTestSelectionReport, Block
      <4>2. suite \subseteq Readonly
        BY <3>3, <3>4, <3>8
      <4> QED
        BY <4>1, <4>2 DEF ReportIsTrue
    <3>9. CASE selection.reason # "fetch_failed" /\ application.outcome = "empty"
      <4>1. block.text \in {"nothing to run", "none executed"}
            /\ block.skipped = application.deselectedCount
        BY <2>1, <3>9 DEF FormatTestSelectionReport, EmptyBlock, Block
      <4>2. suite \subseteq Readonly
        BY <3>3, <3>4, <3>9
      <4>3. block.skipped = Cardinality(NamesOf(OwnShare))
        BY <3>4, <3>5, <3>9, <4>1
      <4> QED
        BY <4>1, <4>2, <4>3 DEF ReportIsTrue
    <3>10. CASE selection.reason # "fetch_failed" /\ application.outcome = "subset"
      <4>1. block.text \in {"all re-executed", "only those re-executed"}
            /\ block.skipped = application.deselectedCount /\ block.failed = application.keptCount
        BY <2>1, <3>10 DEF FormatTestSelectionReport, SubsetBlock, Block
      <4>2. NamesOf(suite \ Readonly) = selection.tests
        BY <3>4, <3>5, <3>10
      <4>3. block.failed = Cardinality(selection.tests)
            /\ block.skipped = Cardinality(NamesOf(OwnShare))
        BY <3>4, <3>5, <3>10, <4>1
      <4> QED
        BY <4>1, <4>2, <4>3 DEF ReportIsTrue
    <3> QED
      BY <3>6, <3>7, <3>8, <3>9, <3>10
  <2> QED
    BY <2>2, <2>3
<1> QED
  BY <1>1, <1>2

\* The block the reporter prints of the selection states what became of the run's
\* share of the suite: nothing left out of a run in full, the very tests served
\* re-executed, and as many left out as it says (reportTestSelection in
\* reporter.ts, formatTestSelectionReport in test-selection.ts).
THEOREM BlockTold == Spec => []ReportIsTrue
<1>1. IInv => ReportIsTrue
  BY BlockIsTrue
<1> QED
  BY <1>1, Invariance, PTL

-----------------------------------------------------------------------------
(* What the verdict and the flaky marks say of the attempts: the invariant is *)
(* joined by one about the attempts.                                       *)

\* A case that is expected to be skipped was skipped.
SkipsExpected ==
  \A c \in Cases : expected[c] = "skipped" => "skipped" \in Attempts(c)

\* An absorbed failure is the last attempt, is what is expected, and is caught;
\* only a halt interrupts.
AbsorbedLast ==
  \A c \in annotated :
    /\ results[c] # <<>> /\ results[c][Len(results[c])] = expected[c]
    /\ expected[c] \in FailedStatuses /\ (halted = "no" => expected[c] # "interrupted")
    /\ NameOf[c] \in caught

\* One outcome per identity, a failure once any was seen; none without a detector.
OutcomeOfAll ==
  \A t \in Tests :
    /\ phase1[t] = IF "fail" \in witnessed[t] THEN "fail"
                   ELSE IF "pass" \in witnessed[t] THEN "pass" ELSE "none"
    /\ phase \in {"setup", "loading", "loaded"} \/ detector = F!NoContext => phase1[t] = "none"

\* What the second phase made of the outcomes and of the lines it was left.
MetricsOfAll ==
  phase = "ended" =>
    \A t \in Measured : reruns[t] \in Leaves /\ metrics[t] = Recorded(t, reruns[t])

AttemptInv == SkipsExpected /\ AbsorbedLast /\ OutcomeOfAll /\ MetricsOfAll

-----------------------------------------------------------------------------
(* The invariant about the attempts.                                       *)

\* One more attempt adds its status to those of its case.
LEMMA OneMore ==
  ASSUME TypeOK, NEW c \in Cases, NEW how \in Statuses, results' = [results EXCEPT ![c] = Append(@, how)]
  PROVE  /\ results'[c] # <<>> /\ results'[c][Len(results'[c])] = how
         /\ Attempts(c)' = Attempts(c) \cup {how}
         /\ \A d \in Cases \ {c} : results'[d] = results[d] /\ Attempts(d)' = Attempts(d)
<1>1. results \in [Cases -> Seq(Statuses)]
  BY DEF TypeOK
<1>2. results'[c] = Append(results[c], how) /\ results[c] \in Seq(Statuses)
  BY <1>1
<1>3. results'[c] # <<>> /\ Len(results'[c]) = Len(results[c]) + 1
  BY <1>2
<1>4. /\ DOMAIN results'[c] = DOMAIN results[c] \cup {Len(results[c]) + 1}
      /\ results'[c][Len(results[c]) + 1] = how
      /\ \A i \in DOMAIN results[c] : results'[c][i] = results[c][i]
  BY <1>2
<1>5. Attempts(c)' = Attempts(c) \cup {how}
  BY <1>4 DEF Attempts
<1>6. \A d \in Cases \ {c} : results'[d] = results[d] /\ Attempts(d)' = Attempts(d)
  BY <1>1 DEF Attempts
<1> QED
  BY <1>3, <1>4, <1>5, <1>6

\* No case was attempted at first.
LEMMA AttemptInit == ASSUME Init PROVE AttemptInv
<1>1. SkipsExpected /\ AbsorbedLast
  BY DEF Init, SkipsExpected, AbsorbedLast
<1>2. OutcomeOfAll /\ MetricsOfAll
  BY DEF Init, OutcomeOfAll, MetricsOfAll
<1> QED
  BY <1>1, <1>2 DEF AttemptInv

\* An attempt keeps the invariant: of its own case, and of the test it reports.
LEMMA AttemptKept ==
  ASSUME IInv, AttemptInv, NEW c \in Cases, NEW how \in Statuses, NEW reached \in BOOLEAN,
         NEW declared \in Declares[c], Attempt(c, declared, how, reached)
  PROVE  AttemptInv'
<1> DEFINE absorbed == Absorbs(c, how, reached)
           t == NameOf[c]
<1>1. /\ phase = "running" /\ c \in suite /\ MayEnd(c, declared, how)
      /\ results' = [results EXCEPT ![c] = Append(@, how)]
      /\ expected' = [expected EXCEPT ![c] = IF absorbed THEN how ELSE declared]
      /\ annotated' = IF absorbed THEN annotated \cup {c} ELSE annotated \ {c}
      /\ OnTestEnd(c, how, absorbed)
      /\ UNCHANGED <<phase, suite, detector, halted, metrics, reruns>>
  BY DEF Attempt, begun, trouble, ending
<1>2. /\ results'[c] # <<>> /\ results'[c][Len(results'[c])] = how
      /\ Attempts(c)' = Attempts(c) \cup {how}
      /\ \A d \in Cases \ {c} : results'[d] = results[d] /\ Attempts(d)' = Attempts(d)
  BY <1>1, OneMore DEF IInv
<1>3. /\ expected'[c] = (IF absorbed THEN how ELSE declared)
      /\ \A d \in Cases \ {c} : expected'[d] = expected[d]
  BY <1>1 DEF IInv, TypeOK
<1>4. absorbed => how \in FailedStatuses
  BY DEF Absorbs
<1> HIDE DEF absorbed
<1>5. how = "interrupted" => halted # "no"
  BY <1>1 DEF MayEnd
<1>6. SkipsExpected'
  <2>1. expected'[c] = "skipped" => how = "skipped"
    BY <1>1, <1>3, <1>4 DEF MayEnd, FailedStatuses
  <2>2. expected'[c] = "skipped" => "skipped" \in Attempts(c)'
    BY <1>2, <2>1
  <2>3. \A d \in Cases \ {c} : expected'[d] = "skipped" => "skipped" \in Attempts(d)'
    BY <1>2, <1>3 DEF AttemptInv, SkipsExpected
  <2> QED
    BY <2>2, <2>3 DEF SkipsExpected
<1>7. AbsorbedLast'
  <2> SUFFICES ASSUME NEW d \in annotated'
               PROVE  /\ results'[d] # <<>> /\ results'[d][Len(results'[d])] = expected'[d]
                      /\ expected'[d] \in FailedStatuses
                      /\ (halted' = "no" => expected'[d] # "interrupted")
                      /\ NameOf[d] \in caught'
    BY DEF AbsorbedLast
  <2>1. caught \subseteq caught'
    BY <1>1 DEF OnTestEnd
  <2>2. CASE d = c
    <3>1. absorbed
      BY <1>1, <2>2
    <3>2. NameOf[c] \in caught'
      BY <1>1, <3>1 DEF OnTestEnd, IsFinal
    <3> QED
      BY <1>1, <1>2, <1>3, <1>4, <1>5, <2>2, <3>1, <3>2
  <2>3. CASE d # c
    <3>1. d \in annotated /\ d \in Cases
      BY <1>1, <2>3 DEF IInv, TypeOK
    <3> QED
      BY <1>1, <1>2, <1>3, <2>1, <2>3, <3>1 DEF AttemptInv, AbsorbedLast
  <2> QED
    BY <2>2, <2>3
<1>8. OutcomeOfAll'
  <2>1. phase1 \in [Tests -> {"none", "pass", "fail"}] /\ witnessed \in [Tests -> SUBSET {"pass", "fail"}]
        /\ t \in Tests
    BY PlaywrightConstants DEF IInv, TypeOK
  <2>2. CASE UNCHANGED <<phase1, witnessed>>
    BY <1>1, <2>2 DEF OutcomeOfAll, AttemptInv
  <2>3. CASE /\ IsCandidate(t) /\ phase1' = Phase1With(t, how)
             /\ witnessed' = [witnessed EXCEPT ![t] = @ \cup {PassOrFail(how)}]
    <3>1. detector # F!NoContext
      BY <2>3 DEF IsCandidate, F!Candidates, F!NoContext
    <3>2. PassOrFail(how) \in {"pass", "fail"}
      BY DEF PassOrFail
    <3>3. phase1'[t] = (IF phase1[t] = "fail" THEN "fail" ELSE PassOrFail(how))
          /\ witnessed'[t] = witnessed[t] \cup {PassOrFail(how)}
      BY <2>1, <2>3 DEF Phase1With
    <3>4. \A u \in Tests \ {t} : phase1'[u] = phase1[u] /\ witnessed'[u] = witnessed[u]
      BY <2>1, <2>3 DEF Phase1With
    <3>5. phase1[t] = IF "fail" \in witnessed[t] THEN "fail"
                      ELSE IF "pass" \in witnessed[t] THEN "pass" ELSE "none"
      BY <2>1 DEF AttemptInv, OutcomeOfAll
    <3>6. phase1'[t] = IF "fail" \in witnessed'[t] THEN "fail"
                       ELSE IF "pass" \in witnessed'[t] THEN "pass" ELSE "none"
      BY <3>2, <3>3, <3>5
    <3>7. phase' = "running" /\ detector' # F!NoContext
      BY <1>1, <3>1
    <3> QED
      BY <3>4, <3>6, <3>7 DEF AttemptInv, OutcomeOfAll
  <2> QED
    BY <1>1, <2>2, <2>3 DEF OnTestEnd
<1>9. MetricsOfAll'
  BY <1>1 DEF MetricsOfAll
<1> QED
  BY <1>6, <1>7, <1>8, <1>9 DEF AttemptInv

\* The metrics of onEnd are those of its outcomes and lines.
LEMMA EndKept ==
  ASSUME IInv, AttemptInv, NEW how \in Receiving, NEW duration \in Durations,
         NEW lines \in [Measured -> Leaves], RunEnd(how, duration, lines)
  PROVE  AttemptInv'
<1>1. /\ UNCHANGED <<begun, attempts, trouble>> /\ phase = "running" /\ phase' = "ended"
      /\ Phase2(duration, lines)
  BY DEF RunEnd
<1>2. (SkipsExpected /\ AbsorbedLast /\ OutcomeOfAll)'
  BY <1>1 DEF AttemptInv, SkipsExpected, AbsorbedLast, OutcomeOfAll, Attempts, begun, attempts, trouble
<1>3. MetricsOfAll'
  <2>1. Measured' = Measured
    BY <1>1 DEF Measured, attempts
  <2>2. ASSUME NEW u \in Measured
        PROVE  reruns'[u] \in Leaves /\ metrics'[u] = Recorded(u, reruns'[u])
    <3>1. u \in Tests /\ phase1[u] # "none"
      BY DEF Measured
    <3>2. detector # F!NoContext
      BY <3>1 DEF AttemptInv, OutcomeOfAll
    <3>3. reruns'[u] \in Leaves
      BY <1>1, <3>1, NoLinesType DEF Phase2
    <3>4. metrics'[u] = Recorded(u, reruns'[u])
      BY <1>1, <3>1, <3>2 DEF Phase2
    <3> QED
      BY <3>3, <3>4
  <2>3. \A u : Recorded(u, reruns[u])' = Recorded(u, reruns'[u])
    BY <1>1 DEF Recorded, Telling, attempts
  <2> QED
    BY <2>1, <2>2, <2>3 DEF MetricsOfAll
<1> QED
  BY <1>2, <1>3 DEF AttemptInv

\* The steps between attempts.
LEMMA OthersKeep ==
  ASSUME IInv, AttemptInv, UNCHANGED <<attempts, metrics, reruns>>, phase' # "ended" \/ phase' = phase,
         (halted' = "no" => halted = "no"),
         \/ phase \in {"setup", "loading", "loaded"}
         \/ phase = phase' /\ detector' = detector
  PROVE  AttemptInv'
<1>1. (SkipsExpected /\ AbsorbedLast)'
  BY DEF AttemptInv, SkipsExpected, AbsorbedLast, Attempts, attempts
<1>2. OutcomeOfAll'
  BY DEF AttemptInv, OutcomeOfAll, attempts
<1>3. MetricsOfAll'
  <2>1. Measured' = Measured /\ \A u : Recorded(u, reruns[u])' = Recorded(u, reruns[u])
    BY DEF Measured, Recorded, Telling, attempts
  <2> QED
    BY <2>1 DEF AttemptInv, MetricsOfAll
<1> QED
  BY <1>1, <1>2, <1>3 DEF AttemptInv

\* So every step keeps it.
LEMMA AttemptStep == ASSUME IInv, AttemptInv, [Next]_vars PROVE AttemptInv'
<1>1. ASSUME NEW list, NEW names, NEW flaky, NEW context, NEW shape,
             GlobalSetup(list, names, flaky, context, shape)
      PROVE  AttemptInv'
  BY <1>1, OthersKeep DEF GlobalSetup, trouble, ending
<1>2. CASE Deciding
  BY <1>2, DecidingTypes, OthersKeep DEF IInv, Preprocessed, trouble, ending
<1>3. ASSUME NEW readable, OnBegin(readable) PROVE AttemptInv'
  BY <1>3, OthersKeep DEF OnBegin, ending
<1>4. ASSUME NEW why \in Halting, Halts(why) PROVE AttemptInv'
  BY <1>4, OthersKeep DEF Halts, begun, ending
<1>5. CASE RunError
  BY <1>5, OthersKeep DEF RunError, begun, ending
<1>6. CASE UNCHANGED vars
  BY <1>6, OthersKeep, TypeParts DEF IInv, SetupTypes, vars, begun, attempts, trouble, ending
<1> QED
  BY StepCases, <1>1, <1>2, <1>3, <1>4, <1>5, <1>6, AttemptKept, EndKept

\* Both invariants hold in every reachable state.
LEMMA AttemptInvariance == Spec => [](IInv /\ AttemptInv)
<1>1. Init => AttemptInv
  BY AttemptInit
<1>2. IInv /\ AttemptInv /\ [Next]_vars => AttemptInv'
  BY AttemptStep
<1> QED
  BY <1>1, <1>2, Invariance, PTL DEF Spec

-----------------------------------------------------------------------------
(* The verdict.                                                            *)

\* What the fold makes of a case that counts as failed, and of a failed test.
LEMMA FoldOfCases ==
  ASSUME IInv, phase = "ended", receipt.sent
  PROVE  /\ \A c \in suite \ Readonly :
              FinalStatusOf(c) \in {"failed", "quarantined_failed"} =>
                NameOf[c] \in verdict.failing \cup verdict.quarantined
         /\ \A t \in verdict.failing : \E c \in suite \ Readonly :
              NameOf[c] = t /\ FinalStatusOf(c) = "failed"
<1> DEFINE records == {<<NameOf[c], FinalStatusOf(c)>> : c \in suite \ Readonly}
           Of(t) == {r[2] : r \in {q \in records : q[1] = t}}
<1>1. final = [t \in Tests |-> HighestOf(Of(t))]
  BY DEF IInv, EndInv, FoldVerdict, Fold
<1>2. /\ verdict.failing = {t \in Tests : final[t] = "failed"}
      /\ verdict.quarantined = {t \in Tests : final[t] = "quarantined_failed"}
  BY DEF IInv, EndInv, BuildSessionVerdict, FailingTests, QuarantinedFailingTests, WithStatus
<1>3. ASSUME NEW c \in suite \ Readonly PROVE FinalStatusOf(c) \in Of(NameOf[c]) /\ NameOf[c] \in Tests
  <2>1. <<NameOf[c], FinalStatusOf(c)>> \in records
    OBVIOUS
  <2>2. NameOf[c] \in Tests
    BY PlaywrightConstants DEF IInv, TypeOK
  <2> DEFINE r == <<NameOf[c], FinalStatusOf(c)>>
  <2>3. r[1] = NameOf[c] /\ r[2] = FinalStatusOf(c)
    OBVIOUS
  <2>4. r \in {q \in records : q[1] = NameOf[c]}
    BY <2>1, <2>3
  <2> HIDE DEF r, records
  <2> QED
    BY <2>2, <2>3, <2>4
<1>4. ASSUME NEW t, NEW s \in Of(t) PROVE \E c \in suite \ Readonly : NameOf[c] = t /\ FinalStatusOf(c) = s
  OBVIOUS
<1> HIDE DEF Of
<1>5. \A c \in suite \ Readonly :
        FinalStatusOf(c) \in {"failed", "quarantined_failed"} =>
          NameOf[c] \in verdict.failing \cup verdict.quarantined
  <2> SUFFICES ASSUME NEW c \in suite \ Readonly, FinalStatusOf(c) \in {"failed", "quarantined_failed"}
               PROVE  final[NameOf[c]] \in {"failed", "quarantined_failed"}
    BY <1>2, <1>3
  <2> QED
    BY <1>1, <1>3 DEF HighestOf
<1>6. \A t \in verdict.failing : "failed" \in Of(t)
  BY <1>1, <1>2 DEF HighestOf
<1> QED
  BY <1>4, <1>5, <1>6

\* A case that gates was attempted, and reads failed or absorbed.
LEMMA FailuresNamed == ASSUME IInv PROVE VerdictNamesEveryFailure
<1> SUFFICES ASSUME phase = "ended", receipt.sent
             PROVE  /\ \A c \in suite \ Readonly :
                         Gates(c) => NameOf[c] \in verdict.failing \cup verdict.quarantined
                    /\ \A t \in verdict.failing : \E c \in suite \ Readonly :
                         NameOf[c] = t
                         /\ (Gates(c) \/ (Outcome(c) = "skipped" /\ expected[c] # "skipped"))
  BY DEF VerdictNamesEveryFailure
<1>1. ASSUME NEW c \in suite \ Readonly, Gates(c)
      PROVE  FinalStatusOf(c) \in {"failed", "quarantined_failed"}
  <2>1. Outcome(c) = "unexpected" \/ (env.failOnFlaky /\ Outcome(c) = "flaky")
    BY <1>1 DEF Gates, Ok
  <2>2. results[c] # <<>>
    <3> SUFFICES ASSUME results[c] = <<>> PROVE FALSE
      OBVIOUS
    <3>1. Attempts(c) = {}
      BY DEF Attempts
    <3>2. Outcome(c) = "skipped"
      BY <3>1 DEF Outcome
    <3> QED
      BY <2>1, <3>2
  <2> QED
    BY <2>1, <2>2 DEF FinalStatusOf
<1>2. ASSUME NEW c \in suite \ Readonly, FinalStatusOf(c) = "failed"
      PROVE  Gates(c) \/ (Outcome(c) = "skipped" /\ expected[c] # "skipped")
  <2>1. Outcome(c) \in {"skipped", "expected", "unexpected", "flaky"}
    BY DEF Outcome
  <2> QED
    BY <1>2, <2>1 DEF FinalStatusOf, Gates, Ok
<1> QED
  BY <1>1, <1>2, FoldOfCases

\* An absorbed failure is the outcome that is expected.
LEMMA AbsorbedCaught == ASSUME IInv, AttemptInv PROVE AbsorbedIsCaught
<1> SUFFICES ASSUME NEW c \in annotated
             PROVE  /\ ~Failing(c) /\ (halted = "no" => Ok(c)) /\ NameOf[c] \in caught
                    /\ phase = "ended" /\ receipt.sent /\ c \notin Readonly =>
                         NameOf[c] \in verdict.failing \cup verdict.quarantined
  BY DEF AbsorbedIsCaught
<1>1. /\ results[c] # <<>> /\ results[c][Len(results[c])] = expected[c]
      /\ expected[c] \in FailedStatuses /\ (halted = "no" => expected[c] # "interrupted")
      /\ NameOf[c] \in caught
  BY DEF AttemptInv, AbsorbedLast
<1>2. c \in suite /\ c \in Cases /\ results[c] \in Seq(Statuses)
  BY DEF IInv, TypeOK
<1>3. ~Failing(c)
  BY <1>1 DEF Failing
<1>4. expected[c] \in Attempts(c)
  <2>1. Len(results[c]) \in DOMAIN results[c]
    BY <1>1, <1>2
  <2> QED
    BY <1>1, <2>1 DEF Attempts
<1>5. ASSUME halted = "no" PROVE Ok(c)
  <2>1. expected[c] \in (Attempts(c) \ {"interrupted"}) \ {"skipped"}
    BY <1>1, <1>4, <1>5 DEF FailedStatuses
  <2> QED
    BY <2>1 DEF Ok, Outcome
<1>6. FinalStatusOf(c) = "quarantined_failed"
  BY DEF FinalStatusOf
<1> QED
  BY <1>1, <1>2, <1>3, <1>5, <1>6, FoldOfCases

\* Alone, a case's status is the test's; passed or skipped, it was met.
LEMMA NothingUnrun == ASSUME IInv, AttemptInv PROVE NothingUnrunReadsDone
<1> SUFFICES ASSUME phase = "ended", NEW c \in suite \ Readonly,
                    \A d \in (suite \ Readonly) \ {c} : NameOf[d] # NameOf[c],
                    final[NameOf[c]] \in {"passed", "skipped"}
             PROVE  expected[c] \in Attempts(c)
  BY DEF NothingUnrunReadsDone
<1> DEFINE records == {<<NameOf[d], FinalStatusOf(d)>> : d \in suite \ Readonly}
           said == {r[2] : r \in {q \in records : q[1] = NameOf[c]}}
<1>1. c \in Cases /\ NameOf[c] \in Tests
  BY PlaywrightConstants DEF IInv, TypeOK
<1>2. final = FoldVerdict
  BY DEF IInv, EndInv
<1>3. collection.asked
  BY <1>1, <1>2 DEF FoldVerdict, NothingRecorded
<1>4. final[NameOf[c]] = HighestOf(said)
  BY <1>1, <1>2, <1>3 DEF FoldVerdict, Fold
<1>5. \A s \in said : s = FinalStatusOf(c)
  OBVIOUS
<1> HIDE DEF said
<1>6. FinalStatusOf(c) \in {"passed", "skipped"}
  BY <1>4, <1>5 DEF HighestOf
<1>7. CASE Outcome(c) \in {"expected", "flaky"}
  BY <1>7 DEF Outcome
<1>8. CASE Outcome(c) = "skipped" /\ expected[c] = "skipped"
  BY <1>1, <1>8 DEF AttemptInv, SkipsExpected
<1>9. Outcome(c) \in {"skipped", "expected", "unexpected", "flaky"}
  BY DEF Outcome
<1> QED
  BY <1>6, <1>7, <1>8, <1>9 DEF FinalStatusOf

-----------------------------------------------------------------------------
(* The flaky marks.                                                        *)

\* What is recorded of a test the first phase has an outcome of.
LEMMA RecordedValue ==
  ASSUME NEW t, phase1[t] \in {"pass", "fail"}
  PROVE  Recorded(t, reruns[t]) =
           [outcomes |-> ({} \cup {phase1[t]}) \cup {PassOrFail(reruns[t][i]) : i \in Telling(reruns[t])},
            attempts |-> (0 + 1) + Cardinality(Telling(reruns[t])), tooSlow |-> FALSE]
<1> DEFINE o == phase1[t]
           said == {PassOrFail(reruns[t][i]) : i \in Telling(reruns[t])}
           n == Cardinality(Telling(reruns[t]))
           first == F!RecordOutcome(F!NoMetrics, o)
<1>1. first = [F!NoMetrics EXCEPT !.outcomes = @ \cup {o}, !.attempts = @ + 1]
  BY DEF F!RecordOutcome
<1>2. F!NoMetrics = [outcomes |-> {}, attempts |-> 0, tooSlow |-> FALSE]
  BY DEF F!NoMetrics
<1>3. Recorded(t, reruns[t]) = [first EXCEPT !.outcomes = @ \cup said, !.attempts = @ + n]
  BY DEF Recorded
<1> HIDE DEF o, said, n, first
<1>4. first = [outcomes |-> {} \cup {o}, attempts |-> 0 + 1, tooSlow |-> FALSE]
  BY <1>1, <1>2, Zenon
<1>5. Recorded(t, reruns[t]) =
        [outcomes |-> ({} \cup {o}) \cup said, attempts |-> (0 + 1) + n, tooSlow |-> FALSE]
  BY <1>3, <1>4, Zenon
<1> QED
  BY <1>5 DEF o, said, n

\* The lines that tell something are counted by naturals.
LEMMA TellingCount == ASSUME NEW lines \in Leaves PROVE Cardinality(Telling(lines)) \in Nat
<1>1. PICK n \in 0..RerunLines : lines \in [1..n -> {"passed", "failed", "timedOut", "skipped"}]
  BY DEF Leaves
<1>2. n \in Nat /\ Telling(lines) \subseteq 1..n
  BY <1>1, PlaywrightConstants DEF Telling
<1>3. IsFiniteSet(1..n)
  BY <1>2, FS_Interval
<1> QED
  BY <1>2, <1>3, FS_Subset, FS_CardinalityType

\* The outcomes recorded are the first one and those of the telling lines.
LEMMA FlakyMarks == ASSUME IInv, AttemptInv PROVE FlakyIsEarned
<1> SUFFICES ASSUME phase = "ended", NEW t \in Measured
             PROVE  LET first == IF "fail" \in witnessed[t] THEN "fail" ELSE "pass"
                        again == {PassOrFail(reruns[t][i]) : i \in Telling(reruns[t])}
                    IN /\ t \in Flagged <=> {first} \cup again = {"pass", "fail"}
                       /\ F!RerunCount(metrics[t]) = Cardinality(Telling(reruns[t]))
  BY DEF FlakyIsEarned
<1> DEFINE again == {PassOrFail(reruns[t][i]) : i \in Telling(reruns[t])}
           n == Cardinality(Telling(reruns[t]))
<1>1. t \in Tests /\ phase1[t] # "none"
  BY DEF Measured
<1>2. phase1[t] \in {"pass", "fail"}
      /\ phase1[t] = IF "fail" \in witnessed[t] THEN "fail" ELSE "pass"
  BY <1>1 DEF IInv, TypeOK, AttemptInv, OutcomeOfAll
<1>3. reruns[t] \in Leaves /\ metrics[t] = Recorded(t, reruns[t])
  BY DEF AttemptInv, MetricsOfAll
<1>4. n \in Nat
  BY <1>3, TellingCount
<1>5. metrics[t] = [outcomes |-> ({} \cup {phase1[t]}) \cup again, attempts |-> (0 + 1) + n,
                    tooSlow |-> FALSE]
  <2>1. Recorded(t, reruns[t]) = [outcomes |-> ({} \cup {phase1[t]}) \cup again,
                                  attempts |-> (0 + 1) + n, tooSlow |-> FALSE]
    BY <1>2, RecordedValue
  <2> QED
    BY <1>3, <2>1, Zenon
<1>6. again \subseteq {"pass", "fail"}
  BY DEF PassOrFail
<1> HIDE DEF again, n
<1>7. F!RerunCount(metrics[t]) = n
  BY <1>4, <1>5 DEF F!RerunCount
<1>8. t \in Flagged <=> {"pass", "fail"} \subseteq {phase1[t]} \cup again
  BY <1>5 DEF Flagged, F!IsFlaky
<1>9. {phase1[t]} \cup again \subseteq {"pass", "fail"}
  BY <1>2, <1>6
<1>10. t \in Flagged <=> {phase1[t]} \cup again = {"pass", "fail"}
  BY <1>8, <1>9
<1> QED
  BY <1>2, <1>7, <1>10 DEF again, n

-----------------------------------------------------------------------------
(* The status of the run.                                                  *)

\* Before the run nothing went wrong; what halts it leaves a mark that no later
\* attempt takes away; and the status is the one onEnd came to.
TroubleInv ==
  /\ phase \in {"setup", "loading", "loaded"} => runErrors = {} /\ halted = "no"
  /\ "no tests found" \in runErrors => suite = {}
  /\ halted = "maxFailures" => \E c \in suite : Gates(c)
  /\ \A c \in Cases : "interrupted" \in Attempts(c) => halted # "no"
  /\ phase = "ended" => status = FinalRunStatus

\* Nothing went wrong at first.
LEMMA TroubleInit == ASSUME Init PROVE TroubleInv
  BY DEF Init, TroubleInv, Attempts

\* The attempts that follow a halt are first ones: what gates keeps gating.
LEMMA AttemptTrouble ==
  ASSUME IInv, TroubleInv, NEW c \in Cases, NEW how \in Statuses, NEW reached \in BOOLEAN,
         NEW declared \in Declares[c], Attempt(c, declared, how, reached)
  PROVE  TroubleInv'
<1>1. /\ phase = "running" /\ MayStart(c) /\ MayEnd(c, declared, how)
      /\ results' = [results EXCEPT ![c] = Append(@, how)]
      /\ \E e : expected' = [expected EXCEPT ![c] = e]
      /\ UNCHANGED <<env, phase, suite, halted, runErrors>>
  BY DEF Attempt, begun, trouble
<1>2. /\ Attempts(c)' = Attempts(c) \cup {how}
      /\ \A d \in Cases \ {c} : results'[d] = results[d] /\ Attempts(d)' = Attempts(d)
  BY <1>1, OneMore DEF IInv
<1>3. \A d \in Cases \ {c} : expected'[d] = expected[d]
  <2>1. PICK e : expected' = [expected EXCEPT ![c] = e]
    BY <1>1
  <2>2. expected \in [Cases -> AttemptStatus]
    BY DEF IInv, TypeOK
  <2> QED
    BY <2>1, <2>2
<1>4. suite \subseteq Cases
  BY DEF IInv, TypeOK
<1>5. ASSUME halted = "maxFailures" PROVE \E d \in suite : Gates(d)'
  <2>1. PICK d \in suite : Gates(d)
    BY <1>5 DEF TroubleInv
  <2>2. results[c] = <<>>
    BY <1>1, <1>5 DEF MayStart
  <2>3. d # c
    <3> SUFFICES ASSUME d = c PROVE FALSE
      OBVIOUS
    <3>1. Attempts(c) = {}
      BY <2>2 DEF Attempts
    <3>2. Outcome(c) = "skipped"
      BY <3>1 DEF Outcome
    <3> QED
      BY <2>1, <3>2 DEF Gates, Ok
  <2>4. Outcome(d)' = Outcome(d)
    BY <1>2, <1>3, <1>4, <2>3 DEF Outcome
  <2> QED
    BY <1>1, <2>1, <2>4 DEF Gates, Ok
<1>6. \A d \in Cases : "interrupted" \in Attempts(d)' => halted # "no"
  BY <1>1, <1>2 DEF TroubleInv, MayEnd
<1> QED
  BY <1>1, <1>5, <1>6 DEF TroubleInv

\* A step that leaves the attempts and the suite alone leaves outcomes alone.
LEMMA SameOutcomes ==
  ASSUME UNCHANGED <<env, attempts>>
  PROVE  \A c : Attempts(c)' = Attempts(c) /\ (Gates(c)' <=> Gates(c))
  BY DEF Attempts, Gates, Ok, Outcome, attempts

\* So every step keeps it; RunEnd reads the very state it leaves alone.
LEMMA TroubleStep == ASSUME IInv, TroubleInv, [Next]_vars PROVE TroubleInv'
<1>1. ASSUME phase \in {"setup", "loading"}, phase' \in {"setup", "loading", "loaded"},
             UNCHANGED <<env, suite, attempts, trouble>>
      PROVE  TroubleInv'
  BY <1>1, SameOutcomes DEF TroubleInv, trouble
<1>2. ASSUME NEW list, NEW names, NEW flaky, NEW context, NEW shape,
             GlobalSetup(list, names, flaky, context, shape)
      PROVE  TroubleInv'
  BY <1>1, <1>2 DEF GlobalSetup, begun
<1>3. CASE Deciding
  BY <1>1, <1>3, DecidingTypes DEF IInv, Preprocessed, begun
<1>4. ASSUME NEW readable, OnBegin(readable) PROVE TroubleInv'
  <2>1. /\ phase = "loaded" /\ phase' = "running" /\ UNCHANGED <<env, attempts, halted>>
        /\ runErrors' = IF suite' = {} /\ ~env.sharded THEN {"no tests found"} ELSE {}
    BY <1>4 DEF OnBegin
  <2>2. halted = "no"
    BY <2>1 DEF TroubleInv
  <2>3. \A c \in Cases : Attempts(c)' = Attempts(c)
    BY <2>1, SameOutcomes
  <2> QED
    BY <2>1, <2>2, <2>3 DEF TroubleInv
<1>5. ASSUME NEW why \in Halting, Halts(why) PROVE TroubleInv'
  <2>1. /\ phase = "running" /\ halted' = why /\ why # "no"
        /\ why = "maxFailures" => \E c \in suite : Gates(c)
        /\ UNCHANGED <<env, phase, suite, attempts, runErrors>>
    BY <1>5, PlaywrightConstants DEF Halts, begun
  <2> QED
    BY <2>1, SameOutcomes DEF TroubleInv
<1>6. CASE RunError
  <2>1. /\ phase = "running" /\ runErrors' = runErrors \cup {"other"}
        /\ UNCHANGED <<env, phase, suite, attempts, halted>>
    BY <1>6 DEF RunError, begun
  <2> QED
    BY <2>1, SameOutcomes DEF TroubleInv
<1>7. ASSUME NEW how, NEW duration, NEW lines, RunEnd(how, duration, lines) PROVE TroubleInv'
  <2>1. /\ phase = "running" /\ phase' = "ended" /\ status' = FinalRunStatus
        /\ UNCHANGED <<env, decision, begun, attempts, trouble>>
    BY <1>7 DEF RunEnd
  <2>2. (\E c \in suite : Gates(c))' <=> (\E c \in suite : Gates(c))
    BY <2>1, SameOutcomes DEF begun
  <2>3. FinalRunStatus' = FinalRunStatus
    BY <2>1, SameOutcomes DEF FinalRunStatus, Reported, decision, begun, trouble
  <2> QED
    BY <2>1, <2>3, SameOutcomes DEF TroubleInv, begun, trouble
<1>8. CASE UNCHANGED vars
  <2>1. UNCHANGED <<env, phase, status, decision, begun, attempts, trouble>>
    BY <1>8 DEF vars, ending
  <2>2. FinalRunStatus' = FinalRunStatus
    BY <2>1, SameOutcomes DEF FinalRunStatus, Reported, decision, begun, trouble
  <2> QED
    BY <2>1, <2>2, SameOutcomes DEF TroubleInv, begun, trouble
<1> QED
  BY StepCases, <1>2, <1>3, <1>4, <1>5, <1>6, <1>7, <1>8, AttemptTrouble

\* This invariant, too, holds in every reachable state.
LEMMA TroubleInvariance == Spec => [](IInv /\ TroubleInv)
<1>1. Init => TroubleInv
  BY TroubleInit
<1>2. IInv /\ TroubleInv /\ [Next]_vars => TroubleInv'
  BY TroubleStep
<1> QED
  BY <1>1, <1>2, Invariance, PTL DEF Spec

\* Passed is either what Playwright reported, or its failure of an emptied suite.
LEMMA GreenIsEarned == ASSUME IInv, TroubleInv PROVE GreenHidesNothing
<1> SUFFICES ASSUME phase = "ended"
             PROVE  /\ status = "passed" =>
                         /\ "other" \notin runErrors /\ halted = "no"
                         /\ \A c \in suite :
                              Failing(c) => env.failOnFlaky = FALSE /\ Outcome(c) = "flaky"
                         /\ runErrors # {} => excluded # {} /\ suite = {}
                    /\ application.outcome = "refused" => status = "failed" /\ suite \subseteq Readonly
  BY DEF GreenHidesNothing
<1>1. status = FinalRunStatus
  BY DEF TroubleInv
<1>2. ASSUME application.outcome = "refused" PROVE status = "failed" /\ suite \subseteq Readonly
  <2>1. status = "failed"
    BY <1>1, <1>2 DEF FinalRunStatus
  <2>2. /\ application = ApplyToCollected(selection, NamesOf(env.share))
        /\ kept = application.keep /\ suite = SuiteLeft
        /\ \A c \in SuiteLeft \ Readonly : NameOf[c] \in kept
    BY <1>2 DEF IInv, DecisionInv, Applied, KeptByAnswer, SuiteIsLeft
  <2>3. selection \in TestSelection /\ NamesOf(env.share) \in SUBSET Tests
    BY TypeParts, NamesType, PlaywrightConstants
       DEF IInv, SetupTypes, DecisionTypes, Collectable
  <2>4. kept = {}
    BY <1>2, <2>2, <2>3, ApplicationCounts
  <2> QED
    BY <2>1, <2>2, <2>4
<1>3. ASSUME status = "passed"
      PROVE  /\ "other" \notin runErrors /\ halted \notin {"interrupted", "timedout"}
             /\ \A c \in suite : ~Gates(c)
             /\ runErrors # {} =>
                  application.outcome = "empty" /\ application.deselectedCount > 0
  <2>1. \/ Reported = "passed"
        \/ /\ application.outcome = "empty" /\ Reported = "failed"
           /\ application.deselectedCount > 0 /\ runErrors \subseteq {"no tests found"}
           /\ \A c \in suite : ~Gates(c)
    BY <1>1, <1>3 DEF FinalRunStatus
  <2>2. CASE Reported = "passed"
    BY <2>2 DEF Reported
  <2>3. CASE /\ application.outcome = "empty" /\ Reported = "failed"
             /\ application.deselectedCount > 0 /\ runErrors \subseteq {"no tests found"}
             /\ \A c \in suite : ~Gates(c)
    BY <2>3 DEF Reported
  <2> QED
    BY <2>1, <2>2, <2>3
<1>4. ASSUME status = "passed" PROVE halted = "no"
  <2>1. halted # "maxFailures"
    BY <1>3, <1>4 DEF TroubleInv
  <2>2. halted \in {"no", "interrupted", "timedout", "maxFailures"}
    BY DEF IInv, TypeOK
  <2> QED
    BY <1>3, <1>4, <2>1, <2>2
<1>5. ASSUME status = "passed", NEW c \in suite, Failing(c)
      PROVE  env.failOnFlaky = FALSE /\ Outcome(c) = "flaky"
  <2>1. c \in Cases /\ results[c] \in Seq(Statuses) /\ env.failOnFlaky \in BOOLEAN
    BY PlaywrightConstants DEF IInv, TypeOK, Environment
  <2> DEFINE last == results[c][Len(results[c])]
  <2>2. results[c] # <<>> /\ last \notin {"skipped", expected[c]}
    BY <1>5 DEF Failing
  <2>3. last \in Attempts(c)
    <3>1. Len(results[c]) \in DOMAIN results[c]
      BY <2>1, <2>2
    <3> QED
      BY <3>1 DEF Attempts
  <2>4. last # "interrupted"
    BY <1>4, <1>5, <2>1, <2>3 DEF TroubleInv
  <2>5. last \in (Attempts(c) \ {"interrupted"}) \ {"skipped", expected[c]}
    BY <2>2, <2>3, <2>4
  <2>6. Outcome(c) \in {"unexpected", "flaky"}
    BY <2>5 DEF Outcome
  <2>7. ~Gates(c)
    BY <1>3, <1>5
  <2> QED
    BY <2>1, <2>6, <2>7 DEF Gates, Ok
<1>6. ASSUME status = "passed", runErrors # {} PROVE excluded # {} /\ suite = {}
  <2>1. suite = {}
    <3>1. "other" \notin runErrors
      BY <1>3, <1>6
    <3>2. runErrors \subseteq {"no tests found", "other"}
      BY DEF IInv, TypeOK
    <3>3. "no tests found" \in runErrors
      BY <1>6, <3>1, <3>2
    <3> QED
      BY <3>3 DEF TroubleInv
  <2>2. application.outcome = "empty" /\ application.deselectedCount > 0
    BY <1>3, <1>6
  <2>3. application = ApplyToCollected(selection, NamesOf(env.share)) /\ suite = SuiteLeft
    BY <2>2 DEF IInv, DecisionInv, Applied, KeptByAnswer, SuiteIsLeft
  <2>4. application.deselectedCount = Cardinality(NamesOf(env.share))
    BY <2>2, <2>3 DEF ApplyToCollected, Application, RunsInFull
  <2>5. env.share # {}
    <3> SUFFICES ASSUME env.share = {} PROVE FALSE
      OBVIOUS
    <3>1. Cardinality(NamesOf(env.share)) = 0
      BY NoNames, FS_EmptySet
    <3> QED
      BY <2>2, <2>4, <3>1
  <2>6. env.share \subseteq Collectable
    BY PlaywrightConstants DEF IInv, TypeOK
  <2> QED
    BY <2>1, <2>3, <2>5, <2>6 DEF SuiteLeft
<1> QED
  BY <1>2, <1>3, <1>4, <1>5, <1>6

-----------------------------------------------------------------------------
\* A test that counts against the job is in the verdict's failing list, or in its
\* quarantined one, whatever another project made of it, and what the list names
\* did fail or never ran (finalStatus, foldVerdict and sendVerdict of reporter.ts).
THEOREM FailuresAreNamed == Spec => []VerdictNamesEveryFailure
<1>1. IInv => VerdictNamesEveryFailure
  BY FailuresNamed
<1> QED
  BY <1>1, Invariance, PTL

\* A failure the fixture absorbs costs the job nothing and is accounted for
\* (applyQuarantine in fixture.ts, onTestEnd and finalStatus in reporter.ts).
THEOREM AbsorbedAreCaught == Spec => []AbsorbedIsCaught
<1>1. IInv /\ AttemptInv => AbsorbedIsCaught
  BY AbsorbedCaught
<1> QED
  BY <1>1, AttemptInvariance, PTL

\* A case that alone stands for its test reads passed or skipped only if it ended
\* the way it was expected to (finalStatus in reporter.ts).
THEOREM UnrunReadsUnrun == Spec => []NothingUnrunReadsDone
<1>1. IInv /\ AttemptInv => NothingUnrunReadsDone
  BY NothingUnrun
<1> QED
  BY <1>1, AttemptInvariance, PTL

\* A test is marked flaky exactly if the attempts that count disagree, however
\* many projects report it and whatever the rerun leaves (onTestEnd and
\* runFlakyDetectionPhase2 in reporter.ts).
THEOREM FlakyMarksEarned == Spec => []FlakyIsEarned
<1>1. IInv /\ AttemptInv => FlakyIsEarned
  BY FlakyMarks
<1> QED
  BY <1>1, AttemptInvariance, PTL

\* A run that ends green hides nothing: no failing attempt but those retried, no
\* run-level error but that of the emptied suite, no halt; and a refused run is
\* red (finalRunStatus in reporter.ts).
THEOREM GreenEarned == Spec => []GreenHidesNothing
<1>1. IInv /\ TroubleInv => GreenHidesNothing
  BY GreenIsEarned
<1> QED
  BY <1>1, TroubleInvariance, PTL
=============================================================================
