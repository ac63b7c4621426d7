-------------------------- MODULE VitestRun_proofs --------------------------
(***************************************************************************)
(* The safety properties of VitestRun, for every suite, runner and answer. *)
(* The inductive invariant has four parts: the types, what the main        *)
(* process handed the workers, what a worker did with each case, and what  *)
(* onTestRunEnd computed from them.  The second half joins it with one     *)
(* about the repeats, for what the run says of its tests: the outcomes     *)
(* flaky detection learns from, the failures that are absorbed, the        *)
(* verdict, the exit code and the terminal block.                          *)
(***************************************************************************)
EXTENDS VitestRun, TsVerdict_proofs

\* The four ways onTestRunStart may decide.
Deciding ==
  \/ DoesNotAsk \/ ShardSliceUnavailable \/ NoFingerprint
  \/ \E response \in Answers : AsksForSelection(response)

\* The steps that touch neither a case nor what was handed over.
Aside ==
  \/ \E f \in Files : ImportFails(f) \/ FinishFile(f)
  \/ UnhandledError \/ Stops

\* Learning and running, as the steps they come down to.
LEMMA StepCases ==
  ASSUME [Next]_vars
  PROVE  \/ \E outcome \in {"answered", "dormant", "threw"}, names \in Quarantines :
              QuarantineArrives(outcome, names)
         \/ \E outcome \in {"answered", "dormant", "threw"}, context \in Contexts :
              FlakyArrives(outcome, context)
         \/ Deciding
         \/ Aside
         \/ \E f \in Files, S \in SUBSET Cases : ImportFile(f, S)
         \/ \E f \in Files, S \in SUBSET Cases : HookFails(f, S)
         \/ \E c \in Cases : DeselectTask(c)
         \/ \E c \in Cases : BeforeRunTask(c)
         \/ \E c \in Cases, fails, retries \in BOOLEAN : Try(c, fails, retries)
         \/ \E c \in Cases, result \in {"pass", "fail"} : FinishTask(c, result)
         \/ \E how \in Receipts : RunEnd(how)
         \/ UNCHANGED vars
  BY DEF Next, Learns, Runs, Ended, Deciding, Aside

-----------------------------------------------------------------------------
(* Types of what the operators return.                                     *)

\* A context held by anyone is one that may be, or none.
LEMMA ContextType ==
  \A context \in Contexts \cup {F!NoContext} : context \in F!FlakyContexts
<1>1. F!NoContext \in F!FlakyContexts
  BY DEF F!NoContext, F!FlakyContexts
<1> QED
  BY <1>1, VitestConstants

\* A test of a file is repeated a number of times.
LEMMA RepeatsType ==
  ASSUME NEW context \in F!FlakyContexts, NEW session, NEW duration \in Nat
  PROVE  F!ComputeRepeatBudget(context, session, duration) \in Nat
<1>1. context.budget \in Nat /\ context.max \in Nat /\ context.min \in Nat
      /\ context.toProcess \in SUBSET Tests
  BY DEF F!FlakyContexts
<1>2. F!Candidates(context, session) \in SUBSET Tests
  BY <1>1 DEF F!Candidates
<1>3. Cardinality(F!Candidates(context, session)) \in Nat
  BY <1>2, VitestConstants, FS_Subset, FS_CardinalityType
<1> DEFINE n == Cardinality(F!Candidates(context, session))
           deadline == F!PerTestDeadline(context, session)
           extra == IF duration = 0 THEN 0
                    ELSE F!AtMost((deadline \div duration) - 1, context.max - 1)
<1>4. deadline \in Nat
  <2>1. n \in Nat
    BY <1>3
  <2>2. deadline = IF n = 0 THEN 0 ELSE context.budget \div n
    BY Zenon DEF F!PerTestDeadline, F!Cardinality, Cardinality
  <2> HIDE DEF n, deadline
  <2> QED
    BY <1>1, <2>1, <2>2
<1>5. extra \in Int
  <2> HIDE DEF deadline
  <2>1. CASE duration = 0
    BY <2>1
  <2>2. CASE duration # 0
    <3>1. deadline \div duration \in Int
      BY <1>4, <2>2
    <3>2. (deadline \div duration) - 1 \in Int /\ context.max - 1 \in Int
      BY <1>1, <3>1
    <3> QED
      BY <2>2, <3>2 DEF F!AtMost
  <2> QED
    BY <2>1, <2>2
<1>6. F!ComputeRepeatBudget(context, session, duration) =
        IF duration * context.min > deadline \/ extra < 0 THEN 0 ELSE extra
  BY DEF F!ComputeRepeatBudget
<1> HIDE DEF extra
<1> QED
  BY <1>5, <1>6

\* Noting an outcome or a duration keeps metrics what they are.
LEMMA MetricsKept ==
  ASSUME NEW m \in F!Metrics
  PROVE  /\ \A o \in {"pass", "fail"} :
              /\ F!RecordOutcome(m, o) \in F!Metrics
              /\ F!RecordOutcome(m, o).outcomes = m.outcomes \cup {o}
              /\ F!RecordOutcome(m, o).attempts = m.attempts + 1
         /\ \A more, duration \in Nat :
              /\ F!NoteDuration(m, more, duration) \in F!Metrics
              /\ F!NoteDuration(m, more, duration).outcomes = m.outcomes
              /\ F!NoteDuration(m, more, duration).attempts = m.attempts
<1>1. m.outcomes \in SUBSET {"pass", "fail"} /\ m.attempts \in Nat /\ m.tooSlow \in BOOLEAN
      /\ m = [outcomes |-> m.outcomes, attempts |-> m.attempts, tooSlow |-> m.tooSlow]
  BY DEF F!Metrics
<1>2. ASSUME NEW o \in {"pass", "fail"}
      PROVE  /\ F!RecordOutcome(m, o) \in F!Metrics
             /\ F!RecordOutcome(m, o).outcomes = m.outcomes \cup {o}
             /\ F!RecordOutcome(m, o).attempts = m.attempts + 1
  <2>1. F!RecordOutcome(m, o) = [m EXCEPT !.outcomes = @ \cup {o}, !.attempts = @ + 1]
    BY DEF F!RecordOutcome
  <2>2. F!RecordOutcome(m, o) =
          [outcomes |-> m.outcomes \cup {o}, attempts |-> m.attempts + 1, tooSlow |-> m.tooSlow]
    BY <1>1, <2>1, Zenon
  <2>3. m.outcomes \cup {o} \in SUBSET {"pass", "fail"}
    BY <1>1
  <2>4. m.attempts + 1 \in Nat
    BY <1>1
  <2> QED
    BY <1>1, <2>2, <2>3, <2>4 DEF F!Metrics
<1>3. ASSUME NEW more \in Nat, NEW duration \in Nat
      PROVE  /\ F!NoteDuration(m, more, duration) \in F!Metrics
             /\ F!NoteDuration(m, more, duration).outcomes = m.outcomes
             /\ F!NoteDuration(m, more, duration).attempts = m.attempts
  <2> DEFINE slow == m.tooSlow \/ (more = 0 /\ duration > 0)
  <2>1. F!NoteDuration(m, more, duration) = [m EXCEPT !.tooSlow = slow]
    BY DEF F!NoteDuration
  <2>2. slow \in BOOLEAN
    BY <1>1
  <2> HIDE DEF slow
  <2>3. F!NoteDuration(m, more, duration) =
          [outcomes |-> m.outcomes, attempts |-> m.attempts, tooSlow |-> slow]
    BY <1>1, <2>1, Zenon
  <2> QED
    BY <1>1, <2>2, <2>3 DEF F!Metrics
<1> QED
  BY <1>2, <1>3

-----------------------------------------------------------------------------
(* The invariant: types.                                                   *)

TryRecord == [watched : BOOLEAN, started : BOOLEAN, errorsAtTryStart : Nat,
              lastTryFailed : BOOLEAN, outcomes : Seq({"pass", "fail"})]

\* The types, by who writes the variables; of what TypeOK says of the metrics,
\* the functions that hold them.
WorldTypes == env \in Environments /\ phase \in {"initialised", "running", "ended"}
HandedTypes ==
  /\ fetching \subseteq {"quarantine", "flaky"}
  /\ quarantineList \in Quarantines \cup {{}}
  /\ flakyContext \in Contexts \cup {F!NoContext}
  /\ setupInstalled \in BOOLEAN
  /\ provided \in [quarantine : Quarantines \cup {{}}, selection : {Everything} \cup SUBSET Tests,
                   flaky : Contexts \cup {F!NoContext}]
AskedTypes == selection \in TestSelection /\ collection \in BOOLEAN
SuiteTypes ==
  /\ file \in [Files -> {"queued", "running", "done", "broken"}]
  /\ hooksFailed \subseteq Files /\ unhandled \in BOOLEAN /\ stopped \in BOOLEAN
RepeatTypes ==
  /\ errors \in [Cases -> Nat]
  /\ at \in [Cases -> [repeats : Nat, repeat : Nat, retry : 0..Retry, again : BOOLEAN]]
  /\ tries \in [Cases -> TryRecord]
  /\ truth \in [Cases -> Seq({"pass", "fail"})]
  /\ metrics \in [Files -> [Tests -> F!Metrics]]
ResultTypes ==
  /\ state \in [Cases -> CaseState] /\ meta \in [Cases -> SUBSET Marks]
  /\ raw \in [Cases -> {"none", "pass", "fail"}]
EndTypes ==
  /\ final \in [Tests -> Status] /\ application \in Applications
  /\ receipt \in Results /\ red \in BOOLEAN

TypeInv == /\ WorldTypes /\ HandedTypes /\ AskedTypes /\ SuiteTypes
           /\ RepeatTypes /\ ResultTypes /\ EndTypes

\* What they say together is TypeOK, and somewhat more.
LEMMA TypesSuffice == TypeInv => TypeOK
  BY DEF TypeInv, TypeOK, WorldTypes, HandedTypes, AskedTypes, SuiteTypes, RepeatTypes,
     ResultTypes, EndTypes

\* The suite is finite, and so is every collection of it.
LEMMA CollectedType ==
  ASSUME WorldTypes
  PROVE  /\ Collected \in SUBSET Tests
         /\ \A S \in SUBSET Cases : IsFiniteSet(S) /\ Cardinality(S) \in Nat
         /\ \A S \in SUBSET Tests : IsFiniteSet(S) /\ Cardinality(S) \in Nat
         /\ Deselected \in SUBSET Cases
  BY VitestConstants, FS_Subset, FS_CardinalityType DEF Collected, Deselected

\* The initial values have their types.
LEMMA TypesInit == ASSUME Init PROVE TypeInv
<1>1. NoSelection \in TestSelection
  BY DEF NoSelection, FullRun, TestSelection, Selections, Reasons, NotAppliedReasons
<1>2. NoApplication \in Applications
  BY DEF NoApplication, Application, Applications, Outcomes, NotAppliedReasons
<1>3. NothingRecorded \in [Tests -> Status] /\ NotSent \in Results
  BY DEF NothingRecorded, Status, NotSent, Results
<1>4. F!NoMetrics \in F!Metrics
  BY DEF F!NoMetrics, F!Metrics
<1>5. Retry \in Nat /\ 0 \in 0..Retry
  BY VitestConstants
<1>6. NoTries \in TryRecord
  <2>1. <<>> \in Seq({"pass", "fail"}) /\ 0 \in Nat
    OBVIOUS
  <2> QED
    BY <2>1 DEF NoTries, TryRecord
<1>7. NotTrying \in [repeats : Nat, repeat : Nat, retry : 0..Retry, again : BOOLEAN]
  BY <1>5 DEF NotTrying
<1>8. WorldTypes /\ HandedTypes /\ AskedTypes /\ SuiteTypes
  BY <1>1 DEF Init, WorldTypes, HandedTypes, AskedTypes, SuiteTypes
<1>9. RepeatTypes
  <2>1. truth \in [Cases -> Seq({"pass", "fail"})] /\ errors \in [Cases -> Nat]
    BY DEF Init
  <2>2. metrics \in [Files -> [Tests -> F!Metrics]]
    BY <1>4 DEF Init
  <2>3. tries \in [Cases -> TryRecord]
    BY <1>6 DEF Init
  <2>4. at \in [Cases -> [repeats : Nat, repeat : Nat, retry : 0..Retry, again : BOOLEAN]]
    BY <1>7 DEF Init
  <2> QED
    BY <2>1, <2>2, <2>3, <2>4 DEF RepeatTypes
<1>10. ResultTypes
  BY DEF Init, ResultTypes, CaseState
<1>11. EndTypes
  BY <1>2, <1>3 DEF Init, EndTypes
<1> QED
  BY <1>8, <1>9, <1>10, <1>11 DEF TypeInv

\* Handing a list over to the workers keeps what they are handed typed.
LEMMA ConfigureTypes ==
  ASSUME HandedTypes, NEW list \in Quarantines \cup {{}},
         NEW S \in {Everything} \cup SUBSET Tests, NEW context \in Contexts \cup {F!NoContext},
         \/ UNCHANGED handed
         \/ ConfigureRunner(list, provided)
         \/ ConfigureRunner(list, [provided EXCEPT !.flaky = context])
         \/ ConfigureRunner(list, [provided EXCEPT !.selection = S])
  PROVE  /\ setupInstalled' \in BOOLEAN
         /\ provided' \in [quarantine : Quarantines \cup {{}},
                           selection : {Everything} \cup SUBSET Tests,
                           flaky : Contexts \cup {F!NoContext}]
  BY DEF HandedTypes, handed, ConfigureRunner

\* What arrives before the run starts is handed over.
LEMMA ArrivesTypes ==
  ASSUME TypeInv,
         \/ \E outcome \in {"answered", "dormant", "threw"}, names \in Quarantines :
              QuarantineArrives(outcome, names)
         \/ \E outcome \in {"answered", "dormant", "threw"}, context \in Contexts :
              FlakyArrives(outcome, context)
  PROVE  TypeInv'
<1>1. UNCHANGED <<env, phase, asked, suite, repeats, results, ending>>
  BY DEF QuarantineArrives, FlakyArrives
<1>2. (WorldTypes /\ AskedTypes /\ SuiteTypes)'
  BY <1>1 DEF TypeInv, WorldTypes, AskedTypes, SuiteTypes, asked, suite
<1>3. (RepeatTypes /\ ResultTypes /\ EndTypes)'
  BY <1>1 DEF TypeInv, RepeatTypes, ResultTypes, EndTypes, repeats, results, ending
<1>4. HandedTypes'
  <2>1. ASSUME NEW outcome, NEW names \in Quarantines, QuarantineArrives(outcome, names)
        PROVE  HandedTypes'
    <3>1. quarantineList' \in Quarantines \cup {{}} /\ fetching' \subseteq {"quarantine", "flaky"}
          /\ flakyContext' \in Contexts \cup {F!NoContext}
      BY <2>1 DEF QuarantineArrives, F!FetchQuarantineList, TypeInv, HandedTypes
    <3>2. UNCHANGED handed \/ ConfigureRunner(quarantineList', provided)
      BY <2>1 DEF QuarantineArrives
    <3> QED
      BY <3>1, <3>2, ConfigureTypes DEF TypeInv, HandedTypes
  <2>2. ASSUME NEW outcome, NEW context \in Contexts, FlakyArrives(outcome, context)
        PROVE  HandedTypes'
    <3>1. quarantineList' \in Quarantines \cup {{}} /\ fetching' \subseteq {"quarantine", "flaky"}
          /\ flakyContext' \in Contexts \cup {F!NoContext} /\ quarantineList' = quarantineList
      BY <2>2 DEF FlakyArrives, F!FetchFlakyContext, TypeInv, HandedTypes
    <3>2. UNCHANGED handed
          \/ ConfigureRunner(quarantineList', [provided EXCEPT !.flaky = flakyContext'])
      BY <2>2, <3>1 DEF FlakyArrives
    <3> QED
      BY <3>1, <3>2, ConfigureTypes DEF TypeInv, HandedTypes
  <2> QED
    BY <2>1, <2>2
<1> QED
  BY <1>2, <1>3, <1>4 DEF TypeInv

\* Whether it asks or not, the run starts on a typed selection.
LEMMA DecidingTypes == ASSUME TypeInv, Deciding PROVE TypeInv' /\ RunStarts
<1>1. RunStarts
  BY DEF Deciding, DoesNotAsk, ShardSliceUnavailable, NoFingerprint, AsksForSelection
<1>2. UNCHANGED <<env, fetched, suite, repeats, results, ending>> /\ phase' = "running"
  BY <1>1 DEF RunStarts
<1>3. (WorldTypes /\ SuiteTypes /\ RepeatTypes)'
  BY <1>2 DEF TypeInv, WorldTypes, SuiteTypes, RepeatTypes, suite, repeats
<1>4. (ResultTypes /\ EndTypes)'
  BY <1>2 DEF TypeInv, ResultTypes, EndTypes, results, ending
<1>5. AskedTypes' /\ (UNCHANGED handed
        \/ ConfigureRunner(quarantineList, [provided EXCEPT !.selection = selection'.tests]))
  <2>1. CASE DoesNotAsk \/ NoFingerprint
    BY <2>1 DEF DoesNotAsk, NoFingerprint, asked, TypeInv, AskedTypes
  <2>2. CASE ShardSliceUnavailable
    <3>1. "shard_slice_unavailable" \in Reasons
      BY DEF Reasons
    <3> QED
      BY <2>2, <3>1, FullRunType DEF ShardSliceUnavailable, TypeInv, AskedTypes
  <2>3. ASSUME NEW response \in Answers, AsksForSelection(response)
        PROVE  AskedTypes' /\ (UNCHANGED handed
          \/ ConfigureRunner(quarantineList, [provided EXCEPT !.selection = selection'.tests]))
    BY <2>3, SelectionType, VitestConstants DEF AsksForSelection, AskedTypes
  <2> QED
    BY <2>1, <2>2, <2>3 DEF Deciding
<1>6. HandedTypes'
  <2>1. selection'.tests \in SUBSET Tests
    BY <1>5 DEF AskedTypes, TestSelection
  <2>2. UNCHANGED <<fetching, quarantineList, flakyContext>>
    BY <1>2 DEF fetched
  <2> QED
    BY <1>5, <2>1, <2>2, ConfigureTypes DEF TypeInv, HandedTypes
<1> QED
  BY <1>1, <1>3, <1>4, <1>5, <1>6 DEF TypeInv

\* Where only the suite moves, no type does.
LEMMA AsideTypes == ASSUME TypeInv, Aside PROVE TypeInv'
<1>1. UNCHANGED <<env, phase, fetched, handed, asked, repeats, results, ending>>
  BY DEF Aside, ImportFails, FinishFile, UnhandledError, Stops
<1>2. (WorldTypes /\ HandedTypes /\ AskedTypes)'
  BY <1>1 DEF TypeInv, WorldTypes, HandedTypes, AskedTypes, fetched, handed, asked
<1>3. (RepeatTypes /\ ResultTypes /\ EndTypes)'
  BY <1>1 DEF TypeInv, RepeatTypes, ResultTypes, EndTypes, repeats, results, ending
<1>4. SuiteTypes'
  BY DEF Aside, ImportFails, FinishFile, UnhandledError, Stops, TypeInv, SuiteTypes
<1> QED
  BY <1>2, <1>3, <1>4 DEF TypeInv

\* What a step of a worker leaves alone.
LEMMA WorkerTypes ==
  ASSUME TypeInv, UNCHANGED <<env, phase, fetched, handed, asked, ending>>
  PROVE  (WorldTypes /\ HandedTypes /\ AskedTypes /\ EndTypes)'
<1>1. (WorldTypes /\ HandedTypes)'
  BY DEF TypeInv, WorldTypes, HandedTypes, fetched, handed
<1>2. (AskedTypes /\ EndTypes)'
  BY DEF TypeInv, AskedTypes, EndTypes, asked, ending
<1> QED
  BY <1>1, <1>2

\* Leaving tests out marks them and settles their state.
LEMMA LeavingTypes ==
  ASSUME TypeInv,
         \/ \E f \in Files, S \in SUBSET Cases : ImportFile(f, S)
         \/ \E f \in Files, S \in SUBSET Cases : HookFails(f, S)
         \/ \E c \in Cases : DeselectTask(c)
  PROVE  TypeInv'
<1>1. UNCHANGED <<env, phase, fetched, handed, asked, repeats, raw, ending>>
  BY DEF ImportFile, HookFails, DeselectTask, suite
<1>2. (WorldTypes /\ HandedTypes /\ AskedTypes /\ EndTypes)'
  BY <1>1, WorkerTypes
<1>3. RepeatTypes'
  BY <1>1 DEF TypeInv, RepeatTypes, repeats
<1>4. SuiteTypes'
  BY DEF ImportFile, HookFails, DeselectTask, suite, TypeInv, SuiteTypes
<1>5. state' \in [Cases -> CaseState]
  BY DEF ImportFile, HookFails, DeselectTask, TypeInv, ResultTypes, CaseState
<1>6. meta' \in [Cases -> SUBSET Marks]
  <2>1. {"deselected"} \in SUBSET Marks /\ {"applied", "deselected"} \in SUBSET Marks
    BY DEF Marks
  <2>2. meta \in [Cases -> SUBSET Marks]
    BY DEF TypeInv, ResultTypes
  <2>3. ASSUME NEW f, NEW S, ImportFile(f, S) PROVE meta' \in [Cases -> SUBSET Marks]
    <3>1. PICK out : meta' = [c \in Cases |-> IF c \in out THEN {"deselected"} ELSE meta[c]]
      BY <2>3 DEF ImportFile
    <3> QED
      BY <2>1, <2>2, <3>1
  <2>4. ASSUME NEW c \in Cases, DeselectTask(c) PROVE meta' \in [Cases -> SUBSET Marks]
    <3>1. meta[c] \cup {"applied", "deselected"} \in SUBSET Marks
      BY <2>1, <2>2
    <3>2. meta' = [meta EXCEPT ![c] = @ \cup {"applied", "deselected"}]
      BY <2>4 DEF DeselectTask
    <3> QED
      BY <2>2, <3>1, <3>2
  <2>5. ASSUME NEW f, NEW S, HookFails(f, S) PROVE meta' \in [Cases -> SUBSET Marks]
    BY <2>2, <2>5 DEF HookFails
  <2> QED
    BY <2>3, <2>4, <2>5
<1>7. raw' \in [Cases -> {"none", "pass", "fail"}]
  BY <1>1 DEF TypeInv, ResultTypes
<1> QED
  BY <1>2, <1>3, <1>4, <1>5, <1>6, <1>7 DEF TypeInv, ResultTypes

\* One measure written, the others left.
LEMMA MetricsWritten ==
  ASSUME RepeatTypes, NEW c \in Cases, NEW m \in F!Metrics,
         metrics' = [metrics EXCEPT ![FileOf[c]][NameOf[c]] = m]
  PROVE  /\ metrics' \in [Files -> [Tests -> F!Metrics]]
         /\ metrics'[FileOf[c]][NameOf[c]] = m
         /\ \A f \in Files, t \in Tests :
              f # FileOf[c] \/ t # NameOf[c] => metrics'[f][t] = metrics[f][t]
  BY VitestConstants DEF RepeatTypes

\* Where a worker reads what was measured of a case.
LEMMA MeasureType ==
  ASSUME RepeatTypes, NEW c \in Cases
  PROVE  FileOf[c] \in Files /\ NameOf[c] \in Tests /\ metrics[FileOf[c]][NameOf[c]] \in F!Metrics
  BY VitestConstants DEF RepeatTypes

\* Closing a try and recording a repeat.
LEMMA TryKept ==
  ASSUME NEW t \in TryRecord, NEW count \in Nat
  PROVE  /\ CloseTry(t, count) \in TryRecord
         /\ CloseTry(t, count).outcomes = t.outcomes
         /\ CloseTry(t, count).watched = t.watched /\ CloseTry(t, count).started = t.started
         /\ CloseTry(t, count).errorsAtTryStart = count
         /\ OutcomeOf(CloseTry(t, count)) = IF count > t.errorsAtTryStart THEN "fail" ELSE "pass"
         /\ RecordRepeat(t) \in TryRecord
         /\ RecordRepeat(t).outcomes = Append(t.outcomes, OutcomeOf(t))
         /\ RecordRepeat(t).watched = t.watched /\ RecordRepeat(t).started = t.started
         /\ RecordRepeat(t).errorsAtTryStart = t.errorsAtTryStart
         /\ OutcomeOf(t) \in {"pass", "fail"}
<1>1. /\ t.watched \in BOOLEAN /\ t.started \in BOOLEAN /\ t.errorsAtTryStart \in Nat
      /\ t.lastTryFailed \in BOOLEAN /\ t.outcomes \in Seq({"pass", "fail"})
      /\ t = [watched |-> t.watched, started |-> t.started,
              errorsAtTryStart |-> t.errorsAtTryStart, lastTryFailed |-> t.lastTryFailed,
              outcomes |-> t.outcomes]
  BY DEF TryRecord
<1>2. OutcomeOf(t) \in {"pass", "fail"}
  BY DEF OutcomeOf
<1>3. Append(t.outcomes, OutcomeOf(t)) \in Seq({"pass", "fail"})
  BY <1>1, <1>2
<1> DEFINE failed == count > t.errorsAtTryStart
<1>4. failed \in BOOLEAN
  OBVIOUS
<1>5. CloseTry(t, count) = [t EXCEPT !.lastTryFailed = failed, !.errorsAtTryStart = count]
      /\ RecordRepeat(t) = [t EXCEPT !.outcomes = Append(t.outcomes, OutcomeOf(t))]
  BY DEF CloseTry, RecordRepeat
<1> HIDE DEF failed
<1>6. /\ CloseTry(t, count) =
           [watched |-> t.watched, started |-> t.started, errorsAtTryStart |-> count,
            lastTryFailed |-> failed, outcomes |-> t.outcomes]
      /\ RecordRepeat(t) =
           [watched |-> t.watched, started |-> t.started,
            errorsAtTryStart |-> t.errorsAtTryStart, lastTryFailed |-> t.lastTryFailed,
            outcomes |-> Append(t.outcomes, OutcomeOf(t))]
  BY <1>1, <1>5, Zenon
<1>7. /\ CloseTry(t, count) \in TryRecord /\ CloseTry(t, count).outcomes = t.outcomes
      /\ CloseTry(t, count).watched = t.watched /\ CloseTry(t, count).started = t.started
      /\ CloseTry(t, count).errorsAtTryStart = count /\ CloseTry(t, count).lastTryFailed = failed
  BY <1>1, <1>4, <1>6 DEF TryRecord
<1>8. /\ RecordRepeat(t) \in TryRecord
      /\ RecordRepeat(t).outcomes = Append(t.outcomes, OutcomeOf(t))
      /\ RecordRepeat(t).watched = t.watched /\ RecordRepeat(t).started = t.started
      /\ RecordRepeat(t).errorsAtTryStart = t.errorsAtTryStart
  BY <1>1, <1>3, <1>6 DEF TryRecord
<1> QED
  BY <1>2, <1>7, <1>8 DEF OutcomeOf, failed

\* Starting a case decides its repeats.
LEMMA BeforeRunTaskTypes ==
  ASSUME TypeInv, NEW c \in Cases, BeforeRunTask(c) PROVE TypeInv'
<1>1. UNCHANGED <<env, phase, fetched, handed, asked, suite, raw, errors, truth, ending>>
  BY DEF BeforeRunTask
<1>2. (WorldTypes /\ HandedTypes /\ AskedTypes /\ EndTypes)'
  BY <1>1, WorkerTypes
<1>3. SuiteTypes'
  BY <1>1 DEF TypeInv, SuiteTypes, suite
<1>4. ResultTypes'
  <2>1. PICK on \in SUBSET {"applied"}, off \in SUBSET {"flakyUnavailable"} :
          meta' = [meta EXCEPT ![c] = @ \cup on \cup off]
    BY DEF BeforeRunTask
  <2>2. meta[c] \cup on \cup off \in SUBSET Marks
    BY DEF TypeInv, ResultTypes, Marks
  <2>3. meta' \in [Cases -> SUBSET Marks]
    BY <2>1, <2>2 DEF TypeInv, ResultTypes
  <2>4. state' \in [Cases -> CaseState]
    BY DEF BeforeRunTask, TypeInv, ResultTypes, CaseState
  <2> QED
    BY <1>1, <2>3, <2>4 DEF TypeInv, ResultTypes
<1>5. MaxRepeats(c) \in Nat /\ provided.flaky.mean \in Nat
  <2>1. provided.flaky \in F!FlakyContexts
    BY ContextType DEF TypeInv, HandedTypes
  <2>2. provided.flaky.mean \in Nat
    BY <2>1 DEF F!FlakyContexts
  <2> QED
    BY <2>1, <2>2, RepeatsType DEF MaxRepeats
<1>6. at' \in [Cases -> [repeats : Nat, repeat : Nat, retry : 0..Retry, again : BOOLEAN]]
  <2>1. \A n \in Nat : [NotTrying EXCEPT !.again = TRUE, !.repeats = n]
                         \in [repeats : Nat, repeat : Nat, retry : 0..Retry, again : BOOLEAN]
    <3>1. 0 \in 0..Retry /\ 0 \in Nat
      BY VitestConstants
    <3> QED
      BY <3>1 DEF NotTrying
  <2>2. PICK n \in Nat : at' = [at EXCEPT ![c] = [NotTrying EXCEPT !.again = TRUE, !.repeats = n]]
    BY <1>5 DEF BeforeRunTask
  <2> QED
    BY <2>1, <2>2 DEF TypeInv, RepeatTypes
<1>7. tries' \in [Cases -> TryRecord]
  <2>1. \A w \in BOOLEAN : [NoTries EXCEPT !.watched = w] \in TryRecord
    <3>1. <<>> \in Seq({"pass", "fail"}) /\ 0 \in Nat
      OBVIOUS
    <3> QED
      BY <3>1 DEF NoTries, TryRecord
  <2>2. PICK w \in BOOLEAN : tries' = [tries EXCEPT ![c] = [NoTries EXCEPT !.watched = w]]
    <3>1. Watches(c) \in BOOLEAN
      BY DEF Watches, Reaches, IsCandidate, WorldTypes, TypeInv, HandedTypes, Environment,
         VitestConstants
    <3> QED
      BY <3>1 DEF BeforeRunTask
  <2> QED
    BY <2>1, <2>2 DEF TypeInv, RepeatTypes
<1>8. metrics' \in [Files -> [Tests -> F!Metrics]]
  <2> DEFINE m == F!NoteDuration(metrics[FileOf[c]][NameOf[c]], MaxRepeats(c), provided.flaky.mean)
  <2>1. m \in F!Metrics
    BY <1>5, MeasureType, MetricsKept DEF TypeInv
  <2>2. metrics' = metrics \/ metrics' = [metrics EXCEPT ![FileOf[c]][NameOf[c]] = m]
    BY DEF BeforeRunTask
  <2> HIDE DEF m
  <2> QED
    BY <2>1, <2>2, MetricsWritten DEF TypeInv, RepeatTypes
<1> QED
  BY <1>1, <1>2, <1>3, <1>4, <1>6, <1>7, <1>8 DEF TypeInv, RepeatTypes

\* What the hook before a try makes of the last one.
LEMMA BeforeTryTypes ==
  ASSUME RepeatTypes, NEW c \in Cases, BeforeTry(c)
  PROVE  tries' \in [Cases -> TryRecord] /\ metrics' \in [Files -> [Tests -> F!Metrics]]
<1> DEFINE closed == CloseTry(tries[c], errors[c])
           opened == [tries[c] EXCEPT !.started = TRUE, !.errorsAtTryStart = errors[c]]
           m == F!RecordOutcome(metrics[FileOf[c]][NameOf[c]], OutcomeOf(closed))
<1>1. tries[c] \in TryRecord /\ errors[c] \in Nat
  BY DEF RepeatTypes
<1>2. closed \in TryRecord /\ RecordRepeat(closed) \in TryRecord /\ OutcomeOf(closed) \in {"pass", "fail"}
  BY <1>1, TryKept
<1>3. opened \in TryRecord
  BY <1>1 DEF TryRecord
<1>4. m \in F!Metrics
  BY <1>2, MeasureType, MetricsKept
<1>5. \/ UNCHANGED <<tries, metrics>>
      \/ tries' = [tries EXCEPT ![c] = opened] /\ UNCHANGED metrics
      \/ tries' = [tries EXCEPT ![c] = closed] /\ UNCHANGED metrics
      \/ /\ tries' = [tries EXCEPT ![c] = RecordRepeat(closed)]
         /\ metrics' = [metrics EXCEPT ![FileOf[c]][NameOf[c]] = m]
  BY DEF BeforeTry, RepeatTypes
<1> HIDE DEF closed, opened, m
<1>6. tries' \in [Cases -> TryRecord]
  BY <1>2, <1>3, <1>5 DEF RepeatTypes
<1>7. metrics' = metrics \/ metrics' = [metrics EXCEPT ![FileOf[c]][NameOf[c]] = m]
  BY <1>5
<1>8. metrics' \in [Files -> [Tests -> F!Metrics]]
  BY <1>4, <1>7, MetricsWritten DEF RepeatTypes
<1> QED
  BY <1>6, <1>8

\* A try counts its errors and moves on.
LEMMA TryTypes ==
  ASSUME TypeInv, NEW c \in Cases, NEW fails \in BOOLEAN, NEW retries \in BOOLEAN,
         Try(c, fails, retries)
  PROVE  TypeInv'
<1>1. UNCHANGED <<env, phase, fetched, handed, asked, suite, results, ending>>
  BY DEF Try
<1>2. (WorldTypes /\ HandedTypes /\ AskedTypes /\ EndTypes)'
  BY <1>1, WorkerTypes
<1>3. (SuiteTypes /\ ResultTypes)'
  BY <1>1 DEF TypeInv, SuiteTypes, ResultTypes, suite, results
<1>4. tries' \in [Cases -> TryRecord] /\ metrics' \in [Files -> [Tests -> F!Metrics]]
  BY BeforeTryTypes DEF Try, TypeInv
<1>5. errors' \in [Cases -> Nat]
  BY DEF Try, TypeInv, RepeatTypes
<1>6. at' \in [Cases -> [repeats : Nat, repeat : Nat, retry : 0..Retry, again : BOOLEAN]]
  <2>1. at[c] \in [repeats : Nat, repeat : Nat, retry : 0..Retry, again : BOOLEAN] /\ Retry \in Nat
    BY VitestConstants DEF TypeInv, RepeatTypes
  <2>2. CASE retries
    <3>1. at[c].retry < Retry /\ at' = [at EXCEPT ![c].retry = @ + 1]
      BY <2>2 DEF Try
    <3>2. at[c].retry + 1 \in 0..Retry
      BY <2>1, <3>1
    <3> QED
      BY <3>1, <3>2 DEF TypeInv, RepeatTypes
  <2>3. CASE ~retries
    <3> DEFINE more == at[c].repeat < at[c].repeats
    <3>1. at' = [at EXCEPT ![c].retry = 0, ![c].repeat = @ + 1, ![c].again = more]
      BY <2>3 DEF Try
    <3>2. at[c].repeat + 1 \in Nat /\ 0 \in 0..Retry
      BY <2>1
    <3>3. more \in BOOLEAN
      OBVIOUS
    <3> HIDE DEF more
    <3> QED
      BY <2>1, <3>1, <3>2, <3>3 DEF TypeInv, RepeatTypes
  <2> QED
    BY <2>2, <2>3
<1>7. truth' \in [Cases -> Seq({"pass", "fail"})]
  <2>1. truth[c] \in Seq({"pass", "fail"})
    BY DEF TypeInv, RepeatTypes
  <2>2. \A o \in {"pass", "fail"} : Append(truth[c], o) \in Seq({"pass", "fail"})
    BY <2>1
  <2>3. truth' = truth \/ \E o \in {"pass", "fail"} : truth' = [truth EXCEPT ![c] = Append(@, o)]
    BY DEF Try
  <2> QED
    BY <2>2, <2>3 DEF TypeInv, RepeatTypes
<1> QED
  BY <1>2, <1>3, <1>4, <1>5, <1>6, <1>7 DEF TypeInv, RepeatTypes

\* What the hook after a case works with: whether its tries were watched, what
\* they come to with the last one, what is measured then, and the marks it adds.
Judged(c) == tries[c].watched /\ tries[c].started
LastOutcome(c) == OutcomeOf(CloseTry(tries[c], errors[c]))
Closing(c) == RecordRepeat(CloseTry(tries[c], errors[c]))
Measuring(c) == F!RecordOutcome(metrics[FileOf[c]][NameOf[c]], LastOutcome(c))
Absorbing(c, result) ==
  Judged(c) /\ provided.flaky.mode = "unhealthy" /\ result = "fail" /\ Closing(c).outcomes[1] = "pass"
Catching(c, result) == result = "fail" /\ NameOf[c] \in provided.quarantine
Adding(c, result) ==
  (IF tries[c].watched /\ ~tries[c].started THEN {"flakyBypassed"} ELSE {})
  \cup (IF Judged(c) THEN {"checked"} ELSE {})
  \cup (IF Judged(c) /\ F!IsFlaky(Measuring(c)) THEN {"flaky"} ELSE {})
  \cup (IF Absorbing(c, result) THEN {"absorbedFailure"} ELSE {})
  \cup (IF Catching(c, result) THEN {"quarantined"} ELSE {})

\* The end of a case in those terms.
LEMMA Finishing ==
  ASSUME TypeInv, NEW c \in Cases, NEW result, FinishTask(c, result)
  PROVE  IF Reaches("task")
         THEN /\ tries' = IF Judged(c) THEN [tries EXCEPT ![c] = Closing(c)] ELSE tries
              /\ metrics' = IF Judged(c) THEN [metrics EXCEPT ![FileOf[c]][NameOf[c]] = Measuring(c)]
                                         ELSE metrics
              /\ meta' = [meta EXCEPT ![c] = @ \cup Adding(c, result)]
              /\ state' = [state EXCEPT ![c] =
                   IF result = "pass" \/ Absorbing(c, result) \/ Catching(c, result)
                   THEN "passed" ELSE "failed"]
         ELSE /\ UNCHANGED <<tries, metrics, meta>>
              /\ state' = [state EXCEPT ![c] = IF result = "pass" THEN "passed" ELSE "failed"]
<1>1. CASE Reaches("task")
  <2> DEFINE bypassed == IF tries[c].watched /\ ~tries[c].started THEN {"flakyBypassed"} ELSE {}
             checked == IF Judged(c) THEN {"checked"} ELSE {}
             flaky == IF Judged(c) /\ F!IsFlaky(Measuring(c)) THEN {"flaky"} ELSE {}
             absorbed == IF Absorbing(c, result) THEN {"absorbedFailure"} ELSE {}
             caught == IF Catching(c, result) THEN {"quarantined"} ELSE {}
  <2>1. /\ tries' = IF Judged(c) THEN [tries EXCEPT ![c] = Closing(c)] ELSE tries
        /\ metrics' = IF Judged(c) THEN [metrics EXCEPT ![FileOf[c]][NameOf[c]] = Measuring(c)]
                                   ELSE metrics
        /\ state' = [state EXCEPT ![c] =
             IF result = "pass" \/ Absorbing(c, result) \/ Catching(c, result)
             THEN "passed" ELSE "failed"]
    BY <1>1, Zenon DEF FinishTask, AfterRunTask, Judged, LastOutcome, Closing, Measuring,
       Absorbing, Catching
  <2>2. meta' = [meta EXCEPT ![c] = @ \cup bypassed \cup checked \cup flaky \cup absorbed \cup caught]
    BY <1>1, Zenon DEF FinishTask, AfterRunTask, Judged, LastOutcome, Closing, Measuring,
       Absorbing, Catching
  <2>3. Adding(c, result) = bypassed \cup checked \cup flaky \cup absorbed \cup caught
    BY Zenon DEF Adding
  <2> HIDE DEF bypassed, checked, flaky, absorbed, caught
  <2>4. meta[c] \cup bypassed \cup checked \cup flaky \cup absorbed \cup caught
          = meta[c] \cup Adding(c, result)
    BY <2>3
  <2>5. meta' = [meta EXCEPT ![c] = @ \cup Adding(c, result)]
    BY <2>2, <2>4
  <2> QED
    BY <1>1, <2>1, <2>5
<1>2. CASE ~Reaches("task")
  BY <1>2 DEF FinishTask
<1> QED
  BY <1>1, <1>2

\* What a case came to is passed or failed, with the marks the runner leaves.
LEMMA FinishTaskTypes ==
  ASSUME TypeInv, NEW c \in Cases, NEW result \in {"pass", "fail"}, FinishTask(c, result)
  PROVE  TypeInv'
<1>1. UNCHANGED <<env, phase, fetched, handed, asked, suite, errors, truth, ending>>
  BY DEF FinishTask
<1>2. (WorldTypes /\ HandedTypes /\ AskedTypes /\ EndTypes)'
  BY <1>1, WorkerTypes
<1>3. SuiteTypes'
  BY <1>1 DEF TypeInv, SuiteTypes, suite
<1>4. tries[c] \in TryRecord /\ errors[c] \in Nat
  BY DEF TypeInv, RepeatTypes
<1>5. Closing(c) \in TryRecord /\ LastOutcome(c) \in {"pass", "fail"}
  BY <1>4, TryKept DEF Closing, LastOutcome
<1>6. Measuring(c) \in F!Metrics
  BY <1>5, MeasureType, MetricsKept DEF TypeInv, Measuring
<1>7. /\ tries' = tries \/ tries' = [tries EXCEPT ![c] = Closing(c)]
      /\ metrics' = metrics \/ metrics' = [metrics EXCEPT ![FileOf[c]][NameOf[c]] = Measuring(c)]
      /\ state' = [state EXCEPT ![c] = "passed"] \/ state' = [state EXCEPT ![c] = "failed"]
      /\ meta' = meta \/ meta' = [meta EXCEPT ![c] = @ \cup Adding(c, result)]
  BY Finishing
<1>8. Adding(c, result) \in SUBSET Marks
  BY DEF Adding, Marks
<1>9. ResultTypes'
  <2>1. raw' \in [Cases -> {"none", "pass", "fail"}]
    BY DEF FinishTask, TypeInv, ResultTypes
  <2>2. state' \in [Cases -> CaseState]
    BY <1>7 DEF TypeInv, ResultTypes, CaseState
  <2>3. meta' \in [Cases -> SUBSET Marks]
    <3>1. meta[c] \cup Adding(c, result) \in SUBSET Marks
      BY <1>8 DEF TypeInv, ResultTypes
    <3> QED
      BY <1>7, <3>1 DEF TypeInv, ResultTypes
  <2> QED
    BY <2>1, <2>2, <2>3 DEF ResultTypes
<1>10. RepeatTypes'
  <2>1. at' \in [Cases -> [repeats : Nat, repeat : Nat, retry : 0..Retry, again : BOOLEAN]]
    <3>1. NotTrying \in [repeats : Nat, repeat : Nat, retry : 0..Retry, again : BOOLEAN]
      BY VitestConstants DEF NotTrying
    <3> QED
      BY <3>1 DEF FinishTask, TypeInv, RepeatTypes
  <2>2. tries' \in [Cases -> TryRecord]
    BY <1>5, <1>7 DEF TypeInv, RepeatTypes
  <2>3. metrics' \in [Files -> [Tests -> F!Metrics]]
    BY <1>6, <1>7, MetricsWritten DEF TypeInv, RepeatTypes
  <2> QED
    BY <1>1, <2>1, <2>2, <2>3 DEF TypeInv, RepeatTypes
<1> QED
  BY <1>2, <1>3, <1>9, <1>10 DEF TypeInv

\* onTestRunEnd settles the selection and folds the verdict.
LEMMA SettledType == ASSUME TypeInv PROVE SettleSelection \in Applications
<1>1. NoApplication \in Applications
  BY DEF NoApplication, Application, Applications, Outcomes, NotAppliedReasons
<1>2. ApplyToCollected(selection, Collected) \in Applications
  BY CollectedType, ApplicationType, VitestConstants DEF TypeInv, AskedTypes
<1>3. Cardinality(Deselected) \in Nat
  BY CollectedType DEF TypeInv
<1>4. \A a \in Applications, n \in Nat : [a EXCEPT !.deselectedCount = n] \in Applications
  BY DEF Applications
<1> QED
  BY <1>1, <1>2, <1>3, <1>4 DEF SettleSelection

\* The end of the run computes typed values.
LEMMA RunEndTypes ==
  ASSUME TypeInv, NEW how \in Receipts, RunEnd(how) PROVE TypeInv'
<1>1. UNCHANGED <<env, fetched, handed, asked, suite, repeats, results>> /\ phase' = "ended"
  BY DEF RunEnd
<1>2. (WorldTypes /\ HandedTypes /\ AskedTypes)'
  BY <1>1 DEF TypeInv, WorldTypes, HandedTypes, AskedTypes, fetched, handed, asked
<1>3. (SuiteTypes /\ RepeatTypes /\ ResultTypes)'
  BY <1>1 DEF TypeInv, SuiteTypes, RepeatTypes, ResultTypes, suite, repeats, results
<1>4. final' \in [Tests -> Status] /\ application' \in Applications
  BY FoldType, SettledType DEF RunEnd
<1>5. receipt' \in Results
  <2>1. \A r : SendSessionVerdict(r) \in Results
    BY DEF SendSessionVerdict, Results
  <2>2. NotSent \in Results
    BY DEF NotSent, Results
  <2> QED
    BY <2>1, <2>2 DEF RunEnd, SendVerdict
<1>6. red' \in BOOLEAN
  <2>1. unhandled \in BOOLEAN /\ stopped \in BOOLEAN
    BY DEF TypeInv, SuiteTypes
  <2>2. EndsRed \in BOOLEAN
    BY <2>1 DEF EndsRed, Withheld, Refused, Actionable, SubsetGuardFails
  <2> QED
    BY <2>2 DEF RunEnd
<1>7. EndTypes'
  BY <1>4, <1>5, <1>6 DEF EndTypes
<1> QED
  BY <1>2, <1>3, <1>7 DEF TypeInv

\* Where nothing changes, no type does.
LEMMA StutterTypes == ASSUME TypeInv, UNCHANGED vars PROVE TypeInv'
<1>1. (WorldTypes /\ HandedTypes /\ AskedTypes /\ SuiteTypes)'
  BY DEF vars, TypeInv, WorldTypes, HandedTypes, AskedTypes, SuiteTypes, fetched, handed, asked, suite
<1>2. (RepeatTypes /\ ResultTypes /\ EndTypes)'
  BY DEF vars, TypeInv, RepeatTypes, ResultTypes, EndTypes, repeats, results, ending
<1> QED
  BY <1>1, <1>2 DEF TypeInv

\* So every step keeps the types.
LEMMA TypesStep == ASSUME TypeInv, [Next]_vars PROVE TypeInv'
  BY StepCases, ArrivesTypes, DecidingTypes, AsideTypes, LeavingTypes, BeforeRunTaskTypes, TryTypes,
     FinishTaskTypes, RunEndTypes, StutterTypes

-----------------------------------------------------------------------------
(* The invariant: what was handed over, and what became of each case.      *)

\* The workers are told to run what an answer in force serves, and only then.
Offered ==
  provided.selection = IF HandsToRunner(selection) THEN selection.tests ELSE Everything

\* They hold the list and the context the main process holds, through a setup
\* file that is there as soon as there is anything to hand over.
Current ==
  /\ provided.quarantine = quarantineList /\ provided.flaky = flakyContext
  /\ "quarantine" \in fetching => quarantineList = {}
  /\ "flaky" \in fetching => flakyContext = F!NoContext
Installed == provided.selection # Everything \/ quarantineList # {} => setupInstalled

\* Only a subset carries tests, and only Mergify serves one.
WellAnswered ==
  /\ selection.selection \in {"refused", "empty"} => selection.tests = {}
  /\ selection.selection = "subset" => selection.served
  /\ selection.reason = "fetch_failed" => selection.selection = "full"

\* Nothing is selected and no file touched before the run starts.
Unstarted == phase = "initialised" => selection = NoSelection /\ \A f \in Files : file[f] = "queued"

HandedInv == Offered /\ Current /\ Installed /\ WellAnswered /\ Unstarted

\* A case is there once its file was imported, and has no mark before it ran.
Present(c) ==
  /\ state[c] = "absent" <=> file[FileOf[c]] \in {"queued", "broken"}
  /\ state[c] \in {"absent", "pending"} => meta[c] = {}
  /\ state[c] = "running" => meta[c] \subseteq {"applied", "flakyUnavailable"}
  /\ ~Reaches("task") => "applied" \notin meta[c]

\* A case is deselected exactly if the subset leaves it out, once every hook that
\* can see to it did; and none that is left out runs.
MarkedOut(c) ==
  /\ state[c] = "skipped" => meta[c] = {} \/ "deselected" \in meta[c]
  /\ "deselected" \in meta[c] => LeftOut(c) /\ state[c] = "skipped"
  /\ Reaches("suite") /\ LeftOut(c) /\ state[c] # "absent" => "deselected" \in meta[c]
  /\ state[c] \in {"running", "passed", "failed"} => ~LeftOut(c)

\* A failure that stands is not one the extension would have taken.
Unabsorbed(c) ==
  state[c] = "failed" =>
    /\ meta[c] \cap {"quarantined", "absorbedFailure"} = {}
    /\ Reaches("task") => NameOf[c] \notin provided.quarantine

CaseInv == \A c \in Cases : Present(c) /\ MarkedOut(c) /\ Unabsorbed(c)

\* A file is done when its cases are, but for those a stop kept from running.
FileInv ==
  \A c \in Cases : file[FileOf[c]] = "done" =>
    /\ state[c] \in Settled \/ (stopped /\ state[c] = "pending")
    /\ AwaitsDeselection(c) => stopped \/ FileOf[c] \in hooksFailed

\* What onTestRunEnd computed is of the state it left alone.
EndInv ==
  IF phase = "ended"
  THEN /\ application = SettleSelection /\ final = Fold(Records) /\ red = EndsRed
       /\ block = ReportTestSelection
       /\ \A f \in Files : file[f] \in {"done", "broken"} \/ (stopped /\ file[f] = "queued")
       /\ echo = (IF selection = NoSelection THEN NoEcho ELSE SelectionEcho(selection, application))
       /\ receipt.sent =>
            ~Withheld /\ verdict = BuildSessionVerdict(Cardinality(Collected), final, echo)
  ELSE block = NoBlock /\ ~receipt.sent

IInv == TypeInv /\ HandedInv /\ CaseInv /\ FileInv /\ EndInv

\* No case runs once the run has ended.
LEMMA NoneRunning ==
  ASSUME IInv, phase = "ended" PROVE \A c \in Cases : state[c] # "running"
<1>1. \A c \in Cases : FileOf[c] \in Files
  BY VitestConstants
<1> QED
  BY <1>1 DEF IInv, EndInv, CaseInv, Present, FileInv, Settled

\* Nothing is there at first.
LEMMA InvInit == ASSUME Init PROVE IInv
<1>1. NoSelection.selection = "unrecognised" /\ NoSelection.reason = "not_requested"
  BY DEF NoSelection, FullRun
<1>2. HandedInv
  BY <1>1 DEF Init, HandedInv, Offered, Current, Installed, WellAnswered, Unstarted, HandsToRunner
<1>3. CaseInv /\ FileInv
  BY VitestConstants DEF Init, CaseInv, FileInv, Present, MarkedOut, Unabsorbed
<1>4. EndInv
  BY DEF Init, EndInv, NotSent
<1> QED
  BY <1>2, <1>3, <1>4, TypesInit DEF IInv

\* While it learns, no case is there.
LEMMA NoCaseYet ==
  ASSUME IInv, phase = "initialised" PROVE \A c \in Cases : state[c] = "absent" /\ meta[c] = {}
  BY VitestConstants DEF IInv, HandedInv, Unstarted, CaseInv, Present

\* With no case there, nothing need be known of any.
LEMMA NoCaseThen ==
  ASSUME IInv, phase = "initialised", UNCHANGED <<file, hooksFailed, stopped, state, meta, env>>
  PROVE  (CaseInv /\ FileInv)'
<1>1. \A c \in Cases : state'[c] = "absent" /\ meta'[c] = {} /\ FileOf[c] \in Files
                       /\ file'[FileOf[c]] = "queued"
  BY NoCaseYet, VitestConstants DEF IInv, HandedInv, Unstarted
<1>2. CaseInv'
  BY <1>1 DEF CaseInv, Present, MarkedOut, Unabsorbed
<1>3. FileInv'
  BY <1>1 DEF FileInv
<1> QED
  BY <1>2, <1>3

\* An arrival is handed over as it is.
LEMMA ArrivesKept ==
  ASSUME IInv,
         \/ \E outcome \in {"answered", "dormant", "threw"}, names \in Quarantines :
              QuarantineArrives(outcome, names)
         \/ \E outcome \in {"answered", "dormant", "threw"}, context \in Contexts :
              FlakyArrives(outcome, context)
  PROVE  IInv'
<1>1. phase = "initialised" /\ UNCHANGED <<env, phase, asked, suite, repeats, results, ending>>
  BY DEF QuarantineArrives, FlakyArrives
<1>2. TypeInv'
  BY ArrivesTypes DEF IInv
<1>3. (CaseInv /\ FileInv)'
  BY <1>1, NoCaseThen DEF suite, results
<1>4. EndInv'
  BY <1>1 DEF IInv, EndInv, ending
<1>5. provided.selection = Everything
  BY <1>1 DEF IInv, HandedInv, Unstarted, Offered, HandsToRunner, NoSelection, FullRun
<1>6. HandedInv'
  <2>1. DOMAIN provided = {"quarantine", "selection", "flaky"}
    BY DEF IInv, TypeInv, HandedTypes
  <2>2. ASSUME NEW outcome, NEW names \in Quarantines, QuarantineArrives(outcome, names)
        PROVE  provided'.selection = Everything /\ (Current /\ Installed)'
    BY <1>5, <2>1, <2>2 DEF QuarantineArrives, ConfigureRunner, handed, IInv, HandedInv, Current, Installed
  <2>3. ASSUME NEW outcome, NEW context \in Contexts, FlakyArrives(outcome, context)
        PROVE  provided'.selection = Everything /\ (Current /\ Installed)'
    BY <1>5, <2>1, <2>3 DEF FlakyArrives, ConfigureRunner, handed, IInv, HandedInv, Current, Installed
  <2>4. (WellAnswered /\ Unstarted)'
    BY <1>1 DEF IInv, HandedInv, WellAnswered, Unstarted, asked, suite
  <2>5. provided'.selection = Everything => Offered'
    BY <1>1 DEF IInv, HandedInv, Unstarted, Offered, HandsToRunner, NoSelection, FullRun, asked
  <2> QED
    BY <2>2, <2>3, <2>4, <2>5 DEF HandedInv
<1> QED
  BY <1>2, <1>3, <1>4, <1>6 DEF IInv

\* What an answer is turned into keeps to its shape.
LEMMA AnswerShape ==
  ASSUME NEW response \in Responses
  PROVE  LET s == FetchTestSelection(response) IN
         /\ s.selection \in {"refused", "empty"} => s.tests = {}
         /\ s.selection = "subset" => s.served
         /\ s.reason = "fetch_failed" => s.selection = "full"
  BY DEF FetchTestSelection, ToTestSelection, Served, FullRun

\* A decision is handed over as it was taken.
LEMMA DecidingKept == ASSUME IInv, Deciding PROVE IInv'
<1>1. RunStarts /\ TypeInv'
  BY DecidingTypes DEF IInv
<1>2. phase = "initialised" /\ phase' = "running" /\ UNCHANGED <<env, fetched, suite, repeats, results, ending>>
  BY <1>1 DEF RunStarts
<1>3. (CaseInv /\ FileInv)'
  BY <1>2, NoCaseThen DEF suite, results
<1>4. EndInv'
  BY <1>2 DEF IInv, EndInv, ending
<1>5. selection = NoSelection /\ provided.selection = Everything /\ ~HandsToRunner(NoSelection)
  BY <1>2 DEF IInv, HandedInv, Unstarted, Offered, HandsToRunner, NoSelection, FullRun
<1>6. HandedInv'
  <2>1. DOMAIN provided = {"quarantine", "selection", "flaky"}
    BY DEF IInv, TypeInv, HandedTypes
  <2>2. Unstarted' /\ (UNCHANGED handed => Current')
    BY <1>2 DEF Unstarted, IInv, HandedInv, Current, handed, fetched
  <2>3. CASE UNCHANGED <<handed, asked>>
    BY <1>2, <2>2, <2>3 DEF IInv, HandedInv, Offered, Installed, WellAnswered, handed, asked, fetched
  <2>4. CASE ShardSliceUnavailable
    <3>1. selection' = FullRun("shard_slice_unavailable") /\ UNCHANGED handed
      BY <2>4 DEF ShardSliceUnavailable
    <3>2. (Offered /\ WellAnswered)'
      BY <1>5, <3>1 DEF Offered, WellAnswered, HandsToRunner, FullRun, handed
    <3>3. Installed'
      BY <1>2, <3>1 DEF IInv, HandedInv, Installed, handed, fetched
    <3> QED
      BY <2>2, <3>1, <3>2, <3>3 DEF HandedInv
  <2>5. ASSUME NEW response \in Answers, AsksForSelection(response) PROVE HandedInv'
    <3>1. selection' = FetchTestSelection(response)
          /\ IF HandsToRunner(selection')
             THEN ConfigureRunner(quarantineList, [provided EXCEPT !.selection = selection'.tests])
             ELSE UNCHANGED handed
      BY <2>5 DEF AsksForSelection
    <3>2. WellAnswered'
      BY <3>1, AnswerShape, VitestConstants DEF WellAnswered
    <3>3. CASE HandsToRunner(selection')
      <4>1. /\ setupInstalled' = TRUE /\ provided'.selection = selection'.tests
            /\ provided'.quarantine = quarantineList /\ provided'.flaky = provided.flaky
        BY <2>1, <3>1, <3>3 DEF ConfigureRunner
      <4>2. Offered' /\ Installed'
        BY <3>3, <4>1 DEF Offered, Installed, HandsToRunner
      <4>3. Current'
        BY <1>2, <4>1 DEF IInv, HandedInv, Current, fetched
      <4> QED
        BY <2>2, <3>2, <4>2, <4>3 DEF HandedInv
    <3>4. CASE ~HandsToRunner(selection')
      <4>1. UNCHANGED handed
        BY <3>1, <3>4
      <4>2. Offered' /\ Installed'
        BY <1>2, <1>5, <3>4, <4>1 DEF IInv, HandedInv, Offered, Installed, HandsToRunner, handed, fetched
      <4> QED
        BY <2>2, <3>2, <4>1, <4>2 DEF HandedInv
    <3> QED
      BY <3>3, <3>4
  <2> QED
    BY <2>3, <2>4, <2>5 DEF Deciding, DoesNotAsk, NoFingerprint
<1> QED
  BY <1>1, <1>3, <1>4, <1>6 DEF IInv

\* A step of a worker leaves what was handed over, and what is still to conclude.
LEMMA WorkerKept ==
  ASSUME IInv, phase # "ended", UNCHANGED <<env, phase, fetched, handed, asked, ending>>,
         phase = "initialised" => UNCHANGED file
  PROVE  (HandedInv /\ EndInv)'
<1>1. (Offered /\ Current /\ Installed /\ WellAnswered)'
  BY DEF IInv, HandedInv, Offered, Current, Installed, WellAnswered, fetched, handed, asked
<1>2. Unstarted'
  BY DEF IInv, HandedInv, Unstarted, asked
<1>3. EndInv'
  BY DEF IInv, EndInv, ending
<1> QED
  BY <1>1, <1>2, <1>3 DEF HandedInv

\* Which hooks reach a case, and what is left out, is settled with the handover.
LEMMA SameReach ==
  ASSUME UNCHANGED <<env, handed>>
  PROVE  /\ \A hook : Reaches(hook)' <=> Reaches(hook)
         /\ \A c \in Cases : LeftOut(c)' <=> LeftOut(c)
  BY DEF Reaches, LeftOut, handed

\* A case nothing happened to stays as it was.
LEMMA OtherCase ==
  ASSUME UNCHANGED <<env, handed>>, NEW d \in Cases,
         UNCHANGED <<state[d], meta[d]>>,
         file'[FileOf[d]] \in {"queued", "broken"} <=> file[FileOf[d]] \in {"queued", "broken"}
  PROVE  Present(d) /\ MarkedOut(d) /\ Unabsorbed(d) => (Present(d) /\ MarkedOut(d) /\ Unabsorbed(d))'
<1>1. provided' = provided
  BY DEF handed
<1> QED
  BY <1>1, SameReach DEF Present, MarkedOut, Unabsorbed

\* Nor does a file that is not done become so.
LEMMA OtherFile ==
  ASSUME UNCHANGED <<env, handed, stopped>>, hooksFailed \subseteq hooksFailed', NEW d \in Cases,
         UNCHANGED <<state[d], meta[d], file[FileOf[d]]>>,
         file[FileOf[d]] = "done" =>
           /\ state[d] \in Settled \/ (stopped /\ state[d] = "pending")
           /\ AwaitsDeselection(d) => stopped \/ FileOf[d] \in hooksFailed
  PROVE  (file[FileOf[d]] = "done" =>
           /\ state[d] \in Settled \/ (stopped /\ state[d] = "pending")
           /\ AwaitsDeselection(d) => stopped \/ FileOf[d] \in hooksFailed)'
  BY SameReach DEF AwaitsDeselection

\* What moves the suite only: a file is broken or done, the run is in error or
\* stops.
LEMMA AsideKept == ASSUME IInv, Aside PROVE IInv'
<1>1. phase = "running" /\ UNCHANGED <<env, phase, fetched, handed, asked, repeats, results, ending>>
  BY DEF Aside, ImportFails, FinishFile, UnhandledError, Stops
<1>2. UNCHANGED <<state, meta>>
  BY <1>1 DEF results
<1>3. \A d \in Cases : FileOf[d] \in Files
  BY VitestConstants
<1>4. \A d \in Cases : file'[FileOf[d]] \in {"queued", "broken"} <=> file[FileOf[d]] \in {"queued", "broken"}
  BY <1>3 DEF Aside, ImportFails, FinishFile, UnhandledError, Stops, IInv, TypeInv, SuiteTypes
<1>5. CaseInv'
  BY <1>1, <1>2, <1>4, OtherCase DEF IInv, CaseInv
<1>6. FileInv'
  <2> SUFFICES ASSUME NEW d \in Cases, file'[FileOf[d]] = "done"
               PROVE  /\ state[d] \in Settled \/ (stopped' /\ state[d] = "pending")
                      /\ AwaitsDeselection(d) => stopped' \/ FileOf[d] \in hooksFailed'
    BY <1>1, <1>2, SameReach DEF FileInv, AwaitsDeselection
  <2>1. stopped => stopped'
    BY DEF Aside, ImportFails, FinishFile, UnhandledError, Stops
  <2>2. hooksFailed' = hooksFailed
    BY DEF Aside, ImportFails, FinishFile, UnhandledError, Stops
  <2>3. CASE file[FileOf[d]] = "done"
    BY <2>1, <2>2, <2>3 DEF IInv, FileInv
  <2>4. CASE file[FileOf[d]] # "done"
    <3>1. PICK f \in Files : FinishFile(f) /\ f = FileOf[d]
      BY <1>3, <2>4 DEF Aside, ImportFails, FinishFile, UnhandledError, Stops, IInv, TypeInv, SuiteTypes
    <3>2. d \in CasesOf(f)
      BY <3>1 DEF CasesOf
    <3> QED
      BY <2>1, <2>2, <3>1, <3>2 DEF FinishFile
  <2> QED
    BY <2>3, <2>4
<1>7. (HandedInv /\ EndInv)'
  BY <1>1, WorkerKept
<1> QED
  BY <1>5, <1>6, <1>7, AsideTypes DEF IInv

\* Importing a file skips and marks what the subset leaves out of it.
LEMMA ImportFileKept ==
  ASSUME IInv, NEW f \in Files, NEW skips \in SUBSET Cases, ImportFile(f, skips) PROVE IInv'
<1> DEFINE out == {c \in CasesOf(f) : Reaches("suite") /\ LeftOut(c)}
<1>1. /\ phase = "running" /\ file[f] = "queued" /\ file' = [file EXCEPT ![f] = "running"]
      /\ skips \subseteq CasesOf(f)
      /\ state' = [c \in Cases |-> IF c \in skips \cup out THEN "skipped"
                                   ELSE IF c \in CasesOf(f) THEN "pending" ELSE state[c]]
      /\ meta' = [c \in Cases |-> IF c \in out THEN {"deselected"} ELSE meta[c]]
      /\ UNCHANGED <<env, phase, fetched, handed, asked, hooksFailed, unhandled, stopped, ending>>
  BY DEF ImportFile
<1>2. ASSUME NEW d \in Cases PROVE FileOf[d] \in Files /\ (d \in CasesOf(f) <=> FileOf[d] = f)
  BY VitestConstants DEF CasesOf
<1>3. file \in [Files -> {"queued", "running", "done", "broken"}]
  BY DEF IInv, TypeInv, SuiteTypes
<1>4. ASSUME NEW d \in Cases, d \notin CasesOf(f)
      PROVE  /\ (Present(d) /\ MarkedOut(d) /\ Unabsorbed(d))'
             /\ UNCHANGED <<state[d], meta[d], file[FileOf[d]]>>
  <2>1. UNCHANGED <<state[d], meta[d], file[FileOf[d]]>>
    BY <1>1, <1>2, <1>3, <1>4
  <2> QED
    BY <1>1, <2>1, OtherCase DEF IInv, CaseInv
<1>5. ASSUME NEW d \in CasesOf(f)
      PROVE  (Present(d) /\ MarkedOut(d) /\ Unabsorbed(d))' /\ file'[FileOf[d]] = "running"
  <2>1. d \in Cases /\ file'[FileOf[d]] = "running" /\ state[d] = "absent" /\ meta[d] = {}
    BY <1>1, <1>2, <1>3 DEF CasesOf, IInv, CaseInv, Present
  <2>2. d \in out <=> Reaches("suite") /\ LeftOut(d)
    OBVIOUS
  <2>3. /\ state'[d] = (IF d \in skips \/ d \in out THEN "skipped" ELSE "pending")
        /\ meta'[d] = (IF d \in out THEN {"deselected"} ELSE {})
    BY <1>1, <2>1
  <2> HIDE DEF out
  <2>4. Present(d)'
    BY <2>1, <2>3 DEF Present
  <2>5. MarkedOut(d)'
    BY <1>1, <2>1, <2>2, <2>3, SameReach DEF MarkedOut
  <2>6. Unabsorbed(d)'
    BY <2>3 DEF Unabsorbed
  <2> QED
    BY <2>1, <2>4, <2>5, <2>6
<1>6. CaseInv'
  BY <1>4, <1>5 DEF CaseInv
<1>7. FileInv'
  <2> SUFFICES ASSUME NEW d \in Cases
               PROVE  (file[FileOf[d]] = "done" =>
                        /\ state[d] \in Settled \/ (stopped /\ state[d] = "pending")
                        /\ AwaitsDeselection(d) => stopped \/ FileOf[d] \in hooksFailed)'
    BY DEF FileInv
  <2>1. CASE d \in CasesOf(f)
    BY <1>5, <2>1
  <2>2. CASE d \notin CasesOf(f)
    BY <1>1, <1>4, <2>2, OtherFile DEF IInv, FileInv
  <2> QED
    BY <2>1, <2>2
<1>8. (HandedInv /\ EndInv)'
  BY <1>1, WorkerKept
<1>9. TypeInv'
  BY LeavingTypes DEF IInv
<1> QED
  BY <1>6, <1>7, <1>8, <1>9 DEF IInv

\* A failed hook skips cases that were still to run.
LEMMA HookFailsKept ==
  ASSUME IInv, NEW f \in Files, NEW S \in SUBSET Cases, HookFails(f, S) PROVE IInv'
<1>1. /\ phase = "running" /\ file[f] = "running" /\ S \subseteq {c \in CasesOf(f) : state[c] = "pending"}
      /\ hooksFailed' = hooksFailed \cup {f}
      /\ state' = [c \in Cases |-> IF c \in S THEN "skipped" ELSE state[c]]
      /\ UNCHANGED <<env, phase, fetched, handed, asked, file, unhandled, stopped, meta, ending>>
  BY DEF HookFails
<1>2. ASSUME NEW d \in Cases, d \notin S
      PROVE  (Present(d) /\ MarkedOut(d) /\ Unabsorbed(d))' /\ UNCHANGED <<state[d], meta[d], file[FileOf[d]]>>
  BY <1>1, <1>2, OtherCase DEF IInv, CaseInv
<1>3. ASSUME NEW d \in S
      PROVE  (Present(d) /\ MarkedOut(d) /\ Unabsorbed(d))' /\ file'[FileOf[d]] # "done"
  <2>1. d \in Cases /\ state[d] = "pending" /\ state'[d] = "skipped" /\ FileOf[d] = f
        /\ meta' = meta /\ file' = file /\ Present(d) /\ MarkedOut(d)
    BY <1>1 DEF CasesOf, IInv, CaseInv
  <2>2. meta[d] = {}
    BY <2>1 DEF Present
  <2>3. Present(d)'
    BY <1>1, <2>1, <2>2 DEF Present
  <2>4. MarkedOut(d)'
    BY <1>1, <2>1, <2>2, SameReach DEF MarkedOut
  <2> QED
    BY <1>1, <2>1, <2>3, <2>4 DEF Unabsorbed
<1>4. CaseInv'
  BY <1>2, <1>3 DEF CaseInv
<1>5. FileInv'
  <2> SUFFICES ASSUME NEW d \in Cases
               PROVE  (file[FileOf[d]] = "done" =>
                        /\ state[d] \in Settled \/ (stopped /\ state[d] = "pending")
                        /\ AwaitsDeselection(d) => stopped \/ FileOf[d] \in hooksFailed)'
    BY DEF FileInv
  <2>1. CASE d \in S
    BY <1>3, <2>1
  <2>2. CASE d \notin S
    BY <1>1, <1>2, <2>2, OtherFile DEF IInv, FileInv
  <2> QED
    BY <2>1, <2>2
<1>6. (HandedInv /\ EndInv)'
  BY <1>1, WorkerKept
<1>7. TypeInv'
  BY LeavingTypes DEF IInv
<1> QED
  BY <1>4, <1>5, <1>6, <1>7 DEF IInv

\* A step of one case, in a file that is under way, is about that case alone.
LEMMA OneCase ==
  ASSUME IInv, TypeInv', NEW c \in Cases, NEW newState, NEW newMeta,
         UNCHANGED <<env, phase, fetched, handed, asked, suite, ending>>,
         phase = "running", file[FileOf[c]] = "running",
         state' = [state EXCEPT ![c] = newState], meta' = [meta EXCEPT ![c] = newMeta],
         (Present(c) /\ MarkedOut(c) /\ Unabsorbed(c))'
  PROVE  IInv'
<1>1. UNCHANGED <<file, hooksFailed, unhandled, stopped>>
  BY DEF suite
<1>2. ASSUME NEW d \in Cases, d # c PROVE UNCHANGED <<state[d], meta[d], file[FileOf[d]]>>
  BY <1>1, <1>2 DEF IInv, TypeInv, ResultTypes
<1>3. CaseInv'
  <2> SUFFICES ASSUME NEW d \in Cases PROVE (Present(d) /\ MarkedOut(d) /\ Unabsorbed(d))'
    BY DEF CaseInv
  <2>1. CASE d = c
    BY <2>1
  <2>2. CASE d # c
    BY <1>1, <1>2, <2>2, OtherCase DEF IInv, CaseInv
  <2> QED
    BY <2>1, <2>2
<1>4. FileInv'
  <2> SUFFICES ASSUME NEW d \in Cases
               PROVE  (file[FileOf[d]] = "done" =>
                        /\ state[d] \in Settled \/ (stopped /\ state[d] = "pending")
                        /\ AwaitsDeselection(d) => stopped \/ FileOf[d] \in hooksFailed)'
    BY DEF FileInv
  <2>1. CASE d = c
    BY <1>1, <2>1
  <2>2. CASE d # c
    BY <1>1, <1>2, <2>2, OtherFile DEF IInv, FileInv
  <2> QED
    BY <2>1, <2>2
<1>5. (HandedInv /\ EndInv)'
  BY <1>1, WorkerKept
<1> QED
  BY <1>3, <1>4, <1>5 DEF IInv

\* A case that runs is in a file under way, of a run under way.
LEMMA RunningCase ==
  ASSUME IInv, NEW c \in Cases, state[c] = "running"
  PROVE  phase = "running" /\ file[FileOf[c]] = "running"
<1>1. FileOf[c] \in Files
  BY VitestConstants
<1>2. file[FileOf[c]] = "running"
  BY <1>1 DEF IInv, TypeInv, SuiteTypes, CaseInv, Present, FileInv, Settled
<1>3. phase # "initialised"
  BY <1>1, <1>2 DEF IInv, HandedInv, Unstarted
<1>4. phase # "ended"
  BY NoneRunning
<1> QED
  BY <1>2, <1>3, <1>4 DEF IInv, TypeInv, WorldTypes

\* A case the file walk did not reach is left out in its turn.
LEMMA DeselectTaskKept ==
  ASSUME IInv, NEW c \in Cases, DeselectTask(c) PROVE IInv'
<1>1. /\ phase = "running" /\ file[FileOf[c]] = "running" /\ AwaitsDeselection(c)
      /\ state' = [state EXCEPT ![c] = "skipped"]
      /\ meta' = [meta EXCEPT ![c] = meta[c] \cup {"applied", "deselected"}]
      /\ UNCHANGED <<env, phase, fetched, handed, asked, suite, ending>>
  BY DEF DeselectTask, InTurn
<1>2. TypeInv'
  BY LeavingTypes DEF IInv
<1>3. /\ state'[c] = "skipped" /\ meta'[c] = meta[c] \cup {"applied", "deselected"}
      /\ file' = file /\ Reaches("task") /\ LeftOut(c)
  BY <1>1 DEF IInv, TypeInv, ResultTypes, suite, AwaitsDeselection
<1>4. (Present(c) /\ MarkedOut(c) /\ Unabsorbed(c))'
  BY <1>1, <1>3, SameReach DEF Present, MarkedOut, Unabsorbed
<1> QED
  BY <1>1, <1>2, <1>4, OneCase

\* A case that starts is one the decision keeps: the hooks that would have taken
\* it out reached it.
LEMMA BeforeRunTaskKept ==
  ASSUME IInv, NEW c \in Cases, BeforeRunTask(c) PROVE IInv'
<1> DEFINE new == meta[c] \cup
       (IF Reaches("task") THEN {"applied"} ELSE {}) \cup
       (IF Reaches("task") /\ provided.flaky # F!NoContext /\ ~env.engine
        THEN {"flakyUnavailable"} ELSE {})
<1>1. /\ phase = "running" /\ file[FileOf[c]] = "running" /\ state[c] = "pending"
      /\ ~AwaitsDeselection(c)
      /\ state' = [state EXCEPT ![c] = "running"]
      /\ meta' = [meta EXCEPT ![c] = new]
      /\ UNCHANGED <<env, phase, fetched, handed, asked, suite, ending>>
  BY DEF BeforeRunTask, InTurn
<1>2. TypeInv'
  BY BeforeRunTaskTypes DEF IInv
<1>3. meta[c] = {} /\ Present(c) /\ MarkedOut(c)
  BY <1>1 DEF IInv, CaseInv, Present
<1>4. ~LeftOut(c)
  <2> SUFFICES ASSUME LeftOut(c) PROVE FALSE
    OBVIOUS
  <2>1. setupInstalled
    BY DEF LeftOut, IInv, HandedInv, Installed
  <2>2. ~Reaches("task")
    BY <1>1, <1>3 DEF AwaitsDeselection
  <2>3. Reaches("suite")
    BY <2>1, <2>2 DEF Reaches
  <2> QED
    BY <1>1, <1>3, <2>3 DEF MarkedOut
<1>5. new \subseteq {"applied", "flakyUnavailable"} /\ (~Reaches("task") => "applied" \notin new)
      /\ "deselected" \notin new
  BY <1>3
<1>6. state'[c] = "running" /\ meta'[c] = new /\ file' = file
  BY <1>1 DEF IInv, TypeInv, ResultTypes, suite
<1> HIDE DEF new
<1>7. (Present(c) /\ MarkedOut(c) /\ Unabsorbed(c))'
  BY <1>1, <1>4, <1>5, <1>6, SameReach DEF Present, MarkedOut, Unabsorbed
<1> QED
  BY <1>1, <1>2, <1>7, OneCase

\* A try changes nothing the main process sees.
LEMMA TryKeepsCases ==
  ASSUME IInv, NEW c \in Cases, NEW fails \in BOOLEAN, NEW retries \in BOOLEAN,
         Try(c, fails, retries)
  PROVE  IInv'
<1>1. state[c] = "running" /\ UNCHANGED <<env, phase, fetched, handed, asked, suite, results, ending>>
  BY DEF Try
<1>2. phase = "running"
  BY <1>1, RunningCase
<1>3. UNCHANGED <<file, hooksFailed, stopped, state, meta>>
  BY <1>1 DEF suite, results
<1>4. CaseInv'
  BY <1>1, <1>3, OtherCase DEF IInv, CaseInv
<1>5. FileInv'
  BY <1>1, <1>3, OtherFile DEF IInv, FileInv
<1>6. (HandedInv /\ EndInv)'
  BY <1>1, <1>2, <1>3, WorkerKept
<1> QED
  BY <1>4, <1>5, <1>6, TryTypes DEF IInv

\* A case ends failed only where the extension does not absorb it.
LEMMA FinishTaskKept ==
  ASSUME IInv, NEW c \in Cases, NEW result \in {"pass", "fail"}, FinishTask(c, result)
  PROVE  IInv'
<1>1. state[c] = "running" /\ UNCHANGED <<env, phase, fetched, handed, asked, suite, ending>>
  BY DEF FinishTask
<1>2. phase = "running" /\ file[FileOf[c]] = "running"
  BY <1>1, RunningCase
<1>3. TypeInv'
  BY FinishTaskTypes DEF IInv
<1>4. ~LeftOut(c) /\ meta[c] \subseteq {"applied", "flakyUnavailable"}
      /\ (~Reaches("task") => "applied" \notin meta[c]) /\ state[c] # "absent"
      /\ ~(file[FileOf[c]] \in {"queued", "broken"})
  BY <1>1, <1>2 DEF IInv, CaseInv, Present, MarkedOut
<1>5. Adding(c, result) \cap {"applied", "deselected"} = {}
      /\ ("quarantined" \in Adding(c, result) <=> Catching(c, result))
      /\ ("absorbedFailure" \in Adding(c, result) <=> Absorbing(c, result))
  BY DEF Adding
<1>6. PICK newState \in {"passed", "failed"},
           newMeta \in {meta[c], meta[c] \cup Adding(c, result)} :
        /\ state' = [state EXCEPT ![c] = newState] /\ meta' = [meta EXCEPT ![c] = newMeta]
        /\ ~Reaches("task") => newMeta = meta[c]
        /\ newState = "failed" /\ Reaches("task") =>
             result = "fail" /\ ~Absorbing(c, result) /\ ~Catching(c, result)
  <2>1. CASE Reaches("task")
    BY <2>1, Finishing DEF IInv
  <2>2. CASE ~Reaches("task")
    <3>1. meta' = [meta EXCEPT ![c] = meta[c]]
      BY <2>2, Finishing DEF IInv, TypeInv, ResultTypes
    <3> QED
      BY <2>2, <3>1, Finishing DEF IInv
  <2> QED
    BY <2>1, <2>2
<1>7. state'[c] = newState /\ meta'[c] = newMeta /\ file' = file /\ provided' = provided
  BY <1>1, <1>6 DEF IInv, TypeInv, ResultTypes, suite, handed
<1>8. (Present(c) /\ MarkedOut(c))'
  BY <1>1, <1>4, <1>5, <1>6, <1>7, SameReach DEF Present, MarkedOut
<1>9. Unabsorbed(c)'
  <2> SUFFICES ASSUME newState = "failed"
               PROVE  /\ newMeta \cap {"quarantined", "absorbedFailure"} = {}
                      /\ Reaches("task") => NameOf[c] \notin provided.quarantine
    BY <1>1, <1>7, SameReach DEF Unabsorbed
  <2>1. CASE Reaches("task")
    BY <1>4, <1>5, <1>6, <2>1 DEF Catching
  <2>2. CASE ~Reaches("task")
    BY <1>4, <1>6, <2>2
  <2> QED
    BY <2>1, <2>2
<1> QED
  BY <1>1, <1>2, <1>3, <1>6, <1>8, <1>9, OneCase

\* onTestRunEnd leaves the suite alone and concludes from it.
LEMMA RunEndKept == ASSUME IInv, NEW how \in Receipts, RunEnd(how) PROVE IInv'
<1>1. phase = "running" /\ phase' = "ended"
      /\ UNCHANGED <<env, fetched, handed, asked, suite, repeats, results>>
  BY DEF RunEnd
<1>2. TypeInv'
  BY RunEndTypes DEF IInv
<1>3. UNCHANGED <<selection, file, hooksFailed, unhandled, stopped, state, meta, provided, setupInstalled>>
  BY <1>1 DEF asked, suite, results, handed
<1>4. HandedInv'
  BY <1>1 DEF IInv, HandedInv, Offered, Current, Installed, WellAnswered, Unstarted, fetched, handed, asked
<1>5. CaseInv'
  BY <1>1, <1>3, OtherCase DEF IInv, CaseInv
<1>6. FileInv'
  BY <1>1, <1>3, OtherFile DEF IInv, FileInv
<1>7. /\ SettleSelection' = SettleSelection /\ Withheld' = Withheld /\ EndsRed' = EndsRed
      /\ SubsetGuardFails' = SubsetGuardFails /\ Collected' = Collected
  BY <1>1, <1>3 DEF SettleSelection, Deselected, Collected, Withheld, EndsRed, Refused,
     Actionable, SubsetGuardFails
<1>8. Records' = Records
  BY <1>3 DEF Records, Deselected, FinalStatusOf
<1>9. /\ application' = SettleSelection /\ final' = Fold(Records) /\ red' = EndsRed
      /\ block' = ReportTestSelection
      /\ \A f \in Files : file[f] \in {"done", "broken"} \/ (stopped /\ file[f] = "queued")
      /\ echo' = (IF selection = NoSelection THEN NoEcho ELSE SelectionEcho(selection, application'))
      /\ SendVerdict(how)
  BY DEF RunEnd
<1>10. block' = ReportTestSelection'
  BY <1>3, <1>7, <1>9 DEF ReportTestSelection
<1>11. receipt'.sent =>
         ~Withheld /\ verdict' = BuildSessionVerdict(Cardinality(Collected), final', echo')
  BY <1>9 DEF SendVerdict, NotSent
<1>12. EndInv'
  BY <1>1, <1>3, <1>7, <1>8, <1>9, <1>10, <1>11 DEF EndInv
<1> QED
  BY <1>2, <1>4, <1>5, <1>6, <1>12 DEF IInv

\* Where nothing changes, the invariant holds on.
LEMMA StutterKept == ASSUME IInv, UNCHANGED vars PROVE IInv'
<1>1. UNCHANGED <<env, phase, fetched, handed, asked, suite, repeats, results, ending>>
  BY DEF vars
<1>2. TypeInv'
  BY StutterTypes DEF IInv
<1>3. UNCHANGED <<file, hooksFailed, unhandled, stopped, state, meta, selection, provided, setupInstalled>>
  BY <1>1 DEF suite, results, asked, handed
<1>4. HandedInv'
  BY <1>1 DEF IInv, HandedInv, Offered, Current, Installed, WellAnswered, Unstarted, fetched,
     handed, asked, suite
<1>5. CaseInv'
  BY <1>1, <1>3, OtherCase DEF IInv, CaseInv
<1>6. FileInv'
  BY <1>1, <1>3, OtherFile DEF IInv, FileInv
<1>7. EndInv'
  <2>1. UNCHANGED <<final, verdict, receipt, application, echo, block, red>>
    BY <1>1 DEF ending
  <2>2. /\ SettleSelection' = SettleSelection /\ Withheld' = Withheld /\ EndsRed' = EndsRed
        /\ SubsetGuardFails' = SubsetGuardFails /\ Collected' = Collected
    BY <1>1, <1>3 DEF SettleSelection, Deselected, Collected, Withheld, EndsRed, Refused,
       Actionable, SubsetGuardFails
  <2>3. Records' = Records
    BY <1>3 DEF Records, Deselected, FinalStatusOf
  <2>4. ReportTestSelection' = ReportTestSelection
    BY <1>3, <2>1, <2>2 DEF ReportTestSelection
  <2> QED
    BY <1>1, <1>3, <2>1, <2>2, <2>3, <2>4 DEF IInv, EndInv
<1> QED
  BY <1>2, <1>4, <1>5, <1>6, <1>7 DEF IInv

\* Every step keeps the invariant.
LEMMA NextIInv == ASSUME IInv, [Next]_vars PROVE IInv'
  BY StepCases, ArrivesKept, DecidingKept, AsideKept, ImportFileKept, HookFailsKept, DeselectTaskKept,
     BeforeRunTaskKept, TryKeepsCases, FinishTaskKept, RunEndKept, StutterKept

\* The invariant holds of every run.
LEMMA Invariance == Spec => []IInv
<1>1. Init => IInv
  BY InvInit
<1>2. IInv /\ [Next]_vars => IInv'
  BY NextIInv
<1> QED
  BY <1>1, <1>2, PTL DEF Spec

\* Every variable holds what its place in the reporter or the runner may hold, for
\* any suite and server (clients/ts/packages/vitest/src).
THEOREM TypeCorrect == Spec => []TypeOK
<1>1. IInv => TypeOK
  BY TypesSuffice DEF IInv
<1> QED
  BY <1>1, Invariance, PTL

-----------------------------------------------------------------------------
(* The contract.                                                           *)

RanNames == {NameOf[c] : c \in Executed}
OutNames == {NameOf[c] : c \in Deselected}

\* A step that leaves the decision, and what ran and was left out, alone.
LEMMA ContractStutters ==
  ASSUME UNCHANGED <<provided.selection, Decided, RanNames, OutNames, Conclusion>>
  PROVE  UNCHANGED Contract!vars
  BY DEF Contract!vars, RanNames, OutNames

\* What ran and what was left out are read off the cases.
LEMMA SameCases ==
  ASSUME UNCHANGED <<state, meta>> PROVE UNCHANGED <<Executed, Deselected, RanNames, OutNames>>
  BY DEF Executed, Deselected, RanNames, OutNames

\* Nothing ran and nothing is decided at first.
LEMMA InitContract == ASSUME Init PROVE Contract!Init
<1>1. Executed = {} /\ Deselected = {} /\ Conclusion = "open" /\ Decided = FALSE
      /\ provided.selection = Everything
  BY DEF Init, Executed, Deselected, Conclusion, Decided
<1>2. {NameOf[c] : c \in {}} = {}
  OBVIOUS
<1> QED
  BY <1>1, <1>2 DEF Contract!Init

\* Starting the run is the decision.
LEMMA DecidingContract == ASSUME IInv, IInv', Deciding PROVE Contract!Decide
<1>1. phase = "initialised" /\ phase' = "running" /\ UNCHANGED results
  BY DecidingTypes DEF IInv, RunStarts
<1>2. Conclusion = "open" /\ Conclusion' = "open" /\ Decided = FALSE /\ Decided' = TRUE
  BY <1>1 DEF Conclusion, Decided
<1>3. UNCHANGED <<RanNames, OutNames>>
  BY <1>1, SameCases DEF results
<1>4. provided'.selection \in {Everything} \cup SUBSET Tests
  BY DEF IInv, TypeInv, HandedTypes
<1> QED
  BY <1>2, <1>3, <1>4 DEF Contract!Decide, RanNames, OutNames

\* Cases are left out of what the decision leaves out.
LEMMA LeavingOut ==
  ASSUME IInv, NEW S \in SUBSET Cases, phase = "running",
         UNCHANGED <<phase, provided.selection, Executed>>,
         Deselected' = Deselected \cup S, \A c \in S : LeftOut(c)
  PROVE  [Contract!Next]_Contract!vars
<1>1. Conclusion = "open" /\ Conclusion' = "open" /\ Decided = TRUE /\ Decided' = TRUE
  BY DEF Conclusion, Decided
<1> DEFINE names == {NameOf[c] : c \in S}
<1>2. RanNames' = RanNames /\ OutNames' = OutNames \cup names
  BY DEF RanNames, OutNames
<1>3. CASE S = {}
  <2>1. OutNames' = OutNames
    BY <1>2, <1>3
  <2> QED
    BY <1>1, <1>2, <2>1, ContractStutters
<1>4. CASE S # {}
  <2>1. provided.selection # Everything /\ names \cap provided.selection = {}
    BY <1>4 DEF LeftOut
  <2>2. names \in SUBSET Tests
    BY VitestConstants
  <2> HIDE DEF names
  <2>3. Contract!LeaveOut(names)
    BY <1>1, <1>2, <2>1 DEF Contract!LeaveOut, RanNames, OutNames
  <2> QED
    BY <2>2, <2>3 DEF Contract!Next
<1> QED
  BY <1>3, <1>4

\* Importing a file, and a case in its turn.
LEMMA LeavingContract ==
  ASSUME IInv,
         \/ \E f \in Files, S \in SUBSET Cases : ImportFile(f, S)
         \/ \E c \in Cases : DeselectTask(c)
  PROVE  [Contract!Next]_Contract!vars
<1>1. ASSUME NEW f \in Files, NEW skips \in SUBSET Cases, ImportFile(f, skips)
      PROVE  [Contract!Next]_Contract!vars
  <2> DEFINE out == {c \in CasesOf(f) : Reaches("suite") /\ LeftOut(c)}
  <2>1. /\ phase = "running" /\ file[f] = "queued" /\ skips \subseteq CasesOf(f)
        /\ state' = [c \in Cases |-> IF c \in skips \cup out THEN "skipped"
                                     ELSE IF c \in CasesOf(f) THEN "pending" ELSE state[c]]
        /\ meta' = [c \in Cases |-> IF c \in out THEN {"deselected"} ELSE meta[c]]
        /\ UNCHANGED <<phase, handed>>
    BY <1>1 DEF ImportFile
  <2>2. \A c \in CasesOf(f) : c \in Cases /\ state[c] = "absent" /\ meta[c] = {}
    BY <2>1 DEF CasesOf, IInv, CaseInv, Present
  <2>3. out \in SUBSET CasesOf(f) /\ \A c \in out : LeftOut(c)
    OBVIOUS
  <2> HIDE DEF out
  <2>4. Executed' = Executed
    BY <2>1, <2>2, <2>3 DEF Executed
  <2>5. Deselected' = Deselected \cup out
    BY <2>1, <2>2, <2>3 DEF Deselected
  <2> QED
    BY <2>1, <2>2, <2>3, <2>4, <2>5, LeavingOut DEF handed
<1>2. ASSUME NEW c \in Cases, DeselectTask(c) PROVE [Contract!Next]_Contract!vars
  <2>1. /\ phase = "running" /\ state[c] \in {"pending", "skipped"} /\ LeftOut(c)
        /\ state' = [state EXCEPT ![c] = "skipped"]
        /\ meta' = [meta EXCEPT ![c] = @ \cup {"applied", "deselected"}]
        /\ UNCHANGED <<phase, handed>>
    BY <1>2 DEF DeselectTask, InTurn, AwaitsDeselection
  <2>2. state \in [Cases -> CaseState] /\ meta \in [Cases -> SUBSET Marks]
    BY DEF IInv, TypeInv, ResultTypes
  <2>3. Executed' = Executed
    BY <2>1, <2>2 DEF Executed
  <2>4. Deselected' = Deselected \cup {c}
    BY <2>1, <2>2 DEF Deselected
  <2>5. {c} \in SUBSET Cases /\ \A d \in {c} : LeftOut(d)
    BY <2>1
  <2>6. UNCHANGED provided.selection
    BY <2>1 DEF handed
  <2> QED
    BY <2>1, <2>3, <2>4, <2>5, <2>6, LeavingOut
<1> QED
  BY <1>1, <1>2

\* A case that starts is executed.
LEMMA StartContract ==
  ASSUME IInv, NEW c \in Cases, BeforeRunTask(c) PROVE Contract!Next
<1>1. phase = "running" /\ state' = [state EXCEPT ![c] = "running"] /\ UNCHANGED <<phase, handed>>
  BY DEF BeforeRunTask, InTurn
<1>2. state \in [Cases -> CaseState] /\ meta \in [Cases -> SUBSET Marks]
  BY DEF IInv, TypeInv, ResultTypes
<1>3. Executed' = Executed \cup {c}
  BY <1>1, <1>2 DEF Executed
<1>4. Deselected' = Deselected
  <2>1. PICK new : meta' = [meta EXCEPT ![c] = meta[c] \cup new] /\ "deselected" \notin new
    <3>1. meta' = [meta EXCEPT ![c] = @ \cup
           (IF Reaches("task") THEN {"applied"} ELSE {}) \cup
           (IF Reaches("task") /\ provided.flaky # F!NoContext /\ ~env.engine
            THEN {"flakyUnavailable"} ELSE {})]
      BY DEF BeforeRunTask
    <3> DEFINE on == IF Reaches("task") THEN {"applied"} ELSE {}
               off == IF Reaches("task") /\ provided.flaky # F!NoContext /\ ~env.engine
                      THEN {"flakyUnavailable"} ELSE {}
    <3>2. "deselected" \notin on \cup off
      OBVIOUS
    <3>3. meta' = [meta EXCEPT ![c] = meta[c] \cup on \cup off]
      BY <3>1, Zenon
    <3> HIDE DEF on, off
    <3>4. meta[c] \cup on \cup off = meta[c] \cup (on \cup off)
      OBVIOUS
    <3>5. meta' = [meta EXCEPT ![c] = meta[c] \cup (on \cup off)]
      BY <3>3, <3>4
    <3> QED
      BY <3>2, <3>5
  <2> QED
    BY <1>2, <2>1 DEF Deselected
<1>5. RanNames' = RanNames \cup {NameOf[c]} /\ OutNames' = OutNames
  BY <1>3, <1>4 DEF RanNames, OutNames
<1>6. Conclusion = "open" /\ Conclusion' = "open" /\ Decided = TRUE /\ Decided' = TRUE
      /\ provided'.selection = provided.selection
  BY <1>1 DEF Conclusion, Decided, handed
<1>7. Contract!Execute(NameOf[c]) /\ NameOf[c] \in Tests
  BY <1>5, <1>6, VitestConstants DEF Contract!Execute, RanNames, OutNames
<1> QED
  BY <1>7 DEF Contract!Next

\* A case that ends was executed before.
LEMMA FinishContract ==
  ASSUME IInv, NEW c \in Cases, NEW result \in {"pass", "fail"}, FinishTask(c, result)
  PROVE  UNCHANGED Contract!vars
<1>1. state[c] = "running" /\ UNCHANGED <<phase, handed, ending>>
  BY DEF FinishTask
<1>2. state \in [Cases -> CaseState] /\ meta \in [Cases -> SUBSET Marks]
  BY DEF IInv, TypeInv, ResultTypes
<1>3. Executed' = Executed
  BY <1>1, <1>2, Finishing DEF IInv, Executed
<1>4. Deselected' = Deselected
  <2>1. "deselected" \notin Adding(c, result)
    BY DEF Adding
  <2>2. meta' = meta \/ meta' = [meta EXCEPT ![c] = @ \cup Adding(c, result)]
    BY Finishing DEF IInv
  <2> QED
    BY <1>2, <2>1, <2>2 DEF Deselected
<1>5. UNCHANGED <<RanNames, OutNames>>
  BY <1>3, <1>4 DEF RanNames, OutNames
<1> QED
  BY <1>1, <1>5, ContractStutters DEF Conclusion, Decided, handed, ending

\* What the application is reduced to, the workers were told.
LEMMA ReducedIsHanded ==
  ASSUME IInv, SettleSelection.outcome \in {"empty", "subset", "refused"}
  PROVE  /\ selection # NoSelection /\ SettleSelection.outcome = selection.selection
         /\ selection.notApplied = "none" /\ provided.selection = selection.tests
         /\ provided.selection # Everything
<1> DEFINE a == ApplyToCollected(selection, Collected)
<1>1. selection # NoSelection /\ SettleSelection.outcome = a.outcome
  <2>1. NoApplication.outcome = "full"
    BY DEF NoApplication, Application
  <2>2. selection # NoSelection
    BY <2>1 DEF SettleSelection
  <2>3. a \in Applications
    BY CollectedType, ApplicationType, VitestConstants DEF IInv, TypeInv, AskedTypes
  <2> QED
    BY <2>2, <2>3 DEF SettleSelection, Applications
<1>2. selection \in TestSelection /\ Collected \in SUBSET Tests
  BY CollectedType DEF IInv, TypeInv, AskedTypes
<1>3. a.outcome = selection.selection /\ selection.notApplied = "none"
  BY <1>1, <1>2, SubsetWholeOrNotAtAll
<1>4. HandsToRunner(selection)
  BY <1>1, <1>3 DEF HandsToRunner
<1>5. provided.selection = selection.tests /\ selection.tests \in SUBSET Tests
  BY <1>2, <1>4 DEF IInv, HandedInv, Offered, TestSelection
<1> QED
  BY <1>1, <1>3, <1>5, EverythingIsNoTestSet

\* A run that ends reduced executed nothing else.
LEMMA RunEndContract ==
  ASSUME IInv, NEW how, RunEnd(how) PROVE Contract!Conclude
<1>1. phase = "running" /\ phase' = "ended" /\ application' = SettleSelection
      /\ UNCHANGED <<handed, results>>
  BY DEF RunEnd
<1>2. Conclusion = "open" /\ Conclusion' \in {"reduced", "other"}
      /\ Decided' = Decided /\ provided'.selection = provided.selection
  BY <1>1 DEF Conclusion, Decided, handed
<1>3. UNCHANGED <<RanNames, OutNames>>
  BY <1>1, SameCases DEF results
<1>4. ASSUME Conclusion' = "reduced" PROVE provided.selection # Everything /\ RanNames \subseteq provided.selection
  <2>1. provided.selection # Everything
    BY <1>1, <1>4, ReducedIsHanded DEF Conclusion
  <2>2. \A c \in Executed : ~LeftOut(c)
    BY DEF Executed, IInv, CaseInv, MarkedOut
  <2> QED
    BY <2>1, <2>2 DEF LeftOut, RanNames
<1> QED
  BY <1>2, <1>3, <1>4 DEF Contract!Conclude, RanNames, OutNames

\* Every step is one of the contract's or a stutter of it.
LEMMA NextContract ==
  ASSUME IInv, IInv', [Next]_vars PROVE [Contract!Next]_Contract!vars
<1>1. ASSUME \/ \E outcome \in {"answered", "dormant", "threw"}, names \in Quarantines :
                  QuarantineArrives(outcome, names)
             \/ \E outcome \in {"answered", "dormant", "threw"}, context \in Contexts :
                  FlakyArrives(outcome, context)
      PROVE  UNCHANGED Contract!vars
  <2>1. phase = "initialised" /\ UNCHANGED <<phase, asked, results, ending>>
    BY <1>1 DEF QuarantineArrives, FlakyArrives
  <2>2. provided.selection = Everything /\ provided'.selection = Everything
    BY <2>1 DEF IInv, HandedInv, Unstarted, Offered, HandsToRunner, NoSelection, FullRun
  <2>3. UNCHANGED <<Decided, Conclusion, RanNames, OutNames>>
    BY <2>1, SameCases DEF Decided, Conclusion, ending, results
  <2> QED
    BY <2>2, <2>3, ContractStutters
<1>2. ASSUME \/ Aside \/ UNCHANGED vars
             \/ \E c \in Cases, fails, retries \in BOOLEAN : Try(c, fails, retries)
      PROVE  UNCHANGED Contract!vars
  <2>1. UNCHANGED <<phase, handed, results, ending>>
    BY <1>2 DEF Aside, ImportFails, FinishFile, UnhandledError, Stops, Try, vars
  <2> QED
    BY <2>1, SameCases, ContractStutters DEF Decided, Conclusion, ending, results, handed
<1>3. ASSUME NEW f \in Files, NEW S \in SUBSET Cases, HookFails(f, S) PROVE UNCHANGED Contract!vars
  <2>1. /\ UNCHANGED <<phase, handed, meta, ending>>
        /\ state' = [c \in Cases |-> IF c \in S THEN "skipped" ELSE state[c]]
        /\ S \subseteq {c \in CasesOf(f) : state[c] = "pending"}
    BY <1>3 DEF HookFails
  <2>2. Executed' = Executed /\ Deselected' = Deselected
    BY <2>1 DEF Executed, Deselected
  <2>3. UNCHANGED <<RanNames, OutNames>>
    BY <2>2 DEF RanNames, OutNames
  <2> QED
    BY <2>1, <2>3, ContractStutters DEF Decided, Conclusion, ending, handed
<1>4. CASE Deciding
  BY <1>4, DecidingContract DEF Contract!Next
<1>5. ASSUME NEW how \in Receipts, RunEnd(how) PROVE Contract!Next
  BY <1>5, RunEndContract DEF Contract!Next
<1> QED
  BY StepCases, <1>1, <1>2, <1>3, <1>4, <1>5, LeavingContract, StartContract, FinishContract

\* Reporter and runner, in their several processes, are together one client that
\* decides before the first test, leaves out only what the answer leaves out, and
\* reports a reduction only of a run that kept to it (onTestRunStart and
\* onTestRunEnd of reporter.ts, the hooks of extend-runner.ts), even where a
\* user's runner keeps a hook of the extension from its tests.
THEOREM Refinement == Spec => ImplementsContract
<1>1. IInv /\ IInv' /\ [Next]_vars => [Contract!Next]_Contract!vars
  BY NextContract
<1>2. Init => Contract!Init
  BY InitContract
<1> QED
  BY <1>1, <1>2, Invariance, PTL DEF Spec, ImplementsContract, Contract!Spec

-----------------------------------------------------------------------------
\* No other case of the file bears the same name.
Alone(c) == \A d \in CasesOf(FileOf[c]) \ {c} : NameOf[d] # NameOf[c]

Members(s) == {s[i] : i \in DOMAIN s}
Measure(c) == metrics[FileOf[c]][NameOf[c]]

\* Tries are only watched for a candidate, and only started by the hook.
Untried(c) ==
  /\ state[c] \in {"absent", "pending"} => tries[c] = NoTries /\ truth[c] = <<>>
  /\ tries[c].started => tries[c].watched /\ Reaches("try")
  /\ tries[c].watched => IsCandidate(c)

\* While a case runs, what is recorded of it lacks at most the repeat whose last
\* try is still to be closed; that try failed if there are errors it did not
\* start with.
Recording(c) ==
  state[c] = "running" /\ tries[c].watched /\ Reaches("try") =>
    IF ~tries[c].started
    THEN tries[c].outcomes = <<>> /\ truth[c] = <<>> /\ at[c].retry = 0
    ELSE IF at[c].retry > 0 THEN tries[c].outcomes = truth[c]
    ELSE truth[c] = Append(tries[c].outcomes,
                           IF errors[c] > tries[c].errorsAtTryStart THEN "fail" ELSE "pass")
Retrying(c) == state[c] = "running" /\ ~at[c].again => at[c].retry = 0

\* A case that was checked is over, with all its repeats recorded.
Checked(c) ==
  /\ "checked" \in meta[c] =>
       state[c] \in {"passed", "failed"} /\ tries[c].outcomes = truth[c] /\ truth[c] # <<>>
  /\ "checked" \in meta[c] /\ Alone(c) => ("flaky" \in meta[c] <=> F!IsFlaky(Measure(c)))

\* What is measured of a case that is alone is what was recorded of it.
Measured(c) ==
  Alone(c) => /\ Measure(c).attempts = Len(tries[c].outcomes)
              /\ Measure(c).outcomes = Members(tries[c].outcomes)

\* A failure turned into a pass is one of the two the features absorb, and marked.
Absorbed(c) ==
  raw[c] = "fail" /\ state[c] = "passed" =>
    /\ \/ NameOf[c] \in quarantineList
       \/ flakyContext.mode = "unhealthy" /\ IsCandidate(c) /\ truth[c][1] = "pass"
    /\ meta[c] \cap {"quarantined", "absorbedFailure"} # {}

TryInv(c) == Untried(c) /\ Recording(c) /\ Retrying(c) /\ Checked(c) /\ Measured(c) /\ Absorbed(c)
RepeatInv == \A c \in Cases : TryInv(c)

-----------------------------------------------------------------------------
(* The invariant about the repeats.                                        *)

\* One more outcome, and the first of them.
LEMMA OneMore ==
  ASSUME NEW s \in Seq({"pass", "fail"}), NEW o \in {"pass", "fail"}
  PROVE  /\ Append(s, o) \in Seq({"pass", "fail"}) /\ Append(s, o) # <<>>
         /\ Len(Append(s, o)) = Len(s) + 1
         /\ Members(Append(s, o)) = Members(s) \cup {o}
<1>1. /\ Append(s, o) \in Seq({"pass", "fail"}) /\ Len(Append(s, o)) = Len(s) + 1
      /\ Append(s, o)[Len(s) + 1] = o /\ DOMAIN Append(s, o) = DOMAIN s \cup {Len(s) + 1}
      /\ \A i \in DOMAIN s : Append(s, o)[i] = s[i]
  OBVIOUS
<1> QED
  BY <1>1 DEF Members

\* Types of what the hooks work on.
LEMMA TryTyped ==
  ASSUME IInv, NEW c \in Cases
  PROVE  /\ tries[c] \in TryRecord /\ tries[c].outcomes \in Seq({"pass", "fail"})
         /\ errors[c] \in Nat /\ at[c].retry \in 0..Retry /\ truth[c] \in Seq({"pass", "fail"})
         /\ FileOf[c] \in Files /\ NameOf[c] \in Tests /\ Measure(c) \in F!Metrics
         /\ Measure(c).attempts \in Nat
  BY MeasureType DEF IInv, TypeInv, RepeatTypes, TryRecord, Measure, F!Metrics

\* Nothing was tried at first.
LEMMA RepeatInit == ASSUME Init PROVE RepeatInv
<1> SUFFICES ASSUME NEW c \in Cases PROVE TryInv(c)
  BY DEF RepeatInv
<1>1. /\ state[c] = "absent" /\ tries[c] = NoTries /\ truth[c] = <<>> /\ meta[c] = {}
      /\ raw[c] = "none" /\ Measure(c) = F!NoMetrics
  BY VitestConstants DEF Init, Measure
<1>2. /\ ~NoTries.started /\ ~NoTries.watched /\ NoTries.outcomes = <<>>
      /\ F!NoMetrics.attempts = 0 /\ F!NoMetrics.outcomes = {}
  BY DEF NoTries, F!NoMetrics
<1>3. Len(<<>>) = 0 /\ Members(<<>>) = {}
  BY DEF Members
<1> QED
  BY <1>1, <1>2, <1>3 DEF TryInv, Untried, Recording, Retrying, Checked, Measured, Absorbed

\* Handing over while no case is there is of no consequence.
LEMMA LearningKept ==
  ASSUME IInv, RepeatInv, phase = "initialised", UNCHANGED <<state, meta, raw, repeats>>
  PROVE  RepeatInv'
<1> SUFFICES ASSUME NEW c \in Cases PROVE TryInv(c)'
  BY DEF RepeatInv
<1>1. state[c] = "absent" /\ meta[c] = {}
  BY NoCaseYet
<1>2. tries[c] = NoTries /\ truth[c] = <<>> /\ ~NoTries.started /\ ~NoTries.watched
  BY <1>1 DEF RepeatInv, TryInv, Untried, NoTries
<1>3. (Untried(c) /\ Recording(c) /\ Retrying(c) /\ Checked(c) /\ Absorbed(c))'
  BY <1>1, <1>2 DEF Untried, Recording, Retrying, Checked, Absorbed, repeats
<1>4. Measured(c)'
  BY DEF RepeatInv, TryInv, Measured, Measure, repeats
<1> QED
  BY <1>3, <1>4 DEF TryInv

\* A candidate stays one once the run started.
LEMMA SameCandidate ==
  ASSUME UNCHANGED <<env, handed>>, NEW c \in Cases PROVE IsCandidate(c)' <=> IsCandidate(c)
  BY DEF IsCandidate, handed

\* A case that does not run, and whose marks and repeats stay.
LEMMA StaysUntried ==
  ASSUME NEW c \in Cases, TryInv(c), UNCHANGED <<env, fetched, handed>>,
         UNCHANGED <<raw[c], tries[c], truth[c], at[c], errors[c]>>,
         Alone(c) => Measure(c)'.attempts = Measure(c).attempts /\ Measure(c)'.outcomes = Measure(c).outcomes,
         \/ UNCHANGED <<state[c], meta[c]>>
         \/ /\ state'[c] \notin {"running", "passed"} /\ "checked" \notin meta'[c]
            /\ state'[c] \in {"absent", "pending"} => state[c] \in {"absent", "pending"}
  PROVE  TryInv(c)'
<1>1. quarantineList' = quarantineList /\ flakyContext' = flakyContext
  BY DEF fetched
<1>2. Reaches("try")' <=> Reaches("try")
  BY SameReach
<1>3. (Untried(c) /\ Recording(c) /\ Retrying(c))'
  BY <1>2, SameCandidate DEF TryInv, Untried, Recording, Retrying
<1>4. Checked(c)'
  <2>1. Alone(c)' <=> Alone(c)
    BY DEF Alone
  <2> QED
    BY <2>1 DEF TryInv, Checked, F!IsFlaky
<1>5. Measured(c)'
  <2>1. Alone(c)' <=> Alone(c)
    BY DEF Alone
  <2> QED
    BY <2>1 DEF TryInv, Measured
<1>6. Absorbed(c)'
  BY <1>1, SameCandidate DEF TryInv, Absorbed
<1> QED
  BY <1>3, <1>4, <1>5, <1>6 DEF TryInv

\* What one case measures is no other's that is alone with its name.
LEMMA OthersMeasure ==
  ASSUME IInv, NEW c \in Cases, NEW d \in Cases \ {c}, Alone(d),
         \/ UNCHANGED metrics
         \/ \E m \in F!Metrics : metrics' = [metrics EXCEPT ![FileOf[c]][NameOf[c]] = m]
  PROVE  UNCHANGED Measure(d)
<1>1. FileOf[d] # FileOf[c] \/ NameOf[d] # NameOf[c]
  BY DEF Alone, CasesOf
<1>2. FileOf[d] \in Files /\ NameOf[d] \in Tests /\ RepeatTypes
  BY VitestConstants DEF IInv, TypeInv
<1>3. CASE UNCHANGED metrics
  BY <1>3 DEF Measure
<1>4. CASE \E m \in F!Metrics : metrics' = [metrics EXCEPT ![FileOf[c]][NameOf[c]] = m]
  BY <1>1, <1>2, <1>4, MetricsWritten DEF Measure
<1> QED
  BY <1>3, <1>4

\* A step of one case is of that case alone.
LEMMA OneTried ==
  ASSUME IInv, RepeatInv, NEW c \in Cases, UNCHANGED <<env, fetched, handed>>,
         \A d \in Cases \ {c} :
           UNCHANGED <<state[d], meta[d], raw[d], tries[d], truth[d], at[d], errors[d]>>,
         \/ UNCHANGED metrics
         \/ \E m \in F!Metrics : metrics' = [metrics EXCEPT ![FileOf[c]][NameOf[c]] = m],
         TryInv(c)'
  PROVE  RepeatInv'
<1> SUFFICES ASSUME NEW d \in Cases, d # c PROVE TryInv(d)'
  BY DEF RepeatInv
<1>1. Alone(d) => UNCHANGED Measure(d)
  BY OthersMeasure
<1>2. TryInv(d)
  BY DEF RepeatInv
<1> QED
  BY <1>1, <1>2, StaysUntried

\* A step that reports nothing of a repeat.
LEMMA AsideTried ==
  ASSUME IInv, RepeatInv,
         \/ UNCHANGED vars
         \/ Aside
         \/ \E how \in Receipts : RunEnd(how)
  PROVE  RepeatInv'
<1>1. UNCHANGED <<env, fetched, handed, state, meta, raw, tries, truth, at, errors, metrics>>
  BY DEF vars, Aside, ImportFails, FinishFile, UnhandledError, Stops, RunEnd, repeats, results
<1> SUFFICES ASSUME NEW c \in Cases PROVE TryInv(c)'
  BY DEF RepeatInv
<1>2. TryInv(c) /\ UNCHANGED Measure(c)
  BY <1>1 DEF RepeatInv, Measure
<1> QED
  BY <1>1, <1>2, StaysUntried

\* So is one that leaves cases out before they run.
LEMMA LeavingTried ==
  ASSUME IInv, RepeatInv,
         \/ \E f \in Files, S \in SUBSET Cases : ImportFile(f, S)
         \/ \E f \in Files, S \in SUBSET Cases : HookFails(f, S)
         \/ \E c \in Cases : DeselectTask(c)
  PROVE  RepeatInv'
<1>1. UNCHANGED <<env, fetched, handed, repeats, raw>>
  BY DEF ImportFile, HookFails, DeselectTask
<1> SUFFICES ASSUME NEW c \in Cases PROVE TryInv(c)'
  BY DEF RepeatInv
<1>2. /\ TryInv(c) /\ Present(c) /\ MarkedOut(c) /\ state[c] \in CaseState
      /\ UNCHANGED <<raw[c], tries[c], truth[c], at[c], errors[c], Measure(c)>>
  BY <1>1 DEF RepeatInv, repeats, Measure, IInv, CaseInv, TypeInv, ResultTypes
<1>3. \/ UNCHANGED <<state[c], meta[c]>>
      \/ /\ state'[c] \notin {"running", "passed"} /\ "checked" \notin meta'[c]
         /\ state'[c] \in {"absent", "pending"} => state[c] \in {"absent", "pending"}
  <2>1. ASSUME NEW f \in Files, NEW skips \in SUBSET Cases, ImportFile(f, skips)
        PROVE  \/ UNCHANGED <<state[c], meta[c]>>
               \/ /\ state'[c] \in {"skipped", "pending"} /\ "checked" \notin meta'[c]
                  /\ state[c] \in {"absent", "pending"}
    <3> DEFINE out == {d \in CasesOf(f) : Reaches("suite") /\ LeftOut(d)}
    <3>1. /\ file[f] = "queued" /\ skips \subseteq CasesOf(f) /\ out \subseteq CasesOf(f)
          /\ state'[c] = (IF c \in skips \cup out THEN "skipped"
                          ELSE IF c \in CasesOf(f) THEN "pending" ELSE state[c])
          /\ meta'[c] = (IF c \in out THEN {"deselected"} ELSE meta[c])
      BY <2>1 DEF ImportFile
    <3>2. c \in CasesOf(f) => state[c] = "absent" /\ meta[c] = {}
      BY <1>2, <3>1 DEF CasesOf, Present
    <3> HIDE DEF out
    <3> QED
      BY <3>1, <3>2
  <2>2. ASSUME NEW f \in Files, NEW S \in SUBSET Cases, HookFails(f, S)
        PROVE  \/ UNCHANGED <<state[c], meta[c]>>
               \/ state'[c] = "skipped" /\ "checked" \notin meta'[c]
    <3>1. /\ S \subseteq {d \in CasesOf(f) : state[d] = "pending"} /\ UNCHANGED meta
          /\ state'[c] = (IF c \in S THEN "skipped" ELSE state[c])
      BY <2>2 DEF HookFails
    <3>2. c \in S => meta[c] = {}
      BY <1>2, <3>1 DEF Present
    <3> QED
      BY <3>1, <3>2
  <2>3. ASSUME NEW d \in Cases, DeselectTask(d)
        PROVE  \/ UNCHANGED <<state[c], meta[c]>>
               \/ state'[c] = "skipped" /\ "checked" \notin meta'[c]
    <3>1. /\ state[d] \in {"pending", "skipped"}
          /\ state' = [state EXCEPT ![d] = "skipped"]
          /\ meta' = [meta EXCEPT ![d] = meta[d] \cup {"applied", "deselected"}]
      BY <2>3 DEF DeselectTask
    <3>2. CASE c # d
      BY <3>1, <3>2 DEF IInv, TypeInv, ResultTypes
    <3>3. CASE c = d
      <4>1. "checked" \notin meta[c]
        BY <1>2, <3>1, <3>3 DEF TryInv, Checked
      <4>2. state'[c] = "skipped" /\ meta'[c] = meta[c] \cup {"applied", "deselected"}
        BY <3>1, <3>3 DEF IInv, TypeInv, ResultTypes
      <4> QED
        BY <4>1, <4>2
    <3> QED
      BY <3>2, <3>3
  <2> QED
    BY <2>1, <2>2, <2>3
<1> QED
  BY <1>1, <1>2, <1>3, StaysUntried

\* A case starts with nothing recorded of it.
LEMMA StartTried ==
  ASSUME IInv, RepeatInv, NEW c \in Cases, BeforeRunTask(c) PROVE RepeatInv'
<1> DEFINE m == F!NoteDuration(Measure(c), MaxRepeats(c), provided.flaky.mean)
           new == [NoTries EXCEPT !.watched = Watches(c)]
           new_at == [NotTrying EXCEPT !.again = TRUE,
                        !.repeats = IF Watches(c) THEN MaxRepeats(c) ELSE 0]
<1>1. /\ state[c] = "pending" /\ state' = [state EXCEPT ![c] = "running"]
      /\ meta' = [meta EXCEPT ![c] = meta[c] \cup
           (IF Reaches("task") THEN {"applied"} ELSE {}) \cup
           (IF Reaches("task") /\ provided.flaky # F!NoContext /\ ~env.engine
            THEN {"flakyUnavailable"} ELSE {})]
      /\ tries' = [tries EXCEPT ![c] = new] /\ at' = [at EXCEPT ![c] = new_at]
      /\ metrics' = IF ~Watches(c) THEN metrics
                    ELSE [metrics EXCEPT ![FileOf[c]][NameOf[c]] = m]
      /\ UNCHANGED <<env, fetched, handed, raw, errors, truth>>
  BY DEF BeforeRunTask, Measure
<1>2. /\ Measure(c) \in F!Metrics /\ TypeInv /\ TryInv(c) /\ Present(c)
  BY TryTyped DEF IInv, CaseInv, RepeatInv
<1>3. m \in F!Metrics /\ m.outcomes = Measure(c).outcomes /\ m.attempts = Measure(c).attempts
  <2>1. provided.flaky \in F!FlakyContexts
    BY <1>2, ContextType DEF TypeInv, HandedTypes
  <2>2. provided.flaky.mean \in Nat
    BY <2>1 DEF F!FlakyContexts
  <2>3. MaxRepeats(c) \in Nat
    BY <2>1, <2>2, RepeatsType DEF MaxRepeats
  <2> QED
    BY <1>2, <2>2, <2>3, MetricsKept
<1>4. /\ new.outcomes = <<>> /\ ~new.started /\ new.watched = Watches(c)
      /\ new_at.again /\ new_at.retry = 0
  BY DEF NoTries, NotTrying
<1> HIDE DEF m, new, new_at
<1>5. metrics' = metrics \/ metrics' = [metrics EXCEPT ![FileOf[c]][NameOf[c]] = m]
  BY <1>1
<1>6. /\ state'[c] = "running" /\ tries'[c] = new /\ at'[c] = new_at /\ truth'[c] = <<>>
      /\ "checked" \notin meta'[c]
      /\ UNCHANGED <<errors[c], raw[c]>>
  BY <1>1, <1>2 DEF TypeInv, ResultTypes, RepeatTypes, TryInv, Untried, Present
<1>7. Measure(c)'.outcomes = Measure(c).outcomes /\ Measure(c)'.attempts = Measure(c).attempts
  BY <1>2, <1>3, <1>5, MetricsWritten DEF TypeInv, Measure
<1>8. (Untried(c) /\ Recording(c) /\ Retrying(c))'
  <2>1. Watches(c) => IsCandidate(c)
    BY DEF Watches
  <2>2. IsCandidate(c)' <=> IsCandidate(c)
    BY <1>1, SameCandidate
  <2> QED
    BY <1>4, <1>6, <2>1, <2>2 DEF Untried, Recording, Retrying
<1>9. (Checked(c) /\ Absorbed(c))'
  BY <1>6 DEF Checked, Absorbed
<1>10. Measured(c)'
  <2>1. tries[c].outcomes = <<>>
    BY <1>1, <1>2 DEF TryInv, Untried, NoTries
  <2>2. Alone(c)' <=> Alone(c)
    BY DEF Alone
  <2> QED
    BY <1>2, <1>4, <1>6, <1>7, <2>1, <2>2 DEF TryInv, Measured
<1>11. TryInv(c)'
  BY <1>8, <1>9, <1>10 DEF TryInv
<1>12. \A d \in Cases \ {c} :
         UNCHANGED <<state[d], meta[d], raw[d], tries[d], truth[d], at[d], errors[d]>>
  BY <1>1, <1>2 DEF TypeInv, ResultTypes, RepeatTypes
<1> QED
  BY <1>1, <1>3, <1>5, <1>11, <1>12, OneTried

\* The hook before a try brings what is recorded up to date with what happened.
LEMMA Trying ==
  ASSUME IInv, RepeatInv, NEW c \in Cases, state[c] = "running", BeforeTry(c),
         tries[c].watched, Reaches("try")
  PROVE  \E t \in TryRecord :
           /\ tries' = [tries EXCEPT ![c] = t] /\ t.watched /\ t.started
           /\ t.outcomes = truth[c] /\ t.errorsAtTryStart = errors[c]
           /\ \/ metrics' = metrics /\ t.outcomes = tries[c].outcomes
              \/ \E o \in {"pass", "fail"} :
                   /\ metrics' = [metrics EXCEPT ![FileOf[c]][NameOf[c]] = F!RecordOutcome(Measure(c), o)]
                   /\ t.outcomes = Append(tries[c].outcomes, o)
<1> DEFINE closed == CloseTry(tries[c], errors[c])
           opened == [tries[c] EXCEPT !.started = TRUE, !.errorsAtTryStart = errors[c]]
<1>1. tries[c] \in TryRecord /\ errors[c] \in Nat /\ at[c].retry \in 0..Retry /\ Recording(c)
      /\ tries \in [Cases -> TryRecord]
  BY TryTyped DEF RepeatInv, TryInv, IInv, TypeInv, RepeatTypes
<1>2. Retry \in Nat
  BY VitestConstants
<1>3. CASE ~tries[c].started
  <2>1. tries' = [tries EXCEPT ![c] = opened] /\ metrics' = metrics
    BY <1>1, <1>3 DEF BeforeTry
  <2>2. opened \in TryRecord /\ opened.watched /\ opened.started
        /\ opened.errorsAtTryStart = errors[c] /\ opened.outcomes = tries[c].outcomes
    BY <1>1 DEF TryRecord
  <2>3. opened.outcomes = truth[c]
    BY <1>1, <1>3, <2>2 DEF Recording
  <2> HIDE DEF opened
  <2> QED
    BY <2>1, <2>2, <2>3
<1>4. CASE tries[c].started /\ at[c].retry > 0
  <2>1. tries' = [tries EXCEPT ![c] = closed] /\ metrics' = metrics
    BY <1>4 DEF BeforeTry
  <2>2. closed \in TryRecord /\ closed.watched /\ closed.started
        /\ closed.errorsAtTryStart = errors[c] /\ closed.outcomes = tries[c].outcomes
    BY <1>1, <1>4, TryKept
  <2>3. closed.outcomes = truth[c]
    BY <1>1, <1>4, <2>2 DEF Recording
  <2> HIDE DEF closed
  <2> QED
    BY <2>1, <2>2, <2>3
<1>5. CASE tries[c].started /\ ~(at[c].retry > 0)
  <2> DEFINE t == RecordRepeat(closed)
             o == OutcomeOf(closed)
  <2>1. /\ tries' = [tries EXCEPT ![c] = t]
        /\ metrics' = [metrics EXCEPT ![FileOf[c]][NameOf[c]] = F!RecordOutcome(Measure(c), o)]
    BY <1>5 DEF BeforeTry, Measure
  <2>2. /\ closed \in TryRecord /\ closed.outcomes = tries[c].outcomes
        /\ o = IF errors[c] > tries[c].errorsAtTryStart THEN "fail" ELSE "pass"
        /\ closed.watched /\ closed.started /\ closed.errorsAtTryStart = errors[c]
    BY <1>1, <1>5, TryKept
  <2>3. t \in TryRecord /\ t.outcomes = Append(tries[c].outcomes, o) /\ t.watched /\ t.started
        /\ t.errorsAtTryStart = errors[c] /\ o \in {"pass", "fail"}
    <3> HIDE DEF closed
    <3> QED
      BY <2>2, TryKept
  <2>4. t.outcomes = truth[c]
    BY <1>1, <1>2, <1>5, <2>2, <2>3 DEF Recording
  <2> HIDE DEF t, o
  <2> QED
    BY <2>1, <2>3, <2>4
<1> QED
  BY <1>3, <1>4, <1>5

\* A try counts its error, if any, and decides where Vitest goes from there.
LEMMA Trod ==
  ASSUME TypeInv, NEW c \in Cases, NEW fails \in BOOLEAN, NEW retries \in BOOLEAN,
         Try(c, fails, retries)
  PROVE  /\ errors'[c] = (IF fails THEN errors[c] + 1 ELSE errors[c])
         /\ IF retries
            THEN at'[c].retry > 0 /\ at'[c].again /\ truth'[c] = truth[c]
            ELSE at'[c].retry = 0 /\ truth'[c] = Append(truth[c], IF fails THEN "fail" ELSE "pass")
         /\ \A d \in Cases \ {c} : UNCHANGED <<truth[d], at[d], errors[d]>>
<1>1. /\ truth \in [Cases -> Seq({"pass", "fail"})] /\ errors \in [Cases -> Nat]
      /\ at \in [Cases -> [repeats : Nat, repeat : Nat, retry : 0..Retry, again : BOOLEAN]]
      /\ Retry \in Nat
  BY VitestConstants DEF TypeInv, RepeatTypes
<1>2. at[c].again /\ errors' = [errors EXCEPT ![c] = IF fails THEN @ + 1 ELSE @]
  BY DEF Try
<1>3. CASE retries
  <2>1. at' = [at EXCEPT ![c].retry = @ + 1] /\ truth' = truth
    BY <1>3 DEF Try
  <2> QED
    BY <1>1, <1>2, <1>3, <2>1
<1>4. CASE ~retries
  <2> DEFINE more == at[c].repeat < at[c].repeats
  <2>1. /\ at' = [at EXCEPT ![c].retry = 0, ![c].repeat = @ + 1, ![c].again = more]
        /\ truth' = [truth EXCEPT ![c] = Append(@, IF fails THEN "fail" ELSE "pass")]
    BY <1>4 DEF Try
  <2> HIDE DEF more
  <2> QED
    BY <1>1, <1>2, <1>4, <2>1
<1> QED
  BY <1>3, <1>4

\* What is measured follows what is recorded.
LEMMA MeasureFollows ==
  ASSUME IInv, RepeatInv, NEW c \in Cases, NEW t \in TryRecord, tries' = [tries EXCEPT ![c] = t],
         \/ metrics' = metrics /\ t.outcomes = tries[c].outcomes
         \/ \E o \in {"pass", "fail"} :
              /\ metrics' = [metrics EXCEPT ![FileOf[c]][NameOf[c]] = F!RecordOutcome(Measure(c), o)]
              /\ t.outcomes = Append(tries[c].outcomes, o)
  PROVE  Measured(c)'
<1>1. /\ Measure(c) \in F!Metrics /\ tries[c].outcomes \in Seq({"pass", "fail"}) /\ Measured(c)
      /\ RepeatTypes /\ tries'[c] = t /\ (Alone(c)' <=> Alone(c))
  BY TryTyped DEF IInv, TypeInv, RepeatTypes, RepeatInv, TryInv, Alone
<1>2. CASE metrics' = metrics /\ t.outcomes = tries[c].outcomes
  BY <1>1, <1>2 DEF Measured, Measure
<1>3. ASSUME NEW o \in {"pass", "fail"},
             metrics' = [metrics EXCEPT ![FileOf[c]][NameOf[c]] = F!RecordOutcome(Measure(c), o)],
             t.outcomes = Append(tries[c].outcomes, o)
      PROVE  Measured(c)'
  <2> DEFINE m == F!RecordOutcome(Measure(c), o)
  <2>1. m \in F!Metrics /\ m.outcomes = Measure(c).outcomes \cup {o}
        /\ m.attempts = Measure(c).attempts + 1
    BY <1>1, MetricsKept
  <2>2. Measure(c)' = m
    <3> HIDE DEF m
    <3>1. metrics' = [metrics EXCEPT ![FileOf[c]][NameOf[c]] = m]
      BY <1>3 DEF m
    <3> QED
      BY <1>1, <2>1, <3>1, MetricsWritten DEF Measure
  <2>3. Len(t.outcomes) = Len(tries[c].outcomes) + 1
        /\ Members(t.outcomes) = Members(tries[c].outcomes) \cup {o}
    BY <1>1, <1>3, OneMore
  <2> HIDE DEF m
  <2>4. Alone(c) => /\ m.attempts = Len(t.outcomes) /\ m.outcomes = Members(t.outcomes)
    BY <1>1, <2>1, <2>3 DEF Measured
  <2> QED
    BY <1>1, <2>2, <2>4 DEF Measured
<1> QED
  BY <1>2, <1>3

\* A try leaves at most its own outcome to be recorded.
LEMMA TryTried ==
  ASSUME IInv, RepeatInv, NEW c \in Cases, NEW fails \in BOOLEAN, NEW retries \in BOOLEAN,
         Try(c, fails, retries)
  PROVE  RepeatInv'
<1>1. /\ state[c] = "running" /\ BeforeTry(c)
      /\ UNCHANGED <<env, fetched, handed, state, meta, raw>>
  BY DEF Try, results
<1>2. /\ TryInv(c) /\ Present(c) /\ TypeInv /\ tries \in [Cases -> TryRecord]
      /\ tries[c] \in TryRecord /\ truth[c] \in Seq({"pass", "fail"}) /\ errors[c] \in Nat
      /\ Measure(c) \in F!Metrics
  BY TryTyped DEF RepeatInv, IInv, CaseInv, TypeInv, RepeatTypes
<1>3. "checked" \notin meta[c]
  BY <1>1, <1>2 DEF Present
<1>4. (Checked(c) /\ Absorbed(c))'
  BY <1>1, <1>3 DEF Checked, Absorbed
<1>5. Retrying(c)'
  BY <1>2, Trod DEF Retrying
<1>6. (IsCandidate(c)' <=> IsCandidate(c)) /\ (Reaches("try")' <=> Reaches("try"))
  BY <1>1, SameCandidate, SameReach
<1>7. CASE ~tries[c].watched \/ ~Reaches("try")
  <2>1. UNCHANGED <<tries, metrics>>
    BY <1>1, <1>7 DEF BeforeTry
  <2>2. (Untried(c) /\ Recording(c))'
    BY <1>1, <1>2, <1>6, <1>7, <2>1 DEF TryInv, Untried, Recording
  <2>3. Measured(c)'
    BY <1>2, <2>1 DEF TryInv, Measured, Measure, Alone
  <2>4. TryInv(c)'
    BY <1>4, <1>5, <2>2, <2>3 DEF TryInv
  <2>5. \A d \in Cases \ {c} :
          UNCHANGED <<state[d], meta[d], raw[d], tries[d], truth[d], at[d], errors[d]>>
    BY <1>1, <1>2, <2>1, Trod
  <2> QED
    BY <1>1, <2>1, <2>4, <2>5, OneTried
<1>8. CASE tries[c].watched /\ Reaches("try")
  <2>1. PICK t \in TryRecord :
           /\ tries' = [tries EXCEPT ![c] = t] /\ t.watched /\ t.started
           /\ t.outcomes = truth[c] /\ t.errorsAtTryStart = errors[c]
           /\ \/ metrics' = metrics /\ t.outcomes = tries[c].outcomes
              \/ \E o \in {"pass", "fail"} :
                   /\ metrics' = [metrics EXCEPT ![FileOf[c]][NameOf[c]] = F!RecordOutcome(Measure(c), o)]
                   /\ t.outcomes = Append(tries[c].outcomes, o)
    BY <1>1, <1>8, Trying
  <2>2. tries'[c] = t /\ \A d \in Cases \ {c} : tries'[d] = tries[d]
    BY <1>2, <2>1
  <2>3. Untried(c)'
    BY <1>1, <1>2, <1>6, <1>8, <2>1, <2>2 DEF TryInv, Untried
  <2>4. Recording(c)'
    <3>1. CASE retries
      BY <1>2, <2>1, <2>2, <3>1, Trod DEF Recording
    <3>2. CASE ~retries
      <4>1. at'[c].retry = 0 /\ truth'[c] = Append(truth[c], IF fails THEN "fail" ELSE "pass")
            /\ errors'[c] = (IF fails THEN errors[c] + 1 ELSE errors[c])
        BY <1>2, <3>2, Trod
      <4>2. errors'[c] > t.errorsAtTryStart <=> fails
        BY <1>2, <2>1, <4>1
      <4> QED
        BY <2>1, <2>2, <4>1, <4>2 DEF Recording
    <3> QED
      BY <3>1, <3>2
  <2>5. Measured(c)'
    BY <2>1, MeasureFollows
  <2>6. TryInv(c)'
    BY <1>4, <1>5, <2>3, <2>4, <2>5 DEF TryInv
  <2>7. \A d \in Cases \ {c} :
          UNCHANGED <<state[d], meta[d], raw[d], tries[d], truth[d], at[d], errors[d]>>
    BY <1>1, <1>2, <2>2, Trod
  <2>8. metrics' = metrics
        \/ \E m \in F!Metrics : metrics' = [metrics EXCEPT ![FileOf[c]][NameOf[c]] = m]
    BY <1>2, <2>1, MetricsKept
  <2> QED
    BY <1>1, <2>6, <2>7, <2>8, OneTried
<1> QED
  BY <1>7, <1>8

\* The hook after a case closes the last try, which completes what is recorded.
LEMMA ClosesWithTruth ==
  ASSUME IInv, RepeatInv, NEW c \in Cases, state[c] = "running", ~at[c].again, Judged(c)
  PROVE  /\ Closing(c) \in TryRecord /\ Closing(c).outcomes = truth[c] /\ truth[c] # <<>>
         /\ Closing(c).watched /\ Closing(c).started
         /\ LastOutcome(c) \in {"pass", "fail"}
         /\ Closing(c).outcomes = Append(tries[c].outcomes, LastOutcome(c))
         /\ Measuring(c) = F!RecordOutcome(Measure(c), LastOutcome(c))
         /\ Measuring(c) \in F!Metrics
<1> DEFINE closed == CloseTry(tries[c], errors[c])
<1>1. /\ tries[c] \in TryRecord /\ tries[c].outcomes \in Seq({"pass", "fail"})
      /\ errors[c] \in Nat /\ Recording(c) /\ Retrying(c) /\ Untried(c) /\ Measure(c) \in F!Metrics
  BY TryTyped DEF RepeatInv, TryInv
<1>2. /\ closed \in TryRecord /\ closed.outcomes = tries[c].outcomes
      /\ OutcomeOf(closed) = IF errors[c] > tries[c].errorsAtTryStart THEN "fail" ELSE "pass"
      /\ closed.watched = tries[c].watched /\ closed.started = tries[c].started
  BY <1>1, TryKept
<1>3. /\ RecordRepeat(closed) \in TryRecord /\ OutcomeOf(closed) \in {"pass", "fail"}
      /\ RecordRepeat(closed).outcomes = Append(tries[c].outcomes, OutcomeOf(closed))
      /\ RecordRepeat(closed).watched = tries[c].watched
      /\ RecordRepeat(closed).started = tries[c].started
  <2> HIDE DEF closed
  <2> QED
    BY <1>2, TryKept
<1>4. truth[c] = Append(tries[c].outcomes, OutcomeOf(closed))
  <2>1. tries[c].watched /\ tries[c].started /\ Reaches("try") /\ at[c].retry = 0
    BY <1>1 DEF Judged, Untried, Retrying
  <2> QED
    BY <1>1, <1>2, <2>1 DEF Recording
<1>5. Closing(c) = RecordRepeat(closed) /\ LastOutcome(c) = OutcomeOf(closed)
      /\ Measuring(c) = F!RecordOutcome(Measure(c), OutcomeOf(closed))
  BY DEF Closing, LastOutcome, Measuring, Measure
<1> HIDE DEF closed
<1>6. truth[c] # <<>>
  BY <1>1, <1>3, <1>4, OneMore
<1> QED
  BY <1>1, <1>3, <1>4, <1>5, <1>6, MetricsKept DEF Judged

\* What a case ends with: checked if it was judged, and absorbed for a reason.
LEMMA FinishTried ==
  ASSUME IInv, RepeatInv, NEW c \in Cases, NEW result \in {"pass", "fail"}, FinishTask(c, result)
  PROVE  RepeatInv'
<1>1. /\ state[c] = "running" /\ ~at[c].again /\ raw' = [raw EXCEPT ![c] = result]
      /\ at' = [at EXCEPT ![c] = NotTrying]
      /\ UNCHANGED <<env, phase, fetched, handed, errors, truth>>
  BY DEF FinishTask
<1>2. /\ TryInv(c) /\ Present(c) /\ TypeInv /\ RepeatTypes /\ ResultTypes /\ Current
      /\ meta[c] \subseteq {"applied", "flakyUnavailable"}
  BY <1>1 DEF RepeatInv, IInv, CaseInv, HandedInv, TypeInv, Present
<1>3. (IsCandidate(c)' <=> IsCandidate(c)) /\ (Reaches("try")' <=> Reaches("try"))
      /\ quarantineList' = quarantineList /\ flakyContext' = flakyContext
  BY <1>1, SameCandidate, SameReach DEF fetched
<1>4. /\ state'[c] \in {"passed", "failed"} /\ raw'[c] = result /\ truth'[c] = truth[c]
      /\ \A d \in Cases \ {c} :
           UNCHANGED <<state[d], meta[d], raw[d], tries[d], truth[d], at[d], errors[d]>>
  <2>1. /\ tries' = tries \/ tries' = [tries EXCEPT ![c] = Closing(c)]
        /\ state' = [state EXCEPT ![c] = "passed"] \/ state' = [state EXCEPT ![c] = "failed"]
        /\ meta' = meta \/ meta' = [meta EXCEPT ![c] = @ \cup Adding(c, result)]
    BY <1>2, Finishing
  <2> QED
    BY <1>1, <1>2, <2>1 DEF RepeatTypes, ResultTypes
<1>5. Recording(c)' /\ Retrying(c)'
  BY <1>4 DEF Recording, Retrying
<1>6. CASE Reaches("task") /\ Judged(c)
  <2>1. /\ tries' = [tries EXCEPT ![c] = Closing(c)]
        /\ metrics' = [metrics EXCEPT ![FileOf[c]][NameOf[c]] = Measuring(c)]
        /\ meta'[c] = meta[c] \cup Adding(c, result)
        /\ state'[c] = "passed" => result = "pass" \/ Absorbing(c, result) \/ Catching(c, result)
    BY <1>2, <1>6, Finishing DEF ResultTypes
  <2>2. /\ Closing(c) \in TryRecord /\ Closing(c).outcomes = truth[c] /\ truth[c] # <<>>
        /\ Closing(c).watched /\ Closing(c).started
        /\ LastOutcome(c) \in {"pass", "fail"}
        /\ Closing(c).outcomes = Append(tries[c].outcomes, LastOutcome(c))
        /\ Measuring(c) = F!RecordOutcome(Measure(c), LastOutcome(c))
        /\ Measuring(c) \in F!Metrics
    BY <1>1, <1>6, ClosesWithTruth
  <2>3. tries'[c] = Closing(c) /\ Measure(c)' = Measuring(c)
    BY <1>2, <2>1, <2>2, MetricsWritten DEF RepeatTypes, Measure
  <2>4. Untried(c)'
    BY <1>2, <1>3, <1>4, <1>6, <2>2, <2>3 DEF TryInv, Untried, Judged
  <2>5. Measured(c)'
    BY <2>1, <2>2, MeasureFollows
  <2>6. Checked(c)'
    <3>1. "flaky" \in meta'[c] <=> F!IsFlaky(Measuring(c))
      BY <1>2, <1>6, <2>1 DEF Adding
    <3> QED
      BY <1>4, <2>2, <2>3, <3>1 DEF Checked, F!IsFlaky
  <2>7. Absorbed(c)'
    <3> SUFFICES ASSUME result = "fail", state'[c] = "passed"
                 PROVE  /\ \/ NameOf[c] \in quarantineList
                           \/ flakyContext.mode = "unhealthy" /\ IsCandidate(c) /\ truth[c][1] = "pass"
                        /\ meta'[c] \cap {"quarantined", "absorbedFailure"} # {}
      BY <1>3, <1>4 DEF Absorbed
    <3>1. CASE Absorbing(c, result)
      <4>1. flakyContext.mode = "unhealthy" /\ truth[c][1] = "pass" /\ tries[c].watched
        BY <1>2, <2>2, <3>1 DEF Absorbing, Current, Judged
      <4>2. IsCandidate(c)
        BY <1>2, <4>1 DEF TryInv, Untried
      <4>3. "absorbedFailure" \in meta'[c]
        BY <2>1, <3>1 DEF Adding
      <4> QED
        BY <4>1, <4>2, <4>3
    <3>2. CASE Catching(c, result)
      <4>1. NameOf[c] \in quarantineList
        BY <1>2, <3>2 DEF Catching, Current
      <4>2. "quarantined" \in meta'[c]
        BY <2>1, <3>2 DEF Adding
      <4> QED
        BY <4>1, <4>2
    <3> QED
      BY <2>1, <3>1, <3>2
  <2>8. TryInv(c)'
    BY <1>5, <2>4, <2>5, <2>6, <2>7 DEF TryInv
  <2> QED
    BY <1>1, <1>4, <2>1, <2>2, <2>8, OneTried
<1>7. CASE ~(Reaches("task") /\ Judged(c))
  <2>1. tries' = tries /\ metrics' = metrics
    BY <1>2, <1>7, Finishing
  <2>2. /\ "checked" \notin meta'[c]
        /\ result = "fail" /\ state'[c] = "passed" =>
             "quarantined" \in meta'[c] /\ NameOf[c] \in quarantineList
    <3>1. CASE Reaches("task")
      <4>1. /\ meta'[c] = meta[c] \cup Adding(c, result)
            /\ state'[c] = "passed" => result = "pass" \/ Absorbing(c, result) \/ Catching(c, result)
        <5> DEFINE green == result = "pass" \/ Absorbing(c, result) \/ Catching(c, result)
        <5>1. /\ meta' = [meta EXCEPT ![c] = @ \cup Adding(c, result)]
              /\ state' = [state EXCEPT ![c] = IF green THEN "passed" ELSE "failed"]
          BY <1>2, <3>1, Finishing
        <5> HIDE DEF green
        <5>2. meta'[c] = meta[c] \cup Adding(c, result) /\ (state'[c] = "passed" => green)
          BY <1>2, <5>1 DEF ResultTypes
        <5> QED
          BY <5>2 DEF green
      <4>2. "checked" \notin Adding(c, result) /\ ~Absorbing(c, result)
            /\ (Catching(c, result) => "quarantined" \in Adding(c, result))
        BY <1>7, <3>1 DEF Adding, Absorbing
      <4>3. Catching(c, result) => NameOf[c] \in quarantineList
        BY <1>2 DEF Catching, Current
      <4> QED
        BY <1>2, <4>1, <4>2, <4>3
    <3>2. CASE ~Reaches("task")
      <4>1. meta' = meta /\ state'[c] = IF result = "pass" THEN "passed" ELSE "failed"
        BY <1>2, <3>2, Finishing DEF ResultTypes
      <4> QED
        BY <1>2, <4>1
    <3> QED
      BY <3>1, <3>2
  <2>3. (Untried(c) /\ Measured(c))'
    BY <1>2, <1>3, <1>4, <2>1 DEF TryInv, Untried, Measured, Measure, Alone
  <2>4. (Checked(c) /\ Absorbed(c))'
    BY <1>3, <1>4, <2>2 DEF Checked, Absorbed
  <2>5. TryInv(c)'
    BY <1>5, <2>3, <2>4 DEF TryInv
  <2> QED
    BY <1>1, <1>4, <2>1, <2>5, OneTried
<1> QED
  BY <1>6, <1>7

\* What is handed over before the run starts is known before any case is.
LEMMA LearningTried ==
  ASSUME IInv, RepeatInv,
         \/ \E outcome \in {"answered", "dormant", "threw"}, names \in Quarantines :
              QuarantineArrives(outcome, names)
         \/ \E outcome \in {"answered", "dormant", "threw"}, context \in Contexts :
              FlakyArrives(outcome, context)
         \/ Deciding
  PROVE  RepeatInv'
<1>1. Deciding => RunStarts
  BY DecidingTypes DEF IInv
<1>2. phase = "initialised" /\ UNCHANGED <<state, meta, raw, repeats>>
  BY <1>1 DEF QuarantineArrives, FlakyArrives, RunStarts, results
<1> QED
  BY <1>2, LearningKept

\* Both invariants hold of every run.
LEMMA RepeatInvariance == Spec => [](IInv /\ RepeatInv)
<1>1. Init => IInv /\ RepeatInv
  BY InvInit, RepeatInit
<1>2. IInv /\ RepeatInv /\ [Next]_vars => RepeatInv'
  BY StepCases, LearningTried, AsideTried, LeavingTried, StartTried, TryTried, FinishTried
<1>3. IInv /\ RepeatInv /\ [Next]_vars => IInv' /\ RepeatInv'
  BY <1>2, NextIInv
<1> QED
  BY <1>1, <1>3, PTL DEF Spec

-----------------------------------------------------------------------------
(* What follows for the tests.                                             *)

\* What the detector holds of a repeated test is what each of its repeats came to,
\* whatever was retried in between, for any number of repeats and retries
\* (onBeforeTryTask and onAfterRunTask of extend-runner.ts).
THEOREM OutcomesEarned == Spec => []OutcomesAreTheRepeats
<1>1. IInv /\ RepeatInv => OutcomesAreTheRepeats
  <2> SUFFICES ASSUME IInv, RepeatInv, NEW c \in Cases, "checked" \in meta[c]
               PROVE  /\ tries[c].outcomes = truth[c]
                      /\ (\A d \in CasesOf(FileOf[c]) \ {c} : NameOf[d] # NameOf[c]) =>
                           LET m == metrics[FileOf[c]][NameOf[c]]
                           IN /\ F!RerunCount(m) = Len(truth[c]) - 1
                              /\ F!IsFlaky(m) <=>
                                   {"pass", "fail"} \subseteq {truth[c][i] : i \in DOMAIN truth[c]}
                              /\ "flaky" \in meta[c] <=> F!IsFlaky(m)
    BY DEF OutcomesAreTheRepeats
  <2>1. Checked(c) /\ Measured(c) /\ truth[c] \in Seq({"pass", "fail"})
    BY TryTyped DEF RepeatInv, TryInv
  <2>2. tries[c].outcomes = truth[c] /\ truth[c] # <<>>
    BY <2>1 DEF Checked
  <2>3. ASSUME Alone(c)
        PROVE  /\ F!RerunCount(Measure(c)) = Len(truth[c]) - 1
               /\ F!IsFlaky(Measure(c)) <=>
                    {"pass", "fail"} \subseteq {truth[c][i] : i \in DOMAIN truth[c]}
               /\ "flaky" \in meta[c] <=> F!IsFlaky(Measure(c))
    <3>1. Measure(c).attempts = Len(truth[c]) /\ Measure(c).outcomes = Members(truth[c])
      BY <2>1, <2>2, <2>3 DEF Measured
    <3>2. Len(truth[c]) \in Nat /\ Len(truth[c]) # 0
      BY <2>1, <2>2
    <3>3. F!RerunCount(Measure(c)) = Len(truth[c]) - 1
      BY <3>1, <3>2 DEF F!RerunCount
    <3>4. F!IsFlaky(Measure(c)) <=> {"pass", "fail"} \subseteq {truth[c][i] : i \in DOMAIN truth[c]}
      BY <3>1 DEF F!IsFlaky, Members
    <3> QED
      BY <2>1, <2>3, <3>3, <3>4, Zenon DEF Checked
  <2> QED
    BY <2>2, <2>3 DEF Alone, Measure
<1> QED
  BY <1>1, RepeatInvariance, PTL

\* A record of a status weighs in the fold as much as its precedence.
LEMMA RecordWeighs ==
  ASSUME NEW R, NEW t \in Tests
  PROVE  /\ <<t, "failed">> \in R => Fold(R)[t] = "failed"
         /\ <<t, "quarantined_failed">> \in R => Fold(R)[t] \in {"quarantined_failed", "failed"}
         /\ Fold(R)[t] = "failed" => \E r \in R : r[1] = t /\ r[2] = "failed"
<1> DEFINE S == {r[2] : r \in {q \in R : q[1] = t}}
<1>1. Fold(R)[t] = HighestOf(S)
  BY DEF Fold
<1>2. \A s : <<t, s>> \in R => s \in S
  <2> SUFFICES ASSUME NEW s, <<t, s>> \in R PROVE s \in S
    OBVIOUS
  <2>1. <<t, s>> \in {q \in R : q[1] = t} /\ <<t, s>>[2] = s
    OBVIOUS
  <2> QED
    BY <2>1
<1>3. \A s \in S : \E r \in R : r[1] = t /\ r[2] = s
  OBVIOUS
<1> HIDE DEF S
<1> QED
  BY <1>1, <1>2, <1>3 DEF HighestOf

\* What is recorded of a case that settled and was not left out.
LEMMA CaseRecorded ==
  ASSUME IInv, NEW c \in Cases, state[c] \in {"passed", "failed"}
  PROVE  <<NameOf[c], FinalStatusOf(c)>> \in Records /\ NameOf[c] \in Tests
  BY VitestConstants DEF Records, Deselected, Settled, IInv, CaseInv, MarkedOut

\* A failure Vitest saw and the job did not is a quarantined test's, or one after
\* a first repeat that passed in unhealthy mode, and the verdict never has it as a
\* pass, even where another test of its name passed (finalStatus and _foldVerdict
\* of reporter.ts).
THEOREM AbsorptionEarned == Spec => []AbsorbedNeverReadsGreen
<1>1. IInv /\ RepeatInv => AbsorbedNeverReadsGreen
  <2> SUFFICES ASSUME IInv, RepeatInv, NEW c \in Cases, raw[c] = "fail", state[c] = "passed"
               PROVE  /\ \/ NameOf[c] \in quarantineList
                         \/ flakyContext.mode = "unhealthy" /\ IsCandidate(c) /\ truth[c][1] = "pass"
                      /\ phase = "ended" => final[NameOf[c]] \in {"quarantined_failed", "failed"}
    BY DEF AbsorbedNeverReadsGreen
  <2>1. Absorbed(c)
    BY DEF RepeatInv, TryInv
  <2>2. FinalStatusOf(c) = "quarantined_failed"
    BY <2>1 DEF Absorbed, FinalStatusOf
  <2>3. phase = "ended" => final = Fold(Records)
    BY DEF IInv, EndInv
  <2> QED
    BY <2>1, <2>2, <2>3, CaseRecorded, RecordWeighs DEF Absorbed
<1> QED
  BY <1>1, RepeatInvariance, PTL

\* A test on the fetched list fails the job only under a runner of the user's that
\* keeps the extension from its tests, and the run then says that quarantine did
\* not apply (_reportReach of reporter.ts).
THEOREM QuarantineEarned == Spec => []QuarantineHolds
<1>1. IInv => QuarantineHolds
  <2> SUFFICES ASSUME IInv, NEW c \in Cases, NameOf[c] \in quarantineList, state[c] = "failed"
               PROVE  env.runner = "task" /\ "did not apply" \in ReportReach
    BY DEF QuarantineHolds
  <2>1. /\ Unabsorbed(c) /\ provided.quarantine = quarantineList /\ setupInstalled
        /\ \A d \in Cases : ~Reaches("task") => "applied" \notin meta[d]
    BY DEF IInv, CaseInv, Present, HandedInv, Current, Installed
  <2>2. ~Reaches("task")
    BY <2>1 DEF Unabsorbed
  <2>3. env.runner = "task"
    BY <2>1, <2>2 DEF Reaches
  <2>4. "did not apply" \in ReportReach
    BY <2>1, <2>2 DEF ReportReach
  <2> QED
    BY <2>3, <2>4
<1> QED
  BY <1>1, Invariance, PTL

-----------------------------------------------------------------------------
(* What follows for the run.                                               *)

\* An answer of no test left every case out; it executed none.
LEMMA NothingServed ==
  ASSUME IInv, provided.selection = {}
  PROVE  (\A c \in Cases : LeftOut(c)) /\ Executed = {}
<1>1. \A c \in Cases : LeftOut(c)
  BY EverythingIsNoTestSet DEF LeftOut
<1> QED
  BY <1>1 DEF Executed, IInv, CaseInv, MarkedOut

\* What a refusal or an answer in force made the workers keep.
LEMMA InForce ==
  ASSUME IInv, Actionable, selection.selection \in {"subset", "empty", "refused"}
  PROVE  /\ provided.selection = selection.tests
         /\ selection.selection \in {"empty", "refused"} => provided.selection = {}
  BY DEF Actionable, IInv, HandedInv, Offered, WellAnswered, HandsToRunner

\* A run that was neither stopped nor in error saw every case through.
LEMMA SeenThrough ==
  ASSUME IInv, phase = "ended", ~Withheld, ~stopped, NEW c \in Cases
  PROVE  state[c] \in Settled /\ ~AwaitsDeselection(c) /\ setupInstalled \in BOOLEAN
<1>1. FileOf[c] \in Files
  BY VitestConstants
<1>2. file[FileOf[c]] = "done"
  BY <1>1 DEF IInv, EndInv, Withheld
<1> QED
  BY <1>2 DEF IInv, FileInv, TypeInv, HandedTypes, Withheld

\* A run that ends green did what the answer asked, and a refused one is red and
\* ran nothing, whatever became of its files (onTestRunEnd of reporter.ts and the
\* hooks that leave tests out).
THEOREM GreenEarned == Spec => []GreenHonoursTheAnswer
<1>1. IInv => GreenHonoursTheAnswer
  <2> SUFFICES ASSUME IInv, phase = "ended", Actionable
               PROVE  /\ ~red /\ selection.selection = "subset" =>
                           /\ selection.tests \subseteq Collected
                           /\ \A c \in Cases : NameOf[c] \in selection.tests =>
                                state[c] = "passed" \/ (state[c] = "skipped" /\ meta[c] = {})
                      /\ selection.selection = "refused" => red /\ Executed = {}
    BY DEF GreenHonoursTheAnswer
  <2>1. red = EndsRed
    BY DEF IInv, EndInv
  <2>2. ASSUME ~red, selection.selection = "subset"
        PROVE  selection.tests \subseteq Collected
    BY <2>1, <2>2 DEF EndsRed, SubsetGuardFails
  <2>3. ASSUME ~red, selection.selection = "subset", NEW c \in Cases, NameOf[c] \in selection.tests
        PROVE  state[c] = "passed" \/ (state[c] = "skipped" /\ meta[c] = {})
    <3>1. state[c] \in Settled /\ state[c] # "failed"
      BY <2>1, <2>3, SeenThrough DEF EndsRed
    <3>2. ~LeftOut(c)
      BY <2>3, InForce DEF LeftOut
    <3>3. state[c] = "skipped" => meta[c] = {}
      BY <3>2 DEF IInv, CaseInv, MarkedOut
    <3> QED
      BY <3>1, <3>3 DEF Settled
  <2>4. ASSUME selection.selection = "refused" PROVE red /\ Executed = {}
    BY <2>1, <2>4, InForce, NothingServed DEF EndsRed, Refused
  <2> QED
    BY <2>2, <2>3, <2>4
<1> QED
  BY <1>1, Invariance, PTL

\* The terminal block states what happened (_reportTestSelection and
\* formatTestSelectionReport).
THEOREM ReportEarned == Spec => []ReportIsTrue
<1>1. IInv => ReportIsTrue
  <2> SUFFICES ASSUME IInv PROVE ReportIsTrue
    OBVIOUS
  <2> DEFINE a == ApplyToCollected(selection, Collected)
             s == SettleSelection
  <2>1. CASE block = NoBlock
    BY <2>1 DEF ReportIsTrue, NoBlock, Block
  <2>2. CASE block # NoBlock
    <3>1. selection # NoSelection /\ ~SubsetGuardFails
          /\ block = FormatTestSelectionReport(selection, s)
      BY <2>2 DEF IInv, EndInv, ReportTestSelection
    <3>2. selection \in TestSelection /\ Collected \in SUBSET Tests
          /\ (selection.reason = "fetch_failed" => selection.selection = "full")
      BY CollectedType DEF IInv, TypeInv, AskedTypes, HandedInv, WellAnswered
    <3>3. s.outcome \in {"full", "subset", "empty", "refused"}
          /\ (s.outcome \in {"empty", "subset"} => s.deselectedCount = Cardinality(Deselected))
      <4>1. a \in Applications
        BY <3>2, ApplicationType, VitestConstants
      <4>2. s = IF a.outcome \in {"empty", "subset"}
                THEN [a EXCEPT !.deselectedCount = Cardinality(Deselected)] ELSE a
        BY <3>1 DEF SettleSelection
      <4> HIDE DEF a, s
      <4> QED
        BY <4>1, <4>2 DEF Applications, Outcomes
    <3>4. ~HandsToRunner(selection) => Deselected = {}
      BY DEF IInv, HandedInv, Offered, CaseInv, MarkedOut, LeftOut, Deselected
    <3>5. HandsToRunner(selection) => s.outcome # "full"
      <4> SUFFICES ASSUME HandsToRunner(selection) PROVE a.outcome \in {"subset", "empty", "refused"}
        <5>1. a \in Applications
          BY <3>2, ApplicationType, VitestConstants
        <5> QED
          BY <3>1, <5>1 DEF SettleSelection, Applications
      <4>1. selection.selection = "subset" => selection.tests \cap Collected = selection.tests
        BY <3>1 DEF SubsetGuardFails, Actionable, HandsToRunner
      <4> QED
        BY <4>1 DEF ApplyToCollected, Application, HandsToRunner
    <3>6. s.outcome \in {"subset", "empty", "refused"} =>
            /\ provided.selection = selection.tests /\ s.outcome = selection.selection
            /\ provided.selection # Everything /\ selection.reason # "fetch_failed"
      BY <3>2, ReducedIsHanded
    <3>7. s.outcome \in {"empty", "refused"} => Executed = {}
      BY <3>6, NothingServed DEF IInv, HandedInv, WellAnswered
    <3>8. s.outcome = "subset" => {NameOf[c] : c \in Executed} \subseteq provided.selection
      BY <3>6 DEF Executed, IInv, CaseInv, MarkedOut, LeftOut
    <3> HIDE DEF s, a
    <3>9. CASE selection.reason = "fetch_failed"
      <4>1. block.text = "could not be asked" /\ s.outcome = "full"
        BY <3>1, <3>3, <3>6, <3>9 DEF FormatTestSelectionReport, Block
      <4> QED
        BY <3>4, <3>5, <4>1 DEF ReportIsTrue
    <3>10. CASE selection.reason # "fetch_failed" /\ s.outcome = "full"
      <4>1. block.text \in {"not matching, in full", "in full"}
        BY <3>1, <3>10 DEF FormatTestSelectionReport, FullRunSentence, Block
      <4> QED
        BY <3>4, <3>5, <3>10, <4>1 DEF ReportIsTrue
    <3>11. CASE selection.reason # "fetch_failed" /\ s.outcome \in {"empty", "refused"}
      <4>1. /\ block.text \in {"stopped", "nothing to run", "none executed"}
            /\ block.text = "none executed" =>
                 s.outcome = "empty" /\ block.skipped = s.deselectedCount
        BY <3>1, <3>11 DEF FormatTestSelectionReport, EmptyBlock, Block
      <4> QED
        BY <3>3, <3>7, <3>11, <4>1 DEF ReportIsTrue
    <3>12. CASE selection.reason # "fetch_failed" /\ s.outcome = "subset"
      <4>1. /\ block.text \in {"all re-executed", "only those re-executed"}
            /\ block.skipped = s.deselectedCount
        BY <3>1, <3>12 DEF FormatTestSelectionReport, SubsetBlock, Block
      <4> QED
        BY <3>3, <3>8, <3>12, <4>1 DEF ReportIsTrue
    <3> QED
      BY <3>3, <3>9, <3>10, <3>11, <3>12
  <2> QED
    BY <2>1, <2>2
<1> QED
  BY <1>1, Invariance, PTL

\* A refused run that was seen through has nothing to record of any test, so that
\* its verdict cannot pass for the whole collection.
LEMMA RefusedIsIncomplete ==
  ASSUME IInv, phase = "ended", ~Withheld, ~stopped, Refused
  PROVE  Counts(Fold(Records)).executed # Cardinality(Collected)
<1>1. provided.selection = {} /\ setupInstalled
  BY InForce, EverythingIsNoTestSet DEF Refused, IInv, HandedInv, Installed
<1>2. ASSUME NEW c \in Cases PROVE c \in Deselected /\ state[c] # "absent"
  <2>1. LeftOut(c) /\ c \notin Executed
    BY <1>1, NothingServed
  <2>2. state[c] = "skipped" /\ ~AwaitsDeselection(c)
    BY <2>1, SeenThrough DEF Executed, Settled
  <2>3. Reaches("suite") \/ Reaches("task")
    BY <1>1 DEF Reaches
  <2> QED
    BY <2>1, <2>2, <2>3 DEF AwaitsDeselection, Deselected, IInv, CaseInv, MarkedOut
<1>3. Records = {}
  BY <1>2 DEF Records
<1>4. \A t \in Tests : Fold(Records)[t] = "none"
  BY <1>3 DEF Fold, HighestOf
<1>5. WithStatus(Fold(Records), FinalStatus) = {}
  BY <1>4 DEF WithStatus, FinalStatus
<1>6. Counts(Fold(Records)).executed = 0
  BY <1>5, FS_EmptySet DEF Counts
<1>7. Collected # {} /\ IsFiniteSet(Collected)
  BY <1>2, VitestConstants, CollectedType DEF Collected, IInv, TypeInv
<1>8. Cardinality(Collected) # 0
  BY <1>7, FS_EmptySet
<1> QED
  BY <1>6, <1>8

\* A subset part of which was not collected is stated as not applied.
LEMMA GuardIsStated ==
  ASSUME IInv, SubsetGuardFails
  PROVE  /\ selection # NoSelection
         /\ SelectionEcho(selection, SettleSelection).notApplied # "none"
<1>1. /\ selection # NoSelection /\ selection.notApplied = "none" /\ selection.selection = "subset"
      /\ selection.served /\ selection.tests \cap Collected # selection.tests
  BY DEF SubsetGuardFails, Actionable, IInv, HandedInv, WellAnswered
<1> DEFINE a == ApplyToCollected(selection, Collected)
<1>2. a.outcome = "full" /\ a.notApplied # "none"
  BY <1>1 DEF ApplyToCollected, RunsInFull, Application
<1>3. SettleSelection = a
  BY <1>1, <1>2 DEF SettleSelection
<1> HIDE DEF a
<1> QED
  BY <1>1, <1>2, <1>3 DEF SelectionEcho

\* What the retry is answered from agrees with the exit code: a green run names no
\* failure, and a red one that was not cut short either names one, or says that the
\* answer was not applied, or does not pass for the whole collection (_foldVerdict
\* and _sendVerdict of reporter.ts).
THEOREM VerdictEarned == Spec => []VerdictAgreesWithExit
<1>1. IInv => VerdictAgreesWithExit
  <2> SUFFICES ASSUME IInv, phase = "ended", receipt.sent
               PROVE  /\ ~red => verdict.failing = {}
                      /\ red /\ ~stopped /\ IsComplete(verdict) /\ verdict.echo.notApplied = "none"
                           => verdict.failing # {}
    BY DEF VerdictAgreesWithExit
  <2>1. /\ red = EndsRed /\ ~Withheld /\ final = Fold(Records) /\ application = SettleSelection
        /\ verdict = BuildSessionVerdict(Cardinality(Collected), final, echo)
        /\ echo = (IF selection = NoSelection THEN NoEcho ELSE SelectionEcho(selection, application))
    BY DEF IInv, EndInv
  <2>2. /\ verdict.failing = {t \in Tests : final[t] = "failed"}
        /\ verdict.echo = echo /\ verdict.collection = Cardinality(Collected)
        /\ verdict.counts = Counts(final)
    BY <2>1 DEF BuildSessionVerdict, FailingTests, WithStatus
  <2>3. ASSUME ~red PROVE verdict.failing = {}
    <3>1. \A c \in Cases : state[c] # "failed"
      BY <2>1, <2>3 DEF EndsRed
    <3>2. \A r \in Records : r[2] # "failed"
      BY <3>1 DEF Records, FinalStatusOf
    <3>3. \A t \in Tests : final[t] # "failed"
      BY <2>1, <3>2, RecordWeighs
    <3> QED
      BY <2>2, <3>3
  <2>4. ASSUME red, ~stopped, IsComplete(verdict), verdict.echo.notApplied = "none"
        PROVE  verdict.failing # {}
    <3>1. ~Refused
      BY <2>1, <2>2, <2>4, RefusedIsIncomplete DEF IsComplete
    <3>2. ~SubsetGuardFails
      BY <2>1, <2>2, <2>4, GuardIsStated
    <3>3. PICK c \in Cases : state[c] = "failed"
      BY <2>1, <2>4, <3>1, <3>2 DEF EndsRed
    <3>4. FinalStatusOf(c) = "failed"
      BY <3>3 DEF FinalStatusOf, IInv, CaseInv, Unabsorbed
    <3>5. final[NameOf[c]] = "failed" /\ NameOf[c] \in Tests
      BY <2>1, <3>3, <3>4, CaseRecorded, RecordWeighs
    <3> QED
      BY <2>2, <3>5
  <2> QED
    BY <2>3, <2>4
<1> QED
  BY <1>1, Invariance, PTL

=============================================================================
