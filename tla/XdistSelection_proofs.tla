----------------------- MODULE XdistSelection_proofs -----------------------
(***************************************************************************)
(* XdistSelection, for any number of workers and replacements, any tests,  *)
(* collections and answers, and any mixture of local and remote gateways.  *)
(***************************************************************************)
EXTENDS XdistSelection, FiniteSetTheorems, TLAPS

-----------------------------------------------------------------------------
(* What the decision on a served answer guarantees for every answer and    *)
(* every collection.                                                       *)

\* The decision is a set of ids or "everything", and its reason one of the declared ones.
LEMMA KeepTyped ==
  ASSUME NEW a \in Answer \cup {NotAsked}, NEW c \in Collection
  PROVE  Keep(a, c) \in KeepSet /\ NotApplied(a, c) \in NotAppliedReason
<1>1. ServedTests(a) \in SUBSET Tests
  BY DEF Answer, NotAsked, ServedTests
<1>2. Keep(a, c) \in KeepSet
  BY <1>1 DEF Keep, KeepSet
<1>3. NotApplied(a, c) \in NotAppliedReason
  BY DEF NotApplied, DeclinedWhenBuilt, NotAppliedReason
<1> QED BY <1>2, <1>3

\* All or nothing (TestSelection.resolve): a run is reduced only to exactly what
\* was served, every id of which was collected, only by the two answers that
\* reduce, and never with a reason for not applying it.
THEOREM AllOrNothing ==
  ASSUME NEW a \in Answer \cup {NotAsked}, NEW c \in Collection,
         Keep(a, c) # Everything
  PROVE  /\ a.selection \in {"empty", "subset"}
         /\ Keep(a, c) = ServedTests(a)
         /\ Keep(a, c) \subseteq Range(c)
         /\ a.selection = "subset" => Keep(a, c) # {}
         /\ NotApplied(a, c) = "none"
         /\ ~Refuses(a)
<1>1. Honours(a, c) /\ Keep(a, c) = ServedTests(a)
  BY DEF Keep
<1>2. CASE a.selection = "empty"
  <2>1. DeclinedWhenBuilt(a) = "none"
    BY <1>2 DEF DeclinedWhenBuilt
  <2>2. NotApplied(a, c) = "none"
    BY <1>2, <2>1 DEF NotApplied
  <2>3. Keep(a, c) = {}
    BY <1>1, <1>2 DEF ServedTests
  <2> QED
    BY <1>1, <1>2, <2>2, <2>3 DEF Refuses
<1>3. CASE a.selection = "subset"
  <2>1. DeclinedWhenBuilt(a) = "none" /\ a.tests # {}
    BY <1>1, <1>3 DEF Honours, DeclinedWhenBuilt
  <2> QED
    BY <1>1, <1>3, <2>1 DEF Honours, ServedTests, NotApplied, Refuses
<1> QED
  BY <1>1, <1>2, <1>3 DEF Honours

\* Nothing declines an answer silently: a subset the run does not reduce to is
\* declared not applied, whatever was collected.
THEOREM DeclinedSubsetIsDeclared ==
  ASSUME NEW a \in Answer, NEW c \in Collection,
         a.selection = "subset", Keep(a, c) = Everything
  PROVE  NotApplied(a, c) # "none"
<1>1. ServedTests(a) # Everything
  BY EverythingIsNoSet DEF Answer, ServedTests
<1>2. ~Honours(a, c)
  BY <1>1 DEF Keep
<1> QED
  BY <1>2 DEF NotApplied, Honours, DeclinedWhenBuilt

LEMMA PositionsCounted ==
  ASSUME NEW c \in Collection, NEW S, S \subseteq DOMAIN c
  PROVE  Cardinality(S) \in Nat /\ Cardinality(S) <= Len(c)
<1>1. DOMAIN c = 1 .. Len(c) /\ Len(c) \in Nat
  BY DEF Collection
<1>2. IsFiniteSet(1 .. Len(c)) /\ Cardinality(1 .. Len(c)) = Len(c)
  BY <1>1, FS_Interval
<1>3. IsFiniteSet(S) /\ Cardinality(S) <= Cardinality(1 .. Len(c))
  BY <1>1, <1>2, FS_Subset
<1> QED BY <1>2, <1>3, FS_CardinalityType

\* The kept count is a count of collected items.
LEMMA KeptCountTyped ==
  ASSUME NEW c \in Collection, NEW k \in KeepSet
  PROVE  KeptCount(k, c) \in Nat /\ KeptCount(k, c) <= Len(c)
<1>1. CASE k = Everything
  BY <1>1 DEF KeptCount, Collection
<1>2. CASE k # Everything
  BY <1>2, PositionsCounted DEF KeptCount
<1> QED BY <1>1, <1>2

LEMMA FingerprintTyped ==
  ASSUME NEW c \in Collection
  PROVE  Fingerprint(c) \in [Tests -> Nat]
<1>1. \A t \in Tests : Cardinality({i \in DOMAIN c : c[i] = t}) \in Nat
  BY PositionsCounted
<1> QED BY <1>1 DEF Fingerprint

-----------------------------------------------------------------------------
(* The run.                                                                *)

\* Folding a report in leaves a status for every test.
LEMMA RecordTyped ==
  ASSUME NEW f \in [Tests -> V!Status], NEW t \in Tests, NEW r
  PROVE  V!Record(f, t, r) \in [Tests -> V!Status]
<1>1. V!StatusOf(r) \in V!Status
  BY DEF V!StatusOf, V!Status, V!FinalStatus
<1>2. V!Upgrade(f[t], V!StatusOf(r)) \in V!Status
  BY <1>1 DEF V!Upgrade
<1> QED BY <1>2 DEF V!Record

\* A member of a collection is a test.
LEMMA CollectedTests ==
  ASSUME NEW c \in Collections
  PROVE  c \in Collection /\ Range(c) \subseteq Tests
BY ConstantsAssumption DEF Collection, Range

LEMMA AnswersTyped ==
  ASSUME NEW a \in ServedAnswers
  PROVE  a \in Answers \cup {NotAsked} /\ a \in Answer \cup {NotAsked}
BY ConstantsAssumption DEF ServedAnswers

LEMMA EchoTyped ==
  ASSUME NEW a \in Answer \cup {NotAsked}, NEW n \in Nat, NEW r \in NotAppliedReason
  PROVE  /\ Echo(a, n, r) \in [answer : Selections \cup {"none"}, kept : Nat,
                               notApplied : NotAppliedReason]
         /\ Echo(a, n, r).kept <= n
BY DEF Echo, NoEcho, Answer, NotAsked, NotAppliedReason

LEMMA InitTypeOK == Init => TypeOK
<1> SUFFICES ASSUME Init PROVE TypeOK
  OBVIOUS
<1>1. opted \in BOOLEAN /\ dist \in {"load", "each"} /\ remote \subseteq Nodes
  BY ConstantsAssumption DEF Init, Nodes
<1>2. final \in [Tests -> V!Status]
  BY DEF Init, V!NothingRecorded, V!Status
<1>3. echo \in [answer : Selections \cup {"none"}, kept : Nat, notApplied : NotAppliedReason]
  BY DEF Init, NoEcho, NotAppliedReason
<1>4. collected = NoCollection /\ keep = Everything /\ file = NoFile
  BY DEF Init
<1> QED
  BY <1>1, <1>2, <1>3, <1>4
  DEF Init, TypeOK, RunTypes, AnswerTypes, AccountTypes, StatementTypes, WorkerTypes, KeepSet, ReadResult, WorkerPhase, NotAppliedReason

-----------------------------------------------------------------------------
(* Types.                                                                  *)

\* The groups of variables an action leaves alone are transparent from here on.
USE DEF circumstances, answerFile, asked, accounts, statement, workers, tested

LEMMA HandOutTypeOK ==
  ASSUME TypeOK, NEW w \in Nodes, HandOut(w), phase' \in {"configuring", "running"}
  PROVE  TypeOK'
<1>1. RunTypes' /\ AnswerTypes'
  BY DEF TypeOK, HandOut, RunTypes, AnswerTypes
<1>2. AccountTypes' /\ StatementTypes'
  BY DEF TypeOK, HandOut, AccountTypes, StatementTypes
<1>3. WorkerTypes'
  BY DEF TypeOK, HandOut, WorkerTypes, ReadResult, WorkerPhase
<1> QED BY <1>1, <1>2, <1>3 DEF TypeOK

LEMMA PublishTyped ==
  ASSUME TypeOK, NEW fp \in [Tests -> Nat], NEW k \in KeepSet, Publish(fp, k)
  PROVE  /\ file' \in {NoFile} \cup [fingerprint : [Tests -> Nat], keep : KeepSet]
         /\ diskFailed' \in BOOLEAN
         /\ keep' = k
<1>1. file' \in {NoFile} \cup [fingerprint : [Tests -> Nat], keep : KeepSet]
  BY DEF TypeOK, AnswerTypes, Publish
<1>2. diskFailed' \in BOOLEAN
  BY DEF TypeOK, AnswerTypes, Publish
<1> QED BY <1>1, <1>2 DEF Publish

LEMMA EmptyCollectionFingerprint == Fingerprint(<<>>) \in [Tests -> Nat]
<1>1. <<>> \in Collection
  BY DEF Collection
<1> QED BY <1>1, FingerprintTyped

\* A collection's arrival disturbs only what it decides and the worker it is from.
LEMMA ArrivesTyped ==
  ASSUME TypeOK, NEW w \in Nodes, NEW c \in Collections, Arrives(w, c)
  PROVE  /\ AccountTypes /\ differ' \in BOOLEAN /\ red' \in BOOLEAN => AccountTypes'
         /\ WorkerTypes'
         /\ phase' \in {"running", "stopped"} => RunTypes'
<1>1. AccountTypes /\ differ' \in BOOLEAN /\ red' \in BOOLEAN => AccountTypes'
  BY DEF AccountTypes, Arrives
<1>2. WorkerTypes'
  BY ConstantsAssumption DEF TypeOK, WorkerTypes, Arrives, WorkerPhase
<1>3. phase' \in {"running", "stopped"} => RunTypes'
  BY DEF TypeOK, RunTypes, Arrives
<1> QED BY <1>1, <1>2, <1>3

LEMMA FirstCollectionDisabledTypeOK ==
  ASSUME TypeOK, NEW w \in Nodes, NEW c \in Collections, FirstCollectionDisabled(w, c)
  PROVE  TypeOK'
<1>1. /\ file' \in {NoFile} \cup [fingerprint : [Tests -> Nat], keep : KeepSet]
      /\ diskFailed' \in BOOLEAN
      /\ keep' = Everything
  BY PublishTyped, EmptyCollectionFingerprint DEF FirstCollectionDisabled, KeepSet
<1>2. RunTypes' /\ WorkerTypes' /\ AccountTypes'
  BY ArrivesTyped DEF FirstCollectionDisabled, Arrives, TypeOK, AccountTypes
<1>3. AnswerTypes'
  BY <1>1 DEF FirstCollectionDisabled, Arrives, TypeOK, AnswerTypes, KeepSet
<1>4. c # NoCollection /\ Len(c) \in Nat
  BY CollectedTests, ConstantsAssumption DEF Collection
<1>5. StatementTypes'
  BY <1>4 DEF FirstCollectionDisabled, Arrives, TypeOK, StatementTypes, NoEcho
<1> QED BY <1>2, <1>3, <1>5 DEF TypeOK

LEMMA FirstCollectionAsksTypeOK ==
  ASSUME TypeOK, NEW w \in Nodes, NEW c \in Collections, NEW a \in ServedAnswers,
         FirstCollectionAsks(w, c, a)
  PROVE  TypeOK'
<1>1. c \in Collection /\ c # NoCollection /\ Len(c) \in Nat
  BY CollectedTests, ConstantsAssumption DEF Collection
<1>2. a \in Answers \cup {NotAsked} /\ a \in Answer \cup {NotAsked}
  BY AnswersTyped
<1>3. Keep(a, c) \in KeepSet /\ NotApplied(a, c) \in NotAppliedReason
  BY <1>1, <1>2, KeepTyped
<1>4. /\ file' \in {NoFile} \cup [fingerprint : [Tests -> Nat], keep : KeepSet]
      /\ diskFailed' \in BOOLEAN
      /\ keep' = Keep(a, c)
  BY <1>1, <1>3, PublishTyped, FingerprintTyped DEF FirstCollectionAsks
<1>5. KeptCount(keep', c) \in Nat /\ KeptCount(keep', c) <= Len(c)
  BY <1>1, <1>3, <1>4, KeptCountTyped
<1>6. /\ echo' \in [answer : Selections \cup {"none"}, kept : Nat,
                    notApplied : NotAppliedReason]
      /\ echo'.kept <= KeptCount(keep', c)
  BY <1>2, <1>3, <1>5, EchoTyped DEF FirstCollectionAsks
<1>7. RunTypes' /\ WorkerTypes' /\ AccountTypes'
  BY ArrivesTyped DEF FirstCollectionAsks, Arrives, TypeOK, AccountTypes, RunTypes
<1>8. AnswerTypes'
  BY <1>1, <1>2, <1>3, <1>4 DEF FirstCollectionAsks, Arrives, TypeOK, AnswerTypes
<1>9. echo'.kept \in Nat /\ echo'.kept <= Len(c)
  BY <1>1, <1>5, <1>6
<1>10. StatementTypes'
  BY <1>1, <1>3, <1>6, <1>9 DEF FirstCollectionAsks, Arrives, TypeOK, StatementTypes
<1> QED BY <1>7, <1>8, <1>10 DEF TypeOK

LEMMA FirstCollectionRefusedTypeOK ==
  ASSUME TypeOK, NEW w \in Nodes, NEW c \in Collections, NEW a \in ServedAnswers,
         FirstCollectionRefused(w, c, a)
  PROVE  TypeOK'
<1>1. c # NoCollection /\ Len(c) \in Nat
  BY CollectedTests, ConstantsAssumption DEF Collection
<1>2. a \in Answers \cup {NotAsked} /\ a \in Answer \cup {NotAsked}
  BY AnswersTyped
<1>3. /\ echo' \in [answer : Selections \cup {"none"}, kept : Nat,
                    notApplied : NotAppliedReason]
      /\ echo'.kept <= 0
  BY <1>2, EchoTyped DEF FirstCollectionRefused, NotAppliedReason
<1>4. RunTypes' /\ WorkerTypes' /\ AccountTypes'
  BY ArrivesTyped DEF FirstCollectionRefused, Arrives, TypeOK, AccountTypes
<1>5. AnswerTypes'
  BY <1>1, <1>2 DEF FirstCollectionRefused, Arrives, TypeOK, AnswerTypes
<1>6. StatementTypes'
  BY <1>1, <1>3 DEF FirstCollectionRefused, Arrives, TypeOK, StatementTypes
<1> QED BY <1>4, <1>5, <1>6 DEF TypeOK

LEMMA LaterCollectionTypeOK ==
  ASSUME TypeOK, NEW w \in Nodes, NEW c \in Collections, LaterCollection(w, c)
  PROVE  TypeOK'
<1>1. RunTypes' /\ WorkerTypes' /\ AccountTypes'
  BY ArrivesTyped DEF LaterCollection, Arrives, TypeOK, AccountTypes, RunTypes
<1>2. AnswerTypes' /\ StatementTypes'
  BY DEF LaterCollection, Arrives, TypeOK, AnswerTypes, StatementTypes
<1> QED BY <1>1, <1>2 DEF TypeOK

\* What a worker reads is a result, and what it then keeps a set of ids or everything.
LEMMA LoadTyped ==
  ASSUME TypeOK, NEW w \in Nodes, NEW r \in AnswerRead(w), Load(w, r)
  PROVE  wread' \in [Nodes -> ReadResult] /\ wkeep' \in [Nodes -> KeepSet]
<1>1. r \in ReadResult
  BY DEF TypeOK, WorkerTypes, AnswerRead, ReadResult
<1>2. wread[w] = "unread" /\ r = "applied" => file # NoFile
  BY DEF AnswerRead
<1>3. KeepOf(w, r) \in KeepSet
  BY <1>2 DEF TypeOK, AnswerTypes, WorkerTypes, KeepOf
<1> QED BY <1>1, <1>3 DEF TypeOK, WorkerTypes, Load

LEMMA RunTestTypeOK ==
  ASSUME TypeOK, NEW w \in Nodes, NEW t \in Tests, NEW r \in AnswerRead(w),
         NEW o, RunTest(w, t, r, o)
  PROVE  TypeOK'
<1>1. wread' \in [Nodes -> ReadResult] /\ wkeep' \in [Nodes -> KeepSet]
  BY LoadTyped DEF RunTest
<1>2. final' \in [Tests -> V!Status]
  BY RecordTyped DEF RunTest, TypeOK, AccountTypes
<1>3. WorkerTypes'
  BY <1>1 DEF RunTest, TypeOK, WorkerTypes
<1>4. AccountTypes'
  BY <1>2 DEF RunTest, TypeOK, AccountTypes
<1>5. RunTypes' /\ AnswerTypes' /\ StatementTypes'
  BY DEF RunTest, TypeOK, RunTypes, AnswerTypes, StatementTypes
<1> QED BY <1>3, <1>4, <1>5 DEF TypeOK

LEMMA SkipTestTypeOK ==
  ASSUME TypeOK, NEW w \in Nodes, NEW t \in Tests, NEW r \in AnswerRead(w),
         NEW bad \in BOOLEAN, SkipTest(w, t, r, bad)
  PROVE  TypeOK'
<1>1. wread' \in [Nodes -> ReadResult] /\ wkeep' \in [Nodes -> KeepSet]
  BY LoadTyped DEF SkipTest
<1>2. WorkerTypes'
  BY <1>1 DEF SkipTest, TypeOK, WorkerTypes
<1>3. AccountTypes'
  BY DEF SkipTest, TypeOK, AccountTypes
<1>4. RunTypes' /\ AnswerTypes' /\ StatementTypes'
  BY DEF SkipTest, TypeOK, RunTypes, AnswerTypes, StatementTypes
<1> QED BY <1>2, <1>3, <1>4 DEF TypeOK

LEMMA CrashInTestTypeOK ==
  ASSUME TypeOK, NEW w \in Nodes, NEW t \in Tests, NEW r \in AnswerRead(w),
         CrashInTest(w, t, r)
  PROVE  TypeOK'
<1>1. wread' \in [Nodes -> ReadResult] /\ wkeep' \in [Nodes -> KeepSet]
  BY LoadTyped DEF CrashInTest
<1>2. ran' \in [Nodes -> SUBSET Tests]
  BY DEF CrashInTest, TypeOK, WorkerTypes
<1>3. WorkerTypes'
  BY <1>1, <1>2 DEF CrashInTest, TypeOK, WorkerTypes, WorkerPhase
<1>4. RunTypes' /\ AnswerTypes' /\ AccountTypes' /\ StatementTypes'
  BY DEF CrashInTest, TypeOK, RunTypes, AnswerTypes, AccountTypes, StatementTypes
<1> QED BY <1>3, <1>4 DEF TypeOK

LEMMA RunOrSkipTypeOK ==
  ASSUME TypeOK, NEW w \in Nodes, RunOrSkip(w)
  PROVE  TypeOK'
<1>1. Range(wcoll[w]) \subseteq Tests
  BY CollectedTests DEF TypeOK, WorkerTypes, RunOrSkip
<1> QED BY <1>1, RunTestTypeOK, SkipTestTypeOK, CrashInTestTypeOK DEF RunOrSkip

LEMMA GoneTypeOK ==
  ASSUME TypeOK, NEW w \in Nodes,
         CrashIdle(w) \/ WorkerFinish(w) \/ NodeDown(w) \/ NodeErrorDown(w)
  PROVE  TypeOK'
<1>1. RunTypes' /\ AnswerTypes' /\ StatementTypes'
  BY DEF CrashIdle, WorkerFinish, NodeDown, NodeErrorDown,
         TypeOK, RunTypes, AnswerTypes, StatementTypes
<1>2. WorkerTypes'
  BY DEF CrashIdle, WorkerFinish, NodeDown, NodeErrorDown, TypeOK, WorkerTypes, WorkerPhase
<1>3. NodeErrorDown(w) => final' \in [Tests -> V!Status]
  BY RecordTyped DEF NodeErrorDown, TypeOK, AccountTypes, WorkerTypes
<1>4. AccountTypes'
  BY <1>3 DEF CrashIdle, WorkerFinish, NodeDown, NodeErrorDown, TypeOK, AccountTypes
<1> QED BY <1>1, <1>2, <1>4 DEF TypeOK

LEMMA SettleTyped ==
  ASSUME TypeOK, Settle, UNCHANGED collected, sent' \in BOOLEAN
  PROVE  StatementTypes' /\ file' = NoFile
<1>1. SettleReason \in NotAppliedReason
  BY DEF SettleReason, NotAppliedReason
<1>2. withheld' \in BOOLEAN /\ notApplied' \in NotAppliedReason
  BY <1>1 DEF TypeOK, StatementTypes, Settle
<1>3. CASE DeclaresNotApplied
  <2>1. collected # NoCollection /\ Len(collected) \in Nat
    BY <1>3, CollectedTests DEF TypeOK, AnswerTypes, DeclaresNotApplied, Collection
  <2>2. answer \in Answer \cup {NotAsked}
    BY ConstantsAssumption DEF TypeOK, AnswerTypes
  <2>3. /\ echo' \in [answer : Selections \cup {"none"}, kept : Nat,
                      notApplied : NotAppliedReason]
        /\ echo'.kept <= Len(collected)
    BY <1>2, <1>3, <2>1, <2>2, EchoTyped DEF Settle
  <2> QED BY <1>2, <2>1, <2>3 DEF Settle, StatementTypes
<1>4. CASE ~DeclaresNotApplied
  BY <1>2, <1>4 DEF TypeOK, StatementTypes, Settle
<1> QED BY <1>3, <1>4

LEMMA SessionFinishTypeOK == ASSUME TypeOK, SessionFinish PROVE TypeOK'
<1>1. StatementTypes' /\ file' = NoFile
  BY SettleTyped DEF SessionFinish, Finalize
<1>2. RunTypes' /\ AccountTypes' /\ WorkerTypes'
  BY DEF SessionFinish, TypeOK, RunTypes, AccountTypes, WorkerTypes
<1>3. AnswerTypes'
  BY <1>1 DEF SessionFinish, TypeOK, AnswerTypes
<1> QED BY <1>1, <1>2, <1>3 DEF TypeOK

LEMMA AtexitBackstopTypeOK == ASSUME TypeOK, AtexitBackstop PROVE TypeOK'
<1>1. RunTypes' /\ AnswerTypes' /\ AccountTypes' /\ WorkerTypes'
  BY DEF AtexitBackstop, TypeOK, RunTypes, AnswerTypes, AccountTypes, WorkerTypes
<1>2. StatementTypes'
  BY DEF AtexitBackstop, Finalize, TypeOK, StatementTypes
<1> QED BY <1>1, <1>2 DEF TypeOK

LEMMA NextTypeOK == TypeOK /\ [Next]_vars => TypeOK'
<1> SUFFICES ASSUME TypeOK, [Next]_vars PROVE TypeOK'
  OBVIOUS
<1>1. ASSUME NEW w \in Nodes, ConfigureNode(w) \/ ReplaceNode(w) PROVE TypeOK'
  <2>1. HandOut(w) /\ phase' \in {"configuring", "running"}
    BY <1>1 DEF ConfigureNode, ReplaceNode
  <2> QED BY <2>1, HandOutTypeOK
<1>2. ASSUME NEW w \in Nodes, CollectionFinished(w) PROVE TypeOK'
  BY <1>2, FirstCollectionDisabledTypeOK, FirstCollectionAsksTypeOK,
     FirstCollectionRefusedTypeOK, LaterCollectionTypeOK DEF CollectionFinished
<1>3. ASSUME NEW w \in Nodes, RunOrSkip(w) PROVE TypeOK'
  BY <1>3, RunOrSkipTypeOK
<1>4. ASSUME NEW w \in Nodes,
             CrashIdle(w) \/ WorkerFinish(w) \/ NodeDown(w) \/ NodeErrorDown(w)
      PROVE  TypeOK'
  BY <1>4, GoneTypeOK
<1>5. CASE Schedule \/ RefuseToSchedule
  <2>1. RunTypes' /\ AnswerTypes'
    BY <1>5 DEF TypeOK, RunTypes, AnswerTypes, Schedule, RefuseToSchedule
  <2>2. AccountTypes' /\ StatementTypes' /\ WorkerTypes'
    BY <1>5 DEF TypeOK, AccountTypes, StatementTypes, WorkerTypes, Schedule, RefuseToSchedule
  <2> QED BY <2>1, <2>2 DEF TypeOK
<1>6. CASE SessionFinish
  BY <1>6, SessionFinishTypeOK
<1>7. CASE AtexitBackstop
  BY <1>7, AtexitBackstopTypeOK
<1>8. CASE UNCHANGED vars
  BY <1>8 DEF TypeOK, RunTypes, AnswerTypes, AccountTypes, StatementTypes, WorkerTypes, vars
<1> QED
  BY <1>1, <1>2, <1>3, <1>4, <1>5, <1>6, <1>7, <1>8 DEF Next, Exited

\* Every state of every run is well typed, and with it the two facts the rest of
\* the plugin relies on: nothing is reduced before a collection was reported, and
\* no more items are reported kept than were collected.
THEOREM TypeCorrect == Spec => []TypeOK
<1> QED BY InitTypeOK, NextTypeOK, PTL DEF Spec

-----------------------------------------------------------------------------
(* The inductive invariant.                                                *)

\* What the controller has decided follows from the first collection, once, and
\* only in a run every worker of which can be handed the answer.
Decided ==
  /\ collected = NoCollection => file = NoFile /\ ~scheduled
  /\ phase = "configuring" => collected = NoCollection
  /\ keep # Everything => opted /\ ~disabled /\ phase # "configuring"
  /\ Refuses(answer) =>
       ~scheduled /\ phase \in {"stopped", "settled", "flushed"} /\ keep = Everything

\* The answer file says what the controller decided, or there is a reason for
\* there being none.
OnFile ==
  /\ file # NoFile =>
       /\ collected # NoCollection
       /\ file.keep = keep
       /\ keep # Everything => file.fingerprint = Fingerprint(collected)
  /\ (phase = "running" /\ collected # NoCollection /\ file = NoFile) =>
       diskFailed \/ (handed = {} /\ (disabled \/ ~opted))

\* Only a run without a selection leaves a configured worker without a path.
Configured(w) ==
  /\ (w \in remote /\ wphase[w] # "unused") => disabled
  /\ wphase[w] # "unused" => w \in handed \/ disabled \/ ~opted
  /\ (wphase[w] # "unused" /\ wread[w] = "unread") => w \in handed
  /\ wread[w] = "no path" => disabled \/ ~opted

\* What a worker read, and what it did about it.
Reading(w) ==
  /\ wphase[w] \in {"unused", "booted"} => wread[w] \in {"unread", "no path"} /\ ran[w] = {}
  /\ wread[w] = "unread" => ran[w] = {}
  /\ wread[w] = "run all" => keep = Everything /\ collected # NoCollection
  /\ wread[w] = "missing" => diskFailed
  /\ wread[w] = "applied" =>
       /\ keep # Everything /\ wkeep[w] = keep /\ ran[w] \subseteq keep
       /\ Fingerprint(wcoll[w]) = Fingerprint(collected)
  /\ wread[w] # "applied" => wkeep[w] = Everything /\ skipped[w] = {}
  /\ skipped[w] # {} => skipped[w] \cap keep = {}
  /\ ~scheduled =>
       /\ wread[w] \in {"unread", "no path"} /\ ran[w] = {} /\ skipped[w] = {}
       /\ crashItem[w] = NoItem
  /\ wcoll[w] # NoCollection => wcoll[w] = collected \/ differ

\* What the controller knows of a worker that is gone.
Reported(w) ==
  /\ (wphase[w] = "down" /\ wread[w] \in CouldNotRead) => w \in couldNotRead
  /\ wphase[w] = "dead" => crashed

WorkerInv == \A w \in Nodes : Configured(w) /\ Reading(w) /\ Reported(w)

\* pytest stops the run before its first test: the answer was a refusal, or the
\* collections differ.
StoppedAtTheStart == ~scheduled /\ (Refuses(answer) \/ differ)

\* What the verdict and the exit code hold came from a test that ran, or from a run
\* stopped before it.
Recorded ==
  /\ \A t \in Tests : final[t] # "none" =>
       \E w \in Nodes : t \in ran[w] \/ (wphase[w] = "dead" /\ crashItem[w] = t)
  /\ red => failedOnSkipped \/ V!Failing(final) # {} \/ StoppedAtTheStart
  /\ ~scheduled => \A t \in Tests : final[t] = "none"
  /\ failedOnSkipped => keep # Everything
  /\ echo.notApplied \in {"none", notApplied}

\* What was decided at the session's finish.
Concluded == VerdictDescribesTheRun /\ NoFalseReduction /\ RedRunHasAFailure

IInv == TypeOK /\ Decided /\ OnFile /\ WorkerInv /\ Recorded /\ Concluded

-----------------------------------------------------------------------------
(* What the actions rely on.                                               *)

\* A report leaves the other tests alone.
LEMMA RecordElsewhere ==
  ASSUME NEW f \in [Tests -> V!Status], NEW t, NEW r, NEW u \in Tests, u # t
  PROVE  V!Record(f, t, r)[u] = f[u]
BY DEF V!Record

LEMMA FailureOutranks ==
  ASSUME NEW x \in V!Status
  PROVE  V!Upgrade(x, "failed") = "failed" /\ V!Upgrade("failed", x) = "failed"
<1>1. V!Precedence["failed"] = 4 /\ V!Precedence[x] \in 0 .. 4
  BY DEF V!Precedence, V!Status, V!FinalStatus
<1>2. x # "failed" => V!Precedence[x] < 4
  BY DEF V!Precedence, V!Status, V!FinalStatus
<1> QED BY <1>1, <1>2 DEF V!Upgrade

\* A failure is recorded, and stands.
LEMMA FailureRecorded ==
  ASSUME NEW f \in [Tests -> V!Status], NEW t \in Tests, NEW r, r.outcome = "failed"
  PROVE  V!Record(f, t, r)[t] = "failed"
<1>1. V!StatusOf(r) = "failed"
  BY DEF V!StatusOf
<1> QED BY <1>1, FailureOutranks DEF V!Record

LEMMA FailureStands ==
  ASSUME NEW f \in [Tests -> V!Status], NEW t \in Tests, NEW r,
         NEW u \in Tests, f[u] = "failed"
  PROVE  V!Record(f, t, r)[u] = "failed"
<1>1. V!StatusOf(r) \in V!Status
  BY DEF V!StatusOf, V!Status, V!FinalStatus
<1> QED BY <1>1, FailureOutranks DEF V!Record

\* Nothing that was not asked reduces a run.
LEMMA UnaskedKeepsEverything ==
  ASSUME NEW c
  PROVE  Keep(NotAsked, c) = Everything /\ ~Refuses(NotAsked)
BY DEF Keep, Honours, NotAsked, Refuses

LEMMA NotConcluded == ASSUME phase' # "settled" PROVE Concluded'
BY DEF Concluded, VerdictDescribesTheRun, NoFalseReduction, RedRunHasAFailure

LEMMA InitIInv == Init => IInv
<1> SUFFICES ASSUME Init PROVE IInv
  OBVIOUS
<1>1. TypeOK
  BY InitTypeOK
<1>2. Decided /\ OnFile
  BY UnaskedKeepsEverything DEF Init, Decided, OnFile
<1>3. WorkerInv
  BY DEF Init, WorkerInv, Configured, Reading, Reported
<1>4. Recorded
  BY DEF Init, Recorded, V!NothingRecorded, NoEcho
<1>5. Concluded
  BY DEF Init, Concluded, VerdictDescribesTheRun, NoFalseReduction, RedRunHasAFailure
<1> QED BY <1>1, <1>2, <1>3, <1>4, <1>5 DEF IInv

-----------------------------------------------------------------------------
(* Starting workers.                                                       *)

LEMMA HandOutIInv ==
  ASSUME IInv, TypeOK', NEW w \in Nodes, wphase[w] = "unused", HandOut(w),
         phase \in {"configuring", "running"}, phase' \in {"configuring", "running"},
         phase = "running" => phase' = "running" /\ (w \in remote => disabled)
  PROVE  IInv'
<1>1. Decided'
  BY DEF IInv, Decided, HandOut
<1>2. OnFile'
  BY DEF IInv, Decided, OnFile, HandOut
<1>3. WorkerInv'
  <2> SUFFICES ASSUME NEW v \in Nodes
               PROVE  Configured(v)' /\ Reading(v)' /\ Reported(v)'
    BY DEF WorkerInv, Nodes
  <2>1. Configured(v) /\ Reading(v) /\ Reported(v)
    BY DEF IInv, WorkerInv
  <2>2. wphase \in [Nodes -> WorkerPhase] /\ wread \in [Nodes -> ReadResult]
    BY DEF IInv, TypeOK, WorkerTypes
  <2>3. Configured(v)'
    BY <2>1, <2>2 DEF Configured, HandOut
  <2>4. Reading(v)'
    BY <2>1, <2>2 DEF Reading, HandOut
  <2>5. Reported(v)'
    BY <2>1, <2>2 DEF Reported, HandOut
  <2> QED BY <2>3, <2>4, <2>5
<1>4. Recorded'
  <2>1. \A v \in Nodes : wphase[v] = "dead" => wphase'[v] = "dead"
    BY DEF IInv, TypeOK, WorkerTypes, HandOut
  <2> QED BY <2>1 DEF IInv, Recorded, StoppedAtTheStart, HandOut
<1>5. Concluded'
  BY NotConcluded
<1> QED BY <1>1, <1>2, <1>3, <1>4, <1>5 DEF IInv

LEMMA NodeIInv ==
  ASSUME IInv, TypeOK', NEW w \in Nodes, ConfigureNode(w) \/ ReplaceNode(w)
  PROVE  IInv'
<1>1. CASE ConfigureNode(w)
  BY <1>1, HandOutIInv DEF ConfigureNode
<1>2. CASE ReplaceNode(w)
  <2>1. w \in remote => disabled
    BY <1>2 DEF ReplaceNode, IInv, WorkerInv, Configured
  <2> QED BY <1>2, <2>1, HandOutIInv DEF ReplaceNode
<1> QED BY <1>1, <1>2

-----------------------------------------------------------------------------
(* Collections.                                                            *)

\* The first collection finds every worker at its start, whatever it decides.
LEMMA FirstArrivalWorkerInv ==
  ASSUME IInv, NEW w \in Nodes, NEW c \in Collections, Arrives(w, c),
         collected = NoCollection, collected' = c, differ' = differ
  PROVE  WorkerInv'
<1> SUFFICES ASSUME NEW v \in Nodes
             PROVE  Configured(v)' /\ Reading(v)' /\ Reported(v)'
  BY DEF WorkerInv, Nodes
<1>1. Configured(v) /\ Reading(v) /\ Reported(v) /\ ~scheduled
  BY DEF IInv, WorkerInv, Decided
<1>2. /\ wphase \in [Nodes -> WorkerPhase]
      /\ wcoll \in [Nodes -> Collections \cup {NoCollection}]
  BY DEF IInv, TypeOK, WorkerTypes
<1>3. Configured(v)'
  BY <1>1, <1>2 DEF Configured, Arrives
<1>4. Reading(v)'
  BY <1>1, <1>2, ConstantsAssumption DEF Reading, Arrives
<1>5. Reported(v)'
  BY <1>1, <1>2 DEF Reported, Arrives
<1> QED BY <1>3, <1>4, <1>5

LEMMA ArrivesRecorded ==
  ASSUME IInv, NEW w \in Nodes, NEW c \in Collections, Arrives(w, c),
         keep # Everything => keep' # Everything,
         red' => red \/ (Refuses(answer') /\ ~scheduled), differ => differ',
         echo'.notApplied \in {"none", notApplied'}
  PROVE  Recorded'
<1>1. \A v \in Nodes : wphase[v] = "dead" => wphase'[v] = "dead"
  BY DEF IInv, TypeOK, WorkerTypes, Arrives
<1>2. ~Refuses(answer)
  BY DEF IInv, Decided, Arrives
<1>3. red' => failedOnSkipped' \/ V!Failing(final') # {} \/ StoppedAtTheStart'
  <2>1. red => failedOnSkipped \/ V!Failing(final) # {} \/ differ
    BY <1>2 DEF IInv, Recorded, StoppedAtTheStart
  <2> QED BY <1>2, <2>1 DEF Arrives, IInv, Recorded, StoppedAtTheStart
<1>4. \A t \in Tests : final'[t] # "none" =>
        \E v \in Nodes : t \in ran'[v] \/ (wphase'[v] = "dead" /\ crashItem'[v] = t)
  BY <1>1 DEF IInv, Recorded, Arrives
<1> QED BY <1>3, <1>4 DEF IInv, Recorded, Arrives, V!Failing, V!WithStatus

\* Either the decision is on disk, or there was nobody to write it for, or the
\* disk failed.
LEMMA PublishOnFile ==
  ASSUME NEW fp \in [Tests -> Nat], NEW k \in KeepSet, Publish(fp, k), file = NoFile, collected' # NoCollection,
         k # Everything => fp = Fingerprint(collected'),
         handed' = handed, handed = {} => disabled' \/ ~opted'
  PROVE  OnFile'
<1>1. keep' = k
  BY DEF Publish
<1>2. CASE file' = [fingerprint |-> fp, keep |-> k]
  <2>1. file'.fingerprint = fp /\ file'.keep = k
    BY <1>2
  <2>2. file' # NoFile
    BY <1>2, ConstantsAssumption
  <2> QED BY <1>1, <2>1, <2>2 DEF OnFile
<1>3. CASE file' = NoFile /\ diskFailed' = (handed # {})
  BY <1>3 DEF OnFile
<1> QED BY <1>2, <1>3 DEF Publish

LEMMA FirstCollectionDisabledIInv ==
  ASSUME IInv, TypeOK', NEW w \in Nodes, NEW c \in Collections, FirstCollectionDisabled(w, c)
  PROVE  IInv'
<1>1. Arrives(w, c) /\ collected = NoCollection /\ collected' = c /\ c # NoCollection
  BY ConstantsAssumption DEF FirstCollectionDisabled
<1>2. keep = Everything /\ keep' = Everything /\ file = NoFile /\ phase = "running" /\ phase' = phase
  BY <1>1 DEF FirstCollectionDisabled, Arrives, Publish, IInv, Decided, TypeOK, AnswerTypes
<1>3. Decided'
  BY <1>1, <1>2 DEF FirstCollectionDisabled, Arrives, IInv, Decided
<1>4. OnFile'
  BY <1>1, <1>2, PublishOnFile, EmptyCollectionFingerprint
  DEF FirstCollectionDisabled, Arrives, KeepSet
<1>5. WorkerInv'
  BY <1>1, FirstArrivalWorkerInv DEF FirstCollectionDisabled, FirstCollectionAsks,
                                     FirstCollectionRefused
<1>6. Recorded'
  BY <1>1, <1>2, ArrivesRecorded DEF FirstCollectionDisabled, IInv, Recorded
<1>7. Concluded'
  BY <1>2, NotConcluded
<1> QED BY <1>3, <1>4, <1>5, <1>6, <1>7 DEF IInv

LEMMA FirstCollectionAsksIInv ==
  ASSUME IInv, TypeOK', NEW w \in Nodes, NEW c \in Collections, NEW a \in ServedAnswers,
         FirstCollectionAsks(w, c, a)
  PROVE  IInv'
<1>1. /\ Arrives(w, c) /\ collected = NoCollection /\ collected' = c /\ c # NoCollection
      /\ answer' = a /\ ~Refuses(a) /\ ~disabled
  BY ConstantsAssumption DEF FirstCollectionAsks
<1>2. /\ keep = Everything /\ keep' = Keep(a, c) /\ file = NoFile
      /\ phase = "running" /\ phase' = phase
  BY <1>1 DEF FirstCollectionAsks, Arrives, Publish, IInv, Decided, TypeOK, AnswerTypes
<1>3. Decided'
  <2>1. keep' # Everything => opted
    BY <1>2, UnaskedKeepsEverything DEF ServedAnswers
  <2> QED BY <1>1, <1>2, <2>1 DEF Arrives, Decided
<1>4. OnFile'
  <2>1. w \in handed \/ disabled \/ ~opted
    BY <1>1 DEF IInv, WorkerInv, Configured, Arrives
  <2>2. Fingerprint(c) \in [Tests -> Nat] /\ Keep(a, c) \in KeepSet
    BY CollectedTests, AnswersTyped, FingerprintTyped, KeepTyped
  <2> QED BY <1>1, <1>2, <2>1, <2>2, PublishOnFile DEF FirstCollectionAsks, Arrives
<1>5. WorkerInv'
  BY <1>1, FirstArrivalWorkerInv DEF FirstCollectionDisabled, FirstCollectionAsks,
                                     FirstCollectionRefused
<1>6. Recorded'
  <2>1. echo'.notApplied \in {"none", notApplied'}
    BY DEF FirstCollectionAsks, Echo, NoEcho
  <2> QED BY <1>1, <1>2, <2>1, ArrivesRecorded DEF FirstCollectionAsks
<1>7. Concluded'
  BY <1>2, NotConcluded
<1> QED BY <1>3, <1>4, <1>5, <1>6, <1>7 DEF IInv

LEMMA FirstCollectionRefusedIInv ==
  ASSUME IInv, TypeOK', NEW w \in Nodes, NEW c \in Collections, NEW a \in ServedAnswers,
         FirstCollectionRefused(w, c, a)
  PROVE  IInv'
<1>1. /\ Arrives(w, c) /\ collected = NoCollection /\ collected' = c /\ c # NoCollection
      /\ phase' = "stopped" /\ keep' = keep /\ file' = file
  BY ConstantsAssumption DEF FirstCollectionRefused
<1>2. keep = Everything /\ file = NoFile /\ ~scheduled
  BY <1>1 DEF IInv, Decided, TypeOK, AnswerTypes
<1>3. Decided' /\ OnFile'
  BY <1>1, <1>2 DEF Arrives, Decided, OnFile
<1>4. WorkerInv'
  BY <1>1, FirstArrivalWorkerInv DEF FirstCollectionDisabled, FirstCollectionAsks,
                                     FirstCollectionRefused
<1>5. Recorded'
  <2>1. echo'.notApplied \in {"none", notApplied'}
    BY DEF FirstCollectionRefused, Echo, NoEcho
  <2> QED BY <1>1, <1>2, <2>1, ArrivesRecorded DEF FirstCollectionRefused
<1>6. Concluded'
  BY <1>1, NotConcluded
<1> QED BY <1>3, <1>4, <1>5, <1>6 DEF IInv

LEMMA LaterCollectionIInv ==
  ASSUME IInv, TypeOK', NEW w \in Nodes, NEW c \in Collections, LaterCollection(w, c)
  PROVE  IInv'
<1>1. Arrives(w, c) /\ phase = "running" /\ phase' = phase
  BY DEF LaterCollection, Arrives
<1>2. Decided' /\ OnFile'
  BY DEF LaterCollection, Arrives, IInv, Decided, OnFile
<1>3. WorkerInv'
  <2> SUFFICES ASSUME NEW v \in Nodes
               PROVE  Configured(v)' /\ Reading(v)' /\ Reported(v)'
    BY DEF WorkerInv, Nodes
  <2>1. Configured(v) /\ Reading(v) /\ Reported(v)
    BY DEF IInv, WorkerInv
  <2>2. /\ wphase \in [Nodes -> WorkerPhase]
        /\ wcoll \in [Nodes -> Collections \cup {NoCollection}]
    BY DEF IInv, TypeOK, WorkerTypes
  <2>3. Configured(v)' /\ Reported(v)'
    BY <2>1, <2>2 DEF Configured, Reported, LaterCollection, Arrives
  <2>4. Reading(v)'
    BY <2>1, <2>2 DEF Reading, LaterCollection, Arrives
  <2> QED BY <2>3, <2>4
<1>4. Recorded'
  BY <1>1, ArrivesRecorded DEF LaterCollection, IInv, Recorded
<1>5. Concluded'
  BY <1>1, NotConcluded
<1> QED BY <1>2, <1>3, <1>4, <1>5 DEF IInv

-----------------------------------------------------------------------------
(* Tests.                                                                  *)

\* What a worker that has its collection makes of the file, and what it was
\* before: only an answer about that very collection makes it leave tests out.
LEMMA WhatIsRead ==
  ASSUME IInv, NEW w \in Nodes, wphase[w] = "collected", phase = "running", scheduled,
         NEW r \in AnswerRead(w)
  PROVE  /\ r # "unread" /\ collected # NoCollection
         /\ r = "applied" =>
              /\ keep # Everything /\ KeepOf(w, r) = keep /\ ran[w] \subseteq keep
              /\ Fingerprint(wcoll[w]) = Fingerprint(collected)
         /\ r # "applied" => KeepOf(w, r) = Everything /\ skipped[w] = {}
         /\ r = "run all" => keep = Everything
         /\ r = "missing" => diskFailed
         /\ r = "no path" => disabled \/ ~opted
<1>1. Configured(w) /\ Reading(w) /\ collected # NoCollection
  BY DEF IInv, WorkerInv, Decided
<1>2. CASE wread[w] # "unread"
  <2>1. r = wread[w] /\ KeepOf(w, r) = wkeep[w]
    BY <1>2 DEF AnswerRead, KeepOf
  <2> QED BY <1>1, <1>2, <2>1 DEF Configured, Reading
<1>3. CASE wread[w] = "unread"
  <2>1. wkeep[w] = Everything /\ ran[w] = {} /\ skipped[w] = {}
    BY <1>1, <1>3 DEF Reading
  <2>2. CASE file = NoFile
    <3>1. r = "missing" /\ KeepOf(w, r) = Everything
      BY <1>3, <2>1, <2>2 DEF AnswerRead, KeepOf
    <3>2. handed # {}
      BY <1>1, <1>3 DEF Configured
    <3>3. diskFailed
      BY <1>1, <2>2, <3>2 DEF IInv, OnFile
    <3> QED BY <1>1, <2>1, <3>1, <3>3
  <2>3. CASE file # NoFile
    <3>1. file.keep = keep /\ (keep # Everything => file.fingerprint = Fingerprint(collected))
      BY <2>3 DEF IInv, OnFile
    <3>2. r \in {"unreadable", "run all", "mismatch", "applied"}
      BY <1>3, <2>3 DEF AnswerRead
    <3>3. r = "run all" => keep = Everything
      BY <1>3, <2>3, <3>1 DEF AnswerRead
    <3>4. r = "applied" => keep # Everything /\ Fingerprint(wcoll[w]) = Fingerprint(collected)
      BY <1>3, <2>3, <3>1 DEF AnswerRead
    <3>5. IF r = "applied" THEN KeepOf(w, r) = keep ELSE KeepOf(w, r) = Everything
      BY <1>3, <2>1, <3>1 DEF KeepOf
    <3> QED BY <1>1, <2>1, <3>2, <3>3, <3>4, <3>5
  <2> QED BY <2>2, <2>3
<1> QED BY <1>2, <1>3

\* One step of a worker through its tests: it reads the answer if it has not, and
\* then either runs a test, leaves it out, or dies over it.
LEMMA TestWorkerInv ==
  ASSUME IInv, NEW w \in Nodes, NEW t \in Tests, NEW r \in AnswerRead(w),
         wphase[w] = "collected", phase = "running", scheduled,
         Load(w, r),
         UNCHANGED <<scheduled, opted, remote, disabled, handed, collected, keep, diskFailed,
                     couldNotRead, crashed, differ, wcoll>>,
         wphase' = wphase \/ wphase' = [wphase EXCEPT ![w] = "crashed"],
         ran' = ran \/ (ran' = [ran EXCEPT ![w] = @ \cup {t}] /\ ~LeavesOut(w, r, t)),
         skipped' = skipped
           \/ (skipped' = [skipped EXCEPT ![w] = @ \cup {t}] /\ LeavesOut(w, r, t))
  PROVE  WorkerInv'
<1>1. /\ wphase \in [Nodes -> WorkerPhase] /\ wread \in [Nodes -> ReadResult]
      /\ wkeep \in [Nodes -> KeepSet]
      /\ ran \in [Nodes -> SUBSET Tests] /\ skipped \in [Nodes -> SUBSET Tests]
  BY DEF IInv, TypeOK, WorkerTypes
<1>2. \A v \in Nodes : Configured(v) /\ Reading(v) /\ Reported(v)
  BY DEF IInv, WorkerInv
<1>3. ASSUME NEW v \in Nodes, v # w PROVE Configured(v)' /\ Reading(v)' /\ Reported(v)'
  <2>1. /\ wphase'[v] = wphase[v] /\ wread'[v] = wread[v] /\ wkeep'[v] = wkeep[v]
        /\ ran'[v] = ran[v] /\ skipped'[v] = skipped[v]
    BY <1>1, <1>3 DEF Load
  <2> QED BY <1>2, <2>1 DEF Configured, Reading, Reported
<1>4. /\ wread'[w] = r /\ wkeep'[w] = KeepOf(w, r) /\ wphase'[w] \in {"collected", "crashed"}
      /\ ran'[w] = ran[w] \/ (ran'[w] = ran[w] \cup {t} /\ ~LeavesOut(w, r, t))
      /\ skipped'[w] = skipped[w] \/ (skipped'[w] = skipped[w] \cup {t} /\ LeavesOut(w, r, t))
  BY <1>1 DEF Load
<1>5. Configured(w)' /\ Reported(w)'
  BY <1>2, <1>4, WhatIsRead DEF Configured, Reported
<1>6. CASE r = "applied"
  <2>1. keep # Everything /\ KeepOf(w, r) = keep /\ ran[w] \subseteq keep
    BY <1>6, WhatIsRead
  <2>2. LeavesOut(w, r, t) <=> t \notin keep
    BY <2>1 DEF LeavesOut
  <2>3. ran'[w] \subseteq keep /\ skipped'[w] \cap keep = {}
    BY <1>2, <1>4, <2>1, <2>2 DEF Reading
  <2>4. Fingerprint(wcoll[w]) = Fingerprint(collected)
    BY <1>6, WhatIsRead
  <2> QED BY <1>2, <1>3, <1>4, <1>5, <1>6, <2>1, <2>3, <2>4 DEF WorkerInv, Reading, Nodes
<1>7. CASE r # "applied"
  <2>1. KeepOf(w, r) = Everything /\ skipped[w] = {}
    BY <1>7, WhatIsRead
  <2>2. skipped'[w] = {}
    BY <1>4, <2>1 DEF LeavesOut
  <2>3. r # "unread" /\ (r = "run all" => keep = Everything /\ collected # NoCollection)
        /\ (r = "missing" => diskFailed)
    BY WhatIsRead
  <2> QED BY <1>2, <1>3, <1>4, <1>5, <1>7, <2>1, <2>2, <2>3 DEF WorkerInv, Reading, Nodes
<1> QED BY <1>6, <1>7

LEMMA RunTestIInv ==
  ASSUME IInv, TypeOK', NEW w \in Nodes, wphase[w] = "collected", NEW t \in Tests,
         NEW r \in AnswerRead(w), NEW o, RunTest(w, t, r, o)
  PROVE  IInv'
<1>1. phase = "running" /\ phase' = phase /\ scheduled
  BY DEF RunTest, MayRun
<1>2. Decided' /\ OnFile'
  BY DEF RunTest, IInv, Decided, OnFile
<1>3. WorkerInv'
  BY <1>1, TestWorkerInv DEF RunTest
<1>4. Recorded'
  <2>1. final \in [Tests -> V!Status] /\ ran \in [Nodes -> SUBSET Tests]
    BY DEF IInv, TypeOK, AccountTypes, WorkerTypes
  <2>0. final' = V!Record(final, t, CallReport(o)) /\ CallReport(o).outcome = o
    BY DEF RunTest, CallReport
  <2>2. \A u \in Tests : u # t => final'[u] = final[u]
    BY <2>0, <2>1, RecordElsewhere
  <2>3. /\ \A v \in Nodes : ran[v] \subseteq ran'[v]
        /\ t \in ran'[w]
    BY <2>1 DEF RunTest
  <2>4. \A u \in Tests : final'[u] # "none" =>
          \E v \in Nodes : u \in ran'[v] \/ (wphase'[v] = "dead" /\ crashItem'[v] = u)
    BY <2>2, <2>3 DEF RunTest, IInv, Recorded
  <2>5. V!Failing(final) # {} => V!Failing(final') # {}
    BY <2>0, <2>1, FailureStands DEF V!Failing, V!WithStatus
  <2>6. o = "failed" => V!Failing(final') # {}
    BY <2>0, <2>1, FailureRecorded DEF V!Failing, V!WithStatus
  <2>7. red' => failedOnSkipped' \/ V!Failing(final') # {}
    BY <1>1, <2>5, <2>6 DEF RunTest, IInv, Recorded, StoppedAtTheStart
  <2> QED BY <1>1, <2>4, <2>7 DEF RunTest, IInv, Recorded, V!Failing, V!WithStatus
<1>5. Concluded'
  BY <1>1, NotConcluded
<1> QED BY <1>2, <1>3, <1>4, <1>5 DEF IInv

LEMMA SkipTestIInv ==
  ASSUME IInv, TypeOK', NEW w \in Nodes, wphase[w] = "collected", NEW t \in Tests,
         NEW r \in AnswerRead(w), NEW bad \in BOOLEAN, SkipTest(w, t, r, bad)
  PROVE  IInv'
<1>1. phase = "running" /\ phase' = phase /\ scheduled
  BY DEF SkipTest, MayRun
<1>2. Decided' /\ OnFile'
  BY DEF SkipTest, IInv, Decided, OnFile
<1>3. WorkerInv'
  BY <1>1, TestWorkerInv DEF SkipTest
<1>4. keep # Everything
  BY <1>1, WhatIsRead DEF SkipTest, LeavesOut
<1>5. Recorded'
  BY <1>1, <1>4 DEF SkipTest, IInv, Recorded, StoppedAtTheStart
<1>6. Concluded'
  BY <1>1, NotConcluded
<1> QED BY <1>2, <1>3, <1>5, <1>6 DEF IInv

LEMMA CrashInTestIInv ==
  ASSUME IInv, TypeOK', NEW w \in Nodes, wphase[w] = "collected", NEW t \in Tests,
         NEW r \in AnswerRead(w), CrashInTest(w, t, r)
  PROVE  IInv'
<1>1. phase = "running" /\ phase' = phase /\ scheduled
  BY DEF CrashInTest, MayRun
<1>2. Decided' /\ OnFile'
  BY DEF CrashInTest, IInv, Decided, OnFile
<1>3. WorkerInv'
  BY <1>1, TestWorkerInv DEF CrashInTest
<1>4. Recorded'
  <2>1. /\ wphase \in [Nodes -> WorkerPhase] /\ crashItem \in [Nodes -> Tests \cup {NoItem}]
        /\ ran \in [Nodes -> SUBSET Tests]
    BY DEF IInv, TypeOK, WorkerTypes
  <2>2. \A v \in Nodes : wphase[v] = "dead" => wphase'[v] = "dead" /\ crashItem'[v] = crashItem[v]
    BY <2>1 DEF CrashInTest
  <2>3. \A v \in Nodes : ran[v] \subseteq ran'[v]
    BY <2>1 DEF CrashInTest
  <2> QED BY <1>1, <2>2, <2>3 DEF CrashInTest, IInv, Recorded, StoppedAtTheStart
<1>5. Concluded'
  BY <1>1, NotConcluded
<1> QED BY <1>2, <1>3, <1>4, <1>5 DEF IInv

-----------------------------------------------------------------------------
(* The end of a worker.                                                    *)

LEMMA GoneIInv ==
  ASSUME IInv, TypeOK', NEW w \in Nodes,
         CrashIdle(w) \/ WorkerFinish(w) \/ NodeDown(w) \/ NodeErrorDown(w)
  PROVE  IInv'
<1>1. phase = "running" /\ phase' = phase
  BY DEF CrashIdle, WorkerFinish, NodeDown, NodeErrorDown
<1>2. Decided' /\ OnFile'
  BY DEF CrashIdle, WorkerFinish, NodeDown, NodeErrorDown, IInv, Decided, OnFile
<1>3. /\ wphase \in [Nodes -> WorkerPhase] /\ crashItem \in [Nodes -> Tests \cup {NoItem}]
      /\ final \in [Tests -> V!Status]
  BY DEF IInv, TypeOK, WorkerTypes, AccountTypes
<1>4. WorkerInv'
  <2> SUFFICES ASSUME NEW v \in Nodes
               PROVE  Configured(v)' /\ Reading(v)' /\ Reported(v)'
    BY DEF WorkerInv, Nodes
  <2>1. Configured(v) /\ Reading(v) /\ Reported(v)
    BY DEF IInv, WorkerInv
  <2>2. /\ wphase'[v] = wphase[v] \/ wphase'[v] \in {"crashed", "finished", "down", "dead"}
        /\ wphase'[v] = "unused" => wphase[v] = "unused"
        /\ wphase'[v] # "unused" => wphase[v] # "unused"
    BY <1>3 DEF CrashIdle, WorkerFinish, NodeDown, NodeErrorDown
  <2>8. UNCHANGED <<remote, disabled, opted, handed, wread>>
    BY DEF CrashIdle, WorkerFinish, NodeDown, NodeErrorDown
  <2>6. Configured(v)'
    BY <2>1, <2>2, <2>8 DEF Configured
  <2>7. Reading(v)'
    BY <2>1, <2>2 DEF CrashIdle, WorkerFinish, NodeDown, NodeErrorDown, Reading
  <2>3. CrashIdle(w) \/ WorkerFinish(w) => Reported(v)'
    BY <1>3, <2>1 DEF CrashIdle, WorkerFinish, Reported
  <2>4. NodeDown(w) => Reported(v)'
    BY <1>3, <2>1 DEF NodeDown, Reported
  <2>5. NodeErrorDown(w) => Reported(v)'
    BY <1>3, <2>1 DEF NodeErrorDown, Reported
  <2> QED BY <2>3, <2>4, <2>5, <2>6, <2>7
<1>5. CASE CrashIdle(w) \/ WorkerFinish(w) \/ NodeDown(w)
  <2>1. \A v \in Nodes : wphase[v] = "dead" => wphase'[v] = "dead"
    BY <1>3, <1>5 DEF CrashIdle, WorkerFinish, NodeDown
  <2>2. Recorded'
    BY <1>5, <2>1 DEF CrashIdle, WorkerFinish, NodeDown, IInv, Recorded, StoppedAtTheStart
  <2> QED BY <1>1, <1>2, <1>4, <2>2, NotConcluded DEF IInv
<1>6. CASE NodeErrorDown(w)
  <2>1. \A v \in Nodes : wphase[v] = "dead" => wphase'[v] = "dead"
    BY <1>3, <1>6 DEF NodeErrorDown
  <2>2. wphase'[w] = "dead" /\ crashItem'[w] = crashItem[w]
    BY <1>3, <1>6 DEF NodeErrorDown
  <2>0. \/ crashItem[w] = NoItem /\ final' = final
        \/ /\ crashItem[w] \in Tests
           /\ final' = V!Record(final, crashItem[w], CrashReport)
           /\ CrashReport.outcome = "failed"
    BY <1>3, <1>6 DEF NodeErrorDown, CrashReport
  <2>3. \A u \in Tests : u # crashItem[w] => final'[u] = final[u]
    BY <1>3, <2>0, RecordElsewhere
  <2>4. \A u \in Tests : final'[u] # "none" =>
          \E v \in Nodes : u \in ran'[v] \/ (wphase'[v] = "dead" /\ crashItem'[v] = u)
    BY <1>6, <2>1, <2>2, <2>3 DEF NodeErrorDown, IInv, Recorded
  <2>5. V!Failing(final) # {} => V!Failing(final') # {}
    BY <1>3, <2>0, FailureStands DEF V!Failing, V!WithStatus
  <2>6. crashItem[w] # NoItem => V!Failing(final') # {}
    BY <1>3, <2>0, FailureRecorded DEF V!Failing, V!WithStatus
  <2>7. red' => failedOnSkipped' \/ V!Failing(final') # {} \/ StoppedAtTheStart'
    BY <1>6, <2>5, <2>6 DEF NodeErrorDown, IInv, Recorded, StoppedAtTheStart
  <2>9. ~scheduled' => \A u \in Tests : final'[u] = "none"
    BY <1>6, <2>0 DEF NodeErrorDown, IInv, Recorded, WorkerInv, Reading
  <2>8. Recorded'
    BY <1>6, <2>4, <2>7, <2>9
    DEF NodeErrorDown, IInv, Recorded, StoppedAtTheStart, V!Failing, V!WithStatus
  <2> QED BY <1>1, <1>2, <1>4, <2>8, NotConcluded DEF IInv
<1> QED BY <1>5, <1>6

-----------------------------------------------------------------------------
(* The end of the run.                                                     *)

LEMMA ScheduleIInv == ASSUME IInv, TypeOK', Schedule PROVE IInv'
<1>1. phase = "running" /\ phase' = phase /\ collected # NoCollection
  BY DEF Schedule, AllReported
<1>2. Decided' /\ OnFile'
  BY <1>1 DEF Schedule, IInv, Decided, OnFile
<1>3. WorkerInv'
  BY DEF Schedule, IInv, WorkerInv, Configured, Reading, Reported, Nodes
<1>4. Recorded'
  BY DEF Schedule, AllReported, IInv, Recorded
<1>5. Concluded'
  BY <1>1, NotConcluded
<1> QED BY <1>2, <1>3, <1>4, <1>5 DEF IInv

LEMMA RefuseToScheduleIInv == ASSUME IInv, TypeOK', RefuseToSchedule PROVE IInv'
<1>1. phase = "running" /\ phase' = phase /\ ~scheduled /\ ~scheduled'
  BY DEF RefuseToSchedule, AllReported
<1>2. Decided' /\ OnFile'
  BY <1>1 DEF RefuseToSchedule, IInv, Decided, OnFile
<1>3. WorkerInv'
  BY DEF RefuseToSchedule, IInv, WorkerInv, Configured, Reading, Reported, Nodes
<1>4. differ
  <2>1. PICK w \in Nodes : wphase[w] = "collected" /\ wcoll[w] # collected
    BY DEF RefuseToSchedule, CollectedAlike
  <2>2. wcoll[w] # NoCollection
    BY <2>1 DEF IInv, TypeOK, WorkerTypes
  <2> QED BY <2>1, <2>2 DEF IInv, WorkerInv, Reading
<1>5. Recorded'
  BY <1>1, <1>4 DEF RefuseToSchedule, IInv, Recorded, StoppedAtTheStart
<1>6. Concluded'
  BY <1>1, NotConcluded
<1> QED BY <1>2, <1>3, <1>5, <1>6 DEF IInv

\* A reduced run all of whose workers are gone, none of which crashed or could not
\* read the answer, ran nothing the answer leaves out.
LEMMA ReducedRunsKeep ==
  ASSUME IInv, keep # Everything, Accounted, ~crashed, couldNotRead = {}
  PROVE  \A w \in Nodes : ran[w] \subseteq keep /\ wphase[w] # "dead"
<1> SUFFICES ASSUME NEW w \in Nodes PROVE ran[w] \subseteq keep /\ wphase[w] # "dead"
  OBVIOUS
<1>1. Configured(w) /\ Reading(w) /\ Reported(w) /\ opted /\ ~disabled
  BY DEF IInv, WorkerInv, Decided
<1>2. wphase[w] \in {"unused", "down"} /\ wread[w] \in ReadResult
  BY <1>1 DEF Accounted, Gone, Reported, IInv, TypeOK, WorkerTypes
<1>3. wphase[w] = "down" => wread[w] \notin CouldNotRead
  BY <1>1 DEF Reported
<1>4. wread[w] \in {"unread", "applied"} \/ ran[w] = {}
  BY <1>1, <1>2, <1>3 DEF Configured, Reading, ReadResult, CouldNotRead
<1> QED BY <1>1, <1>2, <1>4 DEF Reading

LEMMA SessionFinishConcludes == ASSUME IInv, TypeOK', SessionFinish PROVE Concluded'
<1>1. /\ UNCHANGED <<keep, ran, scheduled, wphase, crashed, red, final, failedOnSkipped, couldNotRead>>
      /\ Accounted' <=> Accounted
  BY DEF SessionFinish, Accounted
<1>2. ASSUME Accounted, keep # Everything, notApplied' = "none", ~crashed
      PROVE  /\ \A w \in Nodes : ran[w] \subseteq keep /\ wphase[w] # "dead"
             /\ echo'.notApplied = "none"
  <2>1. SettleReason \in {"none", "xdist_collections_differ",
                          "xdist_worker_could_not_read_answer"}
    BY DEF SettleReason
  <2>2. ~DeclaresNotApplied
    BY <1>2 DEF SessionFinish, Settle, DeclaresNotApplied
  <2>3. notApplied = "none" /\ echo' = echo
    BY <1>2, <2>2 DEF SessionFinish, Settle
  <2>4. couldNotRead = {}
    BY <1>2, <2>2, <2>3 DEF DeclaresNotApplied, SettleReason
  <2> QED BY <1>2, <2>3, <2>4, ReducedRunsKeep DEF IInv, Recorded
<1>3. VerdictDescribesTheRun'
  <2> SUFFICES ASSUME sent', Accounted', Reduced'
               PROVE  /\ V!Executed(final) \subseteq keep
                      /\ \A w \in Nodes : ran[w] \subseteq keep
    BY <1>1 DEF VerdictDescribesTheRun, V!Executed, V!WithStatus, Nodes
  <2>1. Accounted /\ keep # Everything /\ notApplied' = "none"
    BY <1>1 DEF Reduced
  <2>2. ~crashed
    BY <2>1 DEF SessionFinish, Settle, Finalize
  <2>3. \A w \in Nodes : ran[w] \subseteq keep /\ wphase[w] # "dead"
    BY <1>2, <2>1, <2>2
  <2>4. \A t \in Tests : final[t] # "none" => t \in keep
    BY <2>3 DEF IInv, Recorded
  <2>5. V!Executed(final) \subseteq keep
    BY <2>4 DEF V!Executed, V!WithStatus, V!FinalStatus
  <2> QED BY <2>3, <2>5
<1>4. NoFalseReduction'
  <2> SUFFICES ASSUME Accounted', ~crashed', Reduced'
               PROVE  echo'.notApplied = "none" /\ \A w \in Nodes : ran[w] \subseteq keep
    BY <1>1 DEF NoFalseReduction, Nodes
  <2> QED BY <1>1, <1>2 DEF Reduced
<1>5. RedRunHasAFailure'
  <2> SUFFICES ASSUME sent', red
               PROVE  \/ V!Failing(final) # {}
                      \/ ~scheduled /\ V!Executed(final) = {} /\ ~Reduced'
    BY <1>1 DEF RedRunHasAFailure, V!Failing, V!Executed, V!WithStatus
  <2>1. ~withheld'
    BY DEF SessionFinish, Finalize
  <2>2. ~failedOnSkipped
    BY <2>1 DEF SessionFinish, Settle, IInv, Recorded
  <2>3. CASE StoppedAtTheStart
    <3>1. V!Executed(final) = {}
      BY <2>3 DEF IInv, Recorded, StoppedAtTheStart, V!Executed, V!WithStatus, V!FinalStatus
    <3>2. Refuses(answer) => ~Reduced'
      BY <1>1 DEF IInv, Decided, Reduced
    <3>3. differ => ~Reduced'
      BY <1>1 DEF SessionFinish, Settle, DeclaresNotApplied, SettleReason, Reduced
    <3> QED BY <2>3, <3>1, <3>2, <3>3 DEF StoppedAtTheStart
  <2> QED BY <2>2, <2>3 DEF IInv, Recorded
<1> QED BY <1>3, <1>4, <1>5 DEF Concluded

LEMMA SessionFinishIInv == ASSUME IInv, TypeOK', SessionFinish PROVE IInv'
<1>1. file' = NoFile /\ phase' = "settled" /\ UNCHANGED <<keep, collected, answer>>
  BY DEF SessionFinish, Settle
<1>2. Decided' /\ OnFile'
  BY <1>1 DEF SessionFinish, IInv, Decided, OnFile
<1>3. WorkerInv'
  BY DEF SessionFinish, IInv, WorkerInv, Configured, Reading, Reported, Nodes
<1>4. Recorded'
  <2>1. echo'.notApplied \in {"none", notApplied'}
    BY DEF SessionFinish, Settle, Echo, NoEcho, IInv, Recorded
  <2> QED BY <2>1 DEF SessionFinish, IInv, Recorded, StoppedAtTheStart
<1>5. Concluded'
  BY SessionFinishConcludes
<1> QED BY <1>2, <1>3, <1>4, <1>5 DEF IInv

LEMMA AtexitBackstopIInv == ASSUME IInv, TypeOK', AtexitBackstop PROVE IInv'
<1>1. phase' = "flushed" /\ UNCHANGED <<file, keep, collected, answer>>
  BY DEF AtexitBackstop
<1>2. Decided' /\ OnFile'
  BY <1>1 DEF AtexitBackstop, IInv, Decided, OnFile
<1>3. WorkerInv'
  BY DEF AtexitBackstop, IInv, WorkerInv, Configured, Reading, Reported, Nodes
<1>4. Recorded'
  BY DEF AtexitBackstop, IInv, Recorded, StoppedAtTheStart
<1>5. Concluded'
  BY <1>1, NotConcluded
<1> QED BY <1>2, <1>3, <1>4, <1>5 DEF IInv

LEMMA StutterIInv == ASSUME IInv, TypeOK', UNCHANGED vars PROVE IInv'
<1>1. Decided' /\ OnFile'
  BY DEF vars, IInv, Decided, OnFile
<1>2. WorkerInv'
  BY DEF vars, IInv, WorkerInv, Configured, Reading, Reported, Nodes
<1>3. Recorded'
  BY DEF vars, IInv, Recorded, StoppedAtTheStart
<1>4. Concluded'
  BY DEF vars, IInv, Concluded, VerdictDescribesTheRun, NoFalseReduction, RedRunHasAFailure,
         Accounted, Reduced
<1> QED BY <1>1, <1>2, <1>3, <1>4 DEF IInv

LEMMA NextIInv == IInv /\ [Next]_vars => IInv'
<1> SUFFICES ASSUME IInv, [Next]_vars PROVE IInv'
  OBVIOUS
<1>0. TypeOK'
  BY NextTypeOK DEF IInv
<1>1. ASSUME NEW w \in Nodes, ConfigureNode(w) \/ ReplaceNode(w) PROVE IInv'
  BY <1>0, <1>1, NodeIInv
<1>2. ASSUME NEW w \in Nodes, CollectionFinished(w) PROVE IInv'
  BY <1>0, <1>2, FirstCollectionDisabledIInv, FirstCollectionAsksIInv,
     FirstCollectionRefusedIInv, LaterCollectionIInv DEF CollectionFinished
<1>3. ASSUME NEW w \in Nodes, RunOrSkip(w) PROVE IInv'
  <2>1. wphase[w] = "collected" /\ Range(wcoll[w]) \subseteq Tests
    BY <1>3, CollectedTests DEF RunOrSkip, IInv, TypeOK, WorkerTypes
  <2> QED BY <1>0, <1>3, <2>1, RunTestIInv, SkipTestIInv, CrashInTestIInv DEF RunOrSkip
<1>4. ASSUME NEW w \in Nodes,
             CrashIdle(w) \/ WorkerFinish(w) \/ NodeDown(w) \/ NodeErrorDown(w)
      PROVE  IInv'
  BY <1>0, <1>4, GoneIInv
<1>5. CASE Schedule \/ RefuseToSchedule
  BY <1>0, <1>5, ScheduleIInv, RefuseToScheduleIInv
<1>6. CASE SessionFinish
  BY <1>0, <1>6, SessionFinishIInv
<1>7. CASE AtexitBackstop
  BY <1>0, <1>7, AtexitBackstopIInv
<1>8. CASE UNCHANGED vars
  BY <1>0, <1>8, StutterIInv
<1> QED
  BY <1>1, <1>2, <1>3, <1>4, <1>5, <1>6, <1>7, <1>8 DEF Next, Exited

\* The inductive invariant holds in every state.
THEOREM Invariance == Spec => []IInv
<1> QED BY InitIInv, NextIInv, PTL DEF Spec

-----------------------------------------------------------------------------
(* The properties.                                                         *)

\* No worker skips a test on an answer that was not about its own collection, or
\* that keeps the test (XdistSelectionWorker).
THEOREM NeverSkipsWronglyOnAWorker == Spec => []SkipsOnlyTheLeftOut
<1>1. IInv => SkipsOnlyTheLeftOut
  <2> SUFFICES ASSUME IInv, NEW w \in Nodes, skipped[w] # {}
               PROVE  /\ keep # Everything /\ collected # NoCollection
                      /\ Fingerprint(wcoll[w]) = Fingerprint(collected)
                      /\ skipped[w] \cap keep = {}
    BY DEF SkipsOnlyTheLeftOut
  <2>1. Reading(w) /\ wread[w] = "applied"
    BY DEF IInv, WorkerInv, Reading
  <2> QED BY <2>1 DEF Reading, IInv, TypeOK, AnswerTypes
<1> QED BY <1>1, Invariance, PTL

\* A verdict sent over a reduced run whose workers are all accounted for describes
\* the reduction (_settle_xdist_selection).
THEOREM SentVerdictDescribesTheRun == Spec => []VerdictDescribesTheRun
<1>1. IInv => VerdictDescribesTheRun
  BY DEF IInv, Concluded
<1> QED BY <1>1, Invariance, PTL

\* Nor is a reduction announced that the run did not make (on_selection_resolved).
THEOREM NoReductionIsClaimedFalsely == Spec => []NoFalseReduction
<1>1. IInv => NoFalseReduction
  BY DEF IInv, Concluded
<1> QED BY <1>1, Invariance, PTL

\* A red run's verdict names a failing test, or pytest stopped the run before its
\* first test and the verdict says nothing was executed (pytest_runtest_logreport,
\* pytest_xdist_node_collection_finished).
THEOREM NoCleanVerdictOverARedRun == Spec => []RedRunHasAFailure
<1>1. IInv => RedRunHasAFailure
  BY DEF IInv, Concluded
<1> QED BY <1>1, Invariance, PTL

\* Only a disk error leaves a worker waiting for an answer (publish, _load).
THEOREM OnlyADiskErrorKeepsWaiting == Spec => []NoWorkerWaitsInVain
<1>1. IInv => NoWorkerWaitsInVain
  BY DEF IInv, WorkerInv, Reading, NoWorkerWaitsInVain
<1> QED BY <1>1, Invariance, PTL

\* A refused run runs no test (pytest_xdist_node_collection_finished).
THEOREM RefusedRunRunsNothing == Spec => []RefusalRunsNothing
<1>1. IInv => RefusalRunsNothing
  BY DEF IInv, Decided, WorkerInv, Reading, RefusalRunsNothing
<1> QED BY <1>1, Invariance, PTL

-----------------------------------------------------------------------------
(* XdistSelection implements SelectionContract: its initial states are the *)
(* contract's, and each of its steps is one of the contract's or a stutter *)
(* of it.                                                                  *)

LEMMA InitContract == Init => Contract!Init
<1> SUFFICES ASSUME Init PROVE Contract!Init
  OBVIOUS
<1>1. Executed = {} /\ LeftOut = {}
  BY DEF Init, Executed, LeftOut
<1>2. ~IsDecided /\ Conclusion = "open"
  BY DEF Init, IsDecided, Conclusion
<1> QED BY <1>1, <1>2 DEF Init, Contract!Init

\* A step that leaves the decision and every worker's tests alone, and does not
\* end the session, is none of the contract's.
LEMMA ContractStutters ==
  ASSUME UNCHANGED <<collected, keep, ran, skipped>>,
         phase \in {"configuring", "running", "stopped"},
         phase' \in {"configuring", "running", "stopped"}
  PROVE  UNCHANGED Contract!vars
<1>1. Conclusion = "open" /\ Conclusion' = "open"
  BY DEF Conclusion
<1>2. Executed' = Executed /\ LeftOut' = LeftOut /\ IsDecided' = IsDecided
  BY DEF Executed, LeftOut, IsDecided
<1> QED BY <1>1, <1>2 DEF Contract!vars

\* The first collection is where the controller decides.
LEMMA FirstCollectionDecides ==
  ASSUME IInv, TypeOK', NEW c \in Collections,
         collected = NoCollection, collected' = c, UNCHANGED <<ran, skipped>>,
         phase = "running", phase' \in {"running", "stopped"}
  PROVE  Contract!Decide
<1>1. Conclusion = "open" /\ Conclusion' = "open"
  BY DEF Conclusion
<1>2. Executed' = Executed /\ LeftOut' = LeftOut
  BY DEF Executed, LeftOut
<1>3. IsDecided = FALSE /\ IsDecided' = TRUE
  BY ConstantsAssumption DEF IsDecided
<1>4. keep' \in {Everything} \cup SUBSET Tests
  BY DEF TypeOK, AnswerTypes, KeepSet
<1> QED BY <1>1, <1>2, <1>3, <1>4 DEF Contract!Decide

LEMMA CollectionContract ==
  ASSUME IInv, TypeOK', NEW w \in Nodes, CollectionFinished(w)
  PROVE  [Contract!Next]_Contract!vars
<1> PICK c \in Collections :
      \/ FirstCollectionDisabled(w, c)
      \/ \E a \in ServedAnswers : FirstCollectionAsks(w, c, a) \/ FirstCollectionRefused(w, c, a)
      \/ LaterCollection(w, c)
  BY DEF CollectionFinished
<1>1. CASE collected = NoCollection
  <2>1. collected' = c /\ UNCHANGED <<ran, skipped>>
        /\ phase = "running" /\ phase' \in {"running", "stopped"}
    BY <1>1 DEF FirstCollectionDisabled, FirstCollectionAsks, FirstCollectionRefused,
                LaterCollection, Arrives
  <2>2. Contract!Decide
    BY <1>1, <2>1, FirstCollectionDecides
  <2> QED BY <2>2 DEF Contract!Next
<1>2. CASE collected # NoCollection
  <2>1. LaterCollection(w, c)
    BY <1>2 DEF FirstCollectionDisabled, FirstCollectionAsks, FirstCollectionRefused
  <2>2. UNCHANGED <<collected, keep, ran, skipped>> /\ phase = "running" /\ phase' = "running"
    BY <2>1 DEF LaterCollection, Arrives, asked
  <2> QED BY <2>2, ContractStutters
<1> QED BY <1>1, <1>2

-----------------------------------------------------------------------------
(* A worker's tests.                                                       *)

\* What one worker runs, or leaves out, is what all of them do.
LEMMA UnionGrows ==
  ASSUME NEW S, NEW T, NEW f \in [S -> SUBSET T], NEW w \in S, NEW t
  PROVE  UNION {[f EXCEPT ![w] = @ \cup {t}][v] : v \in S} = (UNION {f[v] : v \in S}) \cup {t}
<1> DEFINE g == [f EXCEPT ![w] = @ \cup {t}]
<1>1. g[w] = f[w] \cup {t} /\ \A v \in S : v # w => g[v] = f[v]
  OBVIOUS
<1>2. ASSUME NEW x
      PROVE  (\E v \in S : x \in g[v]) <=> (\E v \in S : x \in f[v]) \/ x = t
  BY <1>1
<1> HIDE DEF g
<1>3. ASSUME NEW x
      PROVE  x \in UNION {g[v] : v \in S} <=> x \in (UNION {f[v] : v \in S}) \cup {t}
  BY <1>2
<1>4. UNION {g[v] : v \in S} = (UNION {f[v] : v \in S}) \cup {t}
  BY <1>3
<1> QED BY <1>4 DEF g

LEMMA TestContract ==
  ASSUME IInv, NEW w \in Nodes, RunOrSkip(w)
  PROVE  [Contract!Next]_Contract!vars
<1>1. PICK t \in Range(wcoll[w]), r \in AnswerRead(w) :
        \/ \E o \in {"passed", "failed"} : RunTest(w, t, r, o)
        \/ \E bad \in BOOLEAN : SkipTest(w, t, r, bad)
        \/ CrashInTest(w, t, r)
  BY DEF RunOrSkip
<1>2. /\ t \in Tests /\ wphase[w] = "collected"
      /\ ran \in [Nodes -> SUBSET Tests] /\ skipped \in [Nodes -> SUBSET Tests]
  BY CollectedTests DEF RunOrSkip, IInv, TypeOK, WorkerTypes
<1>3. /\ phase = "running" /\ phase' = "running" /\ scheduled
      /\ UNCHANGED <<collected, keep>>
  BY <1>1 DEF RunTest, SkipTest, CrashInTest, MayRun, asked
<1>4. /\ Conclusion = "open" /\ Conclusion' = "open"
      /\ IsDecided = TRUE /\ IsDecided' = IsDecided
  BY <1>3 DEF Conclusion, IsDecided, IInv, Decided
<1>5. CASE ran' = [ran EXCEPT ![w] = @ \cup {t}] /\ skipped' = skipped
  <2>1. Executed' = Executed \cup {t}
    BY <1>2, <1>5, UnionGrows DEF Executed
  <2>2. LeftOut' = LeftOut
    BY <1>5 DEF LeftOut
  <2>3. Contract!Execute(t)
    BY <1>3, <1>4, <2>1, <2>2 DEF Contract!Execute
  <2> QED BY <1>2, <2>3 DEF Contract!Next
<1>6. CASE /\ skipped' = [skipped EXCEPT ![w] = @ \cup {t}] /\ ran' = ran
           /\ LeavesOut(w, r, t)
  <2>1. LeftOut' = LeftOut \cup {t}
    BY <1>2, <1>6, UnionGrows DEF LeftOut
  <2>2. Executed' = Executed
    BY <1>6 DEF Executed
  <2>3. keep # Everything /\ t \notin keep
    BY <1>2, <1>3, <1>6, WhatIsRead DEF LeavesOut
  <2>4. Contract!LeaveOut({t})
    BY <1>3, <1>4, <2>1, <2>2, <2>3 DEF Contract!LeaveOut
  <2>5. {t} \in SUBSET Tests
    BY <1>2
  <2> QED BY <2>4, <2>5 DEF Contract!Next
<1>7. CASE ran' = ran /\ skipped' = skipped
  BY <1>3, <1>7, ContractStutters
<1>8. \/ ran' = [ran EXCEPT ![w] = @ \cup {t}] /\ skipped' = skipped
      \/ skipped' = [skipped EXCEPT ![w] = @ \cup {t}] /\ ran' = ran /\ LeavesOut(w, r, t)
      \/ ran' = ran /\ skipped' = skipped
  BY <1>1 DEF RunTest, SkipTest, CrashInTest
<1> QED BY <1>5, <1>6, <1>7, <1>8

-----------------------------------------------------------------------------
(* The end.                                                                *)

LEMMA EndContract ==
  ASSUME IInv, IInv', SessionFinish \/ AtexitBackstop
  PROVE  Contract!Conclude
<1>1. /\ UNCHANGED <<keep, collected, ran, skipped>>
      /\ phase \in {"running", "stopped"} /\ phase' \in {"settled", "flushed"}
  BY DEF SessionFinish, AtexitBackstop, LoopOver, asked, workers
<1>2. Executed' = Executed /\ LeftOut' = LeftOut /\ IsDecided' = IsDecided
  BY <1>1 DEF Executed, LeftOut, IsDecided
<1>3. Conclusion = "open" /\ Conclusion' \in {"reduced", "other"}
  BY <1>1 DEF Conclusion
<1>4. ASSUME Conclusion' = "reduced" PROVE keep # Everything /\ Executed \subseteq keep
  <2>1. phase' = "settled" /\ sent' /\ Accounted' /\ Reduced'
    BY <1>4 DEF Conclusion
  <2>2. \A w \in Nodes : ran[w] \subseteq keep
    BY <1>1, <2>1 DEF IInv, Concluded, VerdictDescribesTheRun
  <2>3. keep # Everything
    BY <1>1, <2>1 DEF Reduced
  <2> QED BY <2>2, <2>3 DEF Executed
<1> QED BY <1>1, <1>2, <1>3, <1>4 DEF Contract!Conclude

LEMMA NextContract ==
  ASSUME IInv, IInv', [Next]_vars
  PROVE  [Contract!Next]_Contract!vars
<1>1. ASSUME NEW w \in Nodes,
             \/ ConfigureNode(w) \/ ReplaceNode(w)
             \/ CrashIdle(w) \/ WorkerFinish(w) \/ NodeDown(w) \/ NodeErrorDown(w)
      PROVE  UNCHANGED Contract!vars
  <2>1. /\ UNCHANGED <<collected, keep, ran, skipped>>
        /\ phase \in {"configuring", "running"} /\ phase' \in {"configuring", "running"}
    BY <1>1 DEF ConfigureNode, ReplaceNode, HandOut, CrashIdle, WorkerFinish, NodeDown,
                NodeErrorDown, asked
  <2> QED BY <2>1, ContractStutters
<1>2. ASSUME NEW w \in Nodes, CollectionFinished(w) PROVE [Contract!Next]_Contract!vars
  BY <1>2, CollectionContract DEF IInv
<1>3. ASSUME NEW w \in Nodes, RunOrSkip(w) PROVE [Contract!Next]_Contract!vars
  BY <1>3, TestContract
<1>4. CASE Schedule \/ RefuseToSchedule
  <2>1. UNCHANGED <<collected, keep, ran, skipped>> /\ phase = "running" /\ phase' = "running"
    BY <1>4 DEF Schedule, RefuseToSchedule, AllReported, asked, workers
  <2> QED BY <2>1, ContractStutters
<1>5. CASE SessionFinish \/ AtexitBackstop
  BY <1>5, EndContract DEF Contract!Next
<1>6. CASE UNCHANGED vars
  <2>1. /\ UNCHANGED <<collected, keep, ran, skipped, phase, sent, wphase, notApplied>>
    BY <1>6 DEF vars, asked, workers, statement
  <2>2. Executed' = Executed /\ LeftOut' = LeftOut /\ IsDecided' = IsDecided
    BY <2>1 DEF Executed, LeftOut, IsDecided
  <2>3. Conclusion' = Conclusion
    BY <2>1 DEF Conclusion, Accounted, Reduced
  <2> QED BY <2>1, <2>2, <2>3 DEF Contract!vars
<1> QED
  BY <1>1, <1>2, <1>3, <1>4, <1>5, <1>6 DEF Next, Exited

\* The workers, the file between them and the controller, whatever crashes, is
\* replaced or comes late, are one client that decides once and keeps to it
\* (pytest_xdist_node_collection_finished, pytest_runtest_protocol and
\* _settle_xdist_selection together).
THEOREM Refinement == Spec => ImplementsContract
<1>1. IInv /\ IInv' /\ [Next]_vars => [Contract!Next]_Contract!vars
  BY NextContract
<1> QED BY <1>1, InitContract, Invariance, PTL DEF Spec, ImplementsContract, Contract!Spec
=============================================================================
