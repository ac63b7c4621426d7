--------------------------- MODULE RSpecRun_proofs ---------------------------
(***************************************************************************)
(* An rspec process keeps its promises for every suite, filter, answer and *)
(* however its examples behave: which attempt decides, what is called      *)
(* flaky, and that the process only leaves out what it decided to.         *)
(***************************************************************************)
EXTENDS RSpecRun, TLAPS

Held == [id : Examples \cup {NoExample}, step : {"none", "rerun", "finish"},
         exception : BOOLEAN, initial : BOOLEAN, firstFailure : BOOLEAN,
         outcomes : SUBSET {"passed", "failed"},
         message : {"none", "author", "quarantine"}, noted : BOOLEAN, executions : Nat]

Attempts(t) == seen[t].first \cup seen[t].later
Caught(t)   == \E a \in Attempts(t) : Absorbs(t, a)
Skipped(t)  == \E a \in Attempts(t) : a.ends = "skipped"
Twice(t)    == \E a \in Attempts(t) : a.ends = "both"

\* One example is in hand at a time; the others are reported or not begun.
Turns ==
  /\ example.step = "none" <=> example = Idle
  /\ example.step # "none" =>
       /\ example.id \in Examples /\ status[example.id] = "none"
       /\ seen[example.id].first # {} /\ example.id \in ToRun
       /\ group[GroupOf[example.id]] # "waiting"
  /\ phase \in {"loaded", "selected"} => \A g \in Groups : group[g] = "waiting"
  /\ \A t \in Examples :
       /\ seen[t].first = {} => seen[t].later = {} /\ t \notin flaky
       /\ seen[t].first # {} /\ status[t] = "none" => example.step # "none" /\ example.id = t
       /\ group[GroupOf[t]] = "waiting" => seen[t].first = {} /\ status[t] = "none"
       /\ seen[t].first # {} \/ status[t] # "none" => t \in ToRun

\* What stands on the example in hand is what its attempts left there; the first,
\* where no rerun added to it.
Calm(t) == \A a \in seen[t].later : ~Absorbs(t, a) /\ a.ends # "skipped"
FirstMessage(t) ==
  IF \E a \in seen[t].first : Absorbs(t, a) THEN "quarantine"
  ELSE IF \E a \in seen[t].first : a.ends = "skipped" THEN "author" ELSE "none"

Message(t) ==
  /\ Calm(t) => example.message = FirstMessage(t)
  /\ example.message = "none" => ~Caught(t) /\ ~Skipped(t)
  /\ example.message = "quarantine" => Caught(t)

Going(t) ==
  /\ ~Raised(t) /\ t \notin flaky
  /\ example.initial = Left(t, seen[t].first)
  /\ example.firstFailure = Left(t, Attempts(t))
  /\ "passed" \in example.outcomes => QuietOnce(Attempts(t))
  /\ "failed" \in example.outcomes => FailedOnce(Attempts(t))
  /\ QuietOnce(Attempts(t)) => "passed" \in example.outcomes \/ Twice(t)
  /\ FailedOnce(Attempts(t)) => "failed" \in example.outcomes
  /\ example.noted => Twice(t)

DecidedBy(t) == Raised(t) \/ Left(t, IF Mode = "new" THEN Attempts(t) ELSE seen[t].first)

Marked(t) ==
  /\ t \in flaky => FailedOnce(Attempts(t)) /\ QuietOnce(Attempts(t))
  /\ FailedOnce(Attempts(t)) /\ QuietOnce(Attempts(t)) /\ ~Raised(t) /\ t \notin flaky => Twice(t)

InHand ==
  /\ example.step # "none" => Message(example.id)
  /\ example.step = "rerun" => Going(example.id)
  /\ example.step = "finish" => /\ example.exception = DecidedBy(example.id)
                                /\ Marked(example.id)

Judged(t) ==
  /\ Mode # "new" /\ Unmarked(t) => status[t] = FirstAlone(t)
  /\ status[t] = "failed" <=> DecidedBy(t)
  /\ status[t] = "passed" => ~Caught(t) /\ ~Skipped(t)
  /\ status[t] = "quarantined_failed" => Caught(t)

Settled == \A t \in Examples : Attempted(t) => Judged(t) /\ Marked(t)

IInv == TypeOK /\ Turns /\ InHand /\ Settled

-----------------------------------------------------------------------------
(* What one attempt leaves on the example.                                 *)

LEMMA IdleHeld == Idle \in Held
BY DEF Idle, Held

\* Each field of the example after an attempt.
LEMMA AttemptLeaves ==
  ASSUME NEW e \in Held, ~e.exception, NEW t \in Examples, NEW a \in Attempt,
         NEW r, r = AfterAttempt(e, t, a)
  PROVE  /\ r \in Held /\ r.id = t
         /\ r.exception = (Leaves(t, a) \/ a.raises)
         /\ r.message = (IF Absorbs(t, a) THEN "quarantine"
                         ELSE IF a.ends = "skipped" THEN "author" ELSE e.message)
         /\ r.noted = ((e.noted \/ Absorbs(t, a)) /\ (Leaves(t, a) \/ a.raises))
         /\ ~a.raises => r.outcomes = e.outcomes \cup
              {IF Leaves(t, a) \/ e.noted \/ Absorbs(t, a) THEN "failed" ELSE "passed"}
         /\ r.step = e.step /\ r.initial = e.initial /\ r.firstFailure = e.firstFailure
         /\ r.executions = e.executions
<1>1. Absorbs(t, a) \in BOOLEAN /\ Leaves(t, a) \in BOOLEAN /\ a.raises \in BOOLEAN
  BY DEF Absorbs, Leaves, Attempt
<1>2. a.ends \in {"passed", "skipped", "failed", "late", "both"}
  BY DEF Attempt
<1> QED BY <1>1, <1>2 DEF AfterAttempt, Held

\* An attempt is quiet or failed in fact, and which one it is shows.
LEMMA OneOrTheOther ==
  ASSUME NEW t \in Examples, NEW a \in Attempt
  PROVE  /\ (Leaves(t, a) \/ Absorbs(t, a)) <=> a.ends \in {"failed", "late", "both"}
         /\ a.ends \in {"failed", "late", "both"} \/ a.ends \in {"passed", "skipped"}
         /\ Absorbs(t, a) /\ Leaves(t, a) => a.ends = "both"
BY DEF Leaves, Absorbs, Attempt

-----------------------------------------------------------------------------
(* The steps that leave every example as it is.                            *)

\* What is known of the examples speaks of nothing else.
LEMMA QuietKeeps ==
  ASSUME InHand, Settled, UNCHANGED <<tests, env, quarantined>>
  PROVE  InHand' /\ Settled'
<1>1. /\ UNCHANGED <<status, example, flaky, seen>>
      /\ Mode' = Mode
  BY DEF tests, Mode
<1>2. ASSUME NEW t PROVE /\ Attempts(t)' = Attempts(t) /\ Caught(t)' = Caught(t)
                         /\ Skipped(t)' = Skipped(t) /\ Twice(t)' = Twice(t)
                         /\ Raised(t)' = Raised(t) /\ Attempted(t)' = Attempted(t)
  BY <1>1 DEF Attempts, Caught, Skipped, Twice, Raised, Attempted, Absorbs
<1>3. ASSUME NEW t, NEW A PROVE Left(t, A)' = Left(t, A)
  BY <1>1 DEF Left, Leaves, Absorbs
<1>4. ASSUME NEW t PROVE DecidedBy(t)' = DecidedBy(t) /\ Marked(t)' = Marked(t)
  BY <1>1, <1>2 DEF DecidedBy, Marked, Left, Leaves, Absorbs, Mode, FailedOnce, QuietOnce
<1>5. ASSUME NEW t PROVE Message(t)' = Message(t)
  BY <1>1, <1>2 DEF Message, Calm, FirstMessage, Absorbs
<1>10. ASSUME NEW t PROVE Unmarked(t)' = Unmarked(t) /\ FirstAlone(t)' = FirstAlone(t)
  BY <1>1 DEF Unmarked, FirstAlone, Leaves, Absorbs
<1>8. ASSUME NEW t PROVE Going(t)' = Going(t)
  BY <1>1 DEF Going, Attempts, Raised, Twice, Left, Leaves, Absorbs, FailedOnce, QuietOnce
<1>9. ASSUME NEW t PROVE Judged(t)' = Judged(t)
  BY <1>1, <1>2, <1>4, <1>10 DEF Judged
<1>6. InHand'
  BY <1>1, <1>4, <1>5, <1>8 DEF InHand
<1>7. Settled'
  BY <1>1, <1>2, <1>4, <1>9 DEF Settled
<1> QED BY <1>6, <1>7

\* A group that is begun or done never waits again.
LEMMA QuietTurns ==
  ASSUME TypeOK, Turns, UNCHANGED <<tests, filtered, keep>>,
         \A g \in Groups : group'[g] = "waiting" => group[g] = "waiting",
         phase' \in {"loaded", "selected"} => \A g \in Groups : group'[g] = "waiting"
  PROVE  Turns'
<1>1. UNCHANGED <<status, example, flaky, seen>> /\ ToRun' = ToRun
  BY DEF tests, ToRun
<1>2. \A t \in Examples : GroupOf[t] \in Groups
  BY RSpecConstants
<1>3. example.step # "none" => group'[GroupOf[example.id]] # "waiting"
  BY <1>2 DEF Turns
<1>4. \A t \in Examples : group'[GroupOf[t]] = "waiting" => group[GroupOf[t]] = "waiting"
  BY <1>2
<1> QED BY <1>1, <1>3, <1>4 DEF Turns

\* Before the suite, no example is begun.
LEMMA NothingBegun ==
  ASSUME TypeOK, Turns, phase \in {"loaded", "selected"}
  PROVE  /\ example = Idle
         /\ \A t \in Examples : seen[t].first = {} /\ status[t] = "none"
<1>1. \A t \in Examples : group[GroupOf[t]] = "waiting"
  BY RSpecConstants DEF Turns
<1> QED BY <1>1 DEF Turns

LEMMA InitIInv == ASSUME Init PROVE IInv
<1>1. /\ phase = "loaded" /\ attached = FALSE /\ selection = NoSelection /\ keep = Everything
      /\ echo = NoEcho /\ session = {} /\ group = [g \in Groups |-> "waiting"]
      /\ status = [t \in Examples |-> "none"] /\ quit = FALSE /\ outside = FALSE
      /\ interrupted = FALSE /\ example = Idle /\ flaky = {}
      /\ seen = [t \in Examples |-> Unseen] /\ receipt = "none" /\ red = FALSE
      /\ env \in Environments /\ filtered \in Filters
      /\ context \in {NoContext} \cup Contexts /\ quarantined \in {{}} \cup Quarantines
  BY DEF Init
<1>2. TypeOK
  BY <1>1, IdleHeld DEF TypeOK, Held, NoSelection, Selections, NotApplied, Statuses, Unseen
<1>3. Turns
  BY <1>1 DEF Turns, Idle, Unseen, ToRun
<1>4. InHand /\ Settled
  BY <1>1 DEF InHand, Settled, Idle, Attempted
<1> QED BY <1>2, <1>3, <1>4 DEF IInv

\* What asking comes to is a selection, and what it leaves to run some ids.
LEMMA AskedTyped ==
  ASSUME NEW asked \in {NoSelection} \cup {TestSelection(r) : r \in Answers}
  PROVE  /\ Resolve(asked) \in [selection : Selections \cup {"none"}, tests : SUBSET Ids,
                                served : BOOLEAN, notApplied : NotApplied]
         /\ KeepOf(asked) \in {Everything} \cup SUBSET Ids
<1> DEFINE Asked == [selection : Selections \cup {"none"}, tests : SUBSET Ids,
                     served : BOOLEAN, notApplied : NotApplied]
<1>1. NoSelection \in Asked
  BY DEF NoSelection, Selections, NotApplied
<1>2. ASSUME NEW r \in Answers PROVE TestSelection(r) \in Asked
  <2>1. r \in Response
    BY RSpecConstants
  <2> QED BY <2>1, <1>1 DEF TestSelection, Response, Selections, NotApplied, NoSelection
<1>3. asked \in Asked
  BY <1>1, <1>2
<1>4. Resolve(asked) \in Asked
  BY <1>3 DEF Resolve, NotApplied
<1>5. KeepOf(asked) \in {Everything} \cup SUBSET Ids
  BY <1>3 DEF KeepOf
<1> QED BY <1>4, <1>5

LEMMA SelectIInv ==
  ASSUME IInv, NEW asked \in {NoSelection} \cup {TestSelection(r) : r \in Answers},
         SelectExamples(asked)
  PROVE  IInv'
<1>1. /\ phase = "loaded" /\ phase' = "selected" /\ attached' = TRUE
      /\ selection' = Resolve(asked) /\ keep' = KeepOf(asked) /\ quit' \in BOOLEAN
      /\ UNCHANGED <<learnt, session, group, outside, interrupted, tests, ending>>
  BY DEF SelectExamples
<1>2. TypeOK'
  BY <1>1, AskedTyped DEF IInv, TypeOK, learnt, tests, ending
<1>3. Turns'
  <2>1. /\ example = Idle
        /\ \A t \in Examples : seen[t].first = {} /\ status[t] = "none"
    BY <1>1, NothingBegun DEF IInv
  <2> QED BY <1>1, <2>1 DEF IInv, Turns, tests, Idle
<1>4. InHand' /\ Settled'
  BY <1>1, QuietKeeps DEF IInv, learnt
<1> QED BY <1>2, <1>3, <1>4 DEF IInv

LEMMA SuiteHooksIInv ==
  ASSUME IInv, EarlierHookFails \/ SuiteStarts \/ LaterHookFails
  PROVE  IInv'
<1>1. /\ phase' = "running" /\ UNCHANGED <<learnt, decided, group, interrupted, tests, ending>>
      /\ quit' \in BOOLEAN /\ outside' \in BOOLEAN /\ session' \in {{}, Examples}
  BY DEF EarlierHookFails, SuiteStarts, LaterHookFails, world, IInv, TypeOK
<1>2. TypeOK'
  BY <1>1 DEF IInv, TypeOK, learnt, decided, tests, ending
<1>3. Turns'
  BY <1>1, QuietTurns DEF IInv, learnt, decided
<1>4. InHand' /\ Settled'
  BY <1>1, QuietKeeps DEF IInv, learnt
<1> QED BY <1>2, <1>3, <1>4 DEF IInv

LEMMA GroupsIInv ==
  ASSUME IInv,
         \/ \E g \in Groups : StartGroup(g) \/ \E fails \in BOOLEAN : FinishGroup(g, fails)
         \/ Interrupt
  PROVE  IInv'
<1>1. /\ phase' = "running" /\ UNCHANGED <<learnt, decided, session, tests, ending>>
      /\ quit' \in BOOLEAN /\ outside' \in BOOLEAN /\ interrupted' \in BOOLEAN
      /\ \/ UNCHANGED group
         \/ \E g \in Groups : group' = [group EXCEPT ![g] = "open"]
         \/ \E g \in Groups : group' = [group EXCEPT ![g] = "done"]
  BY DEF StartGroup, FinishGroup, Interrupt, MayOpen, IInv, TypeOK
<1>2. /\ group' \in [Groups -> {"waiting", "open", "done"}]
      /\ \A g \in Groups : group'[g] = "waiting" => group[g] = "waiting"
  BY <1>1 DEF IInv, TypeOK
<1>3. TypeOK'
  BY <1>1, <1>2 DEF IInv, TypeOK, learnt, decided, tests, ending
<1>4. Turns'
  BY <1>1, <1>2, QuietTurns DEF IInv, learnt, decided
<1>5. InHand' /\ Settled'
  BY <1>1, QuietKeeps DEF IInv, learnt
<1> QED BY <1>3, <1>4, <1>5 DEF IInv

LEMMA RunEndIInv ==
  ASSUME IInv, NEW fails \in BOOLEAN, NEW how \in {"sent", "truncated", "dormant", "error"},
         RunEnd(fails, how)
  PROVE  IInv'
<1>1. /\ phase' = "ended" /\ UNCHANGED <<learnt, decided, session, group, quit, interrupted, tests>>
      /\ outside' \in BOOLEAN /\ receipt' \in {"none", "withheld", how} /\ red' \in BOOLEAN
  BY DEF RunEnd, SendSessionVerdict, EndsRed, IInv, TypeOK
<1>2. TypeOK'
  BY <1>1 DEF IInv, TypeOK, learnt, decided, tests
<1>3. Turns'
  BY <1>1, QuietTurns DEF IInv, learnt, decided
<1>4. InHand' /\ Settled'
  BY <1>1, QuietKeeps DEF IInv, learnt
<1> QED BY <1>2, <1>3, <1>4 DEF IInv

LEMMA StutterIInv ==
  ASSUME IInv, UNCHANGED vars
  PROVE  IInv'
<1>1. UNCHANGED <<learnt, phase, decided, session, world, tests, ending>>
  BY DEF vars
<1>2. TypeOK'
  BY <1>1 DEF IInv, TypeOK, learnt, decided, world, tests, ending
<1>3. Turns'
  BY <1>1, QuietTurns DEF IInv, learnt, decided, world, Turns
<1>4. InHand' /\ Settled'
  BY <1>1, QuietKeeps DEF IInv, learnt
<1> QED BY <1>2, <1>3, <1>4 DEF IInv

-----------------------------------------------------------------------------
(* The steps that report an example or make an attempt at one.             *)

\* What is held of one example stays, as long as nothing of it changes.
LEMMA ExampleStays ==
  ASSUME UNCHANGED <<env, quarantined>>, NEW t \in Examples,
         seen'[t] = seen[t], t \in flaky' <=> t \in flaky
  PROVE  /\ DecidedBy(t)' <=> DecidedBy(t)
         /\ Marked(t)' <=> Marked(t)
         /\ Caught(t)' <=> Caught(t)
         /\ Skipped(t)' <=> Skipped(t)
         /\ Unmarked(t)' <=> Unmarked(t)
         /\ FirstAlone(t)' = FirstAlone(t)
         /\ Mode' = Mode
<1>1. Mode' = Mode
  BY DEF Mode
<1>2. Attempts(t)' = Attempts(t)
  BY DEF Attempts
<1>3. DecidedBy(t)' <=> DecidedBy(t)
  BY <1>1, <1>2 DEF DecidedBy, Raised, Left, Leaves, Absorbs
<1>4. Marked(t)' <=> Marked(t)
  BY <1>2 DEF Marked, Raised, Twice, FailedOnce, QuietOnce
<1>5. (Caught(t)' <=> Caught(t)) /\ (Skipped(t)' <=> Skipped(t))
  BY <1>2 DEF Caught, Skipped, Absorbs
<1>6. Unmarked(t)' <=> Unmarked(t)
  BY DEF Unmarked, Absorbs
<1>7. FirstAlone(t)' = FirstAlone(t)
  BY DEF FirstAlone, Leaves, Absorbs
<1> QED BY <1>1, <1>3, <1>4, <1>5, <1>6, <1>7

LEMMA OthersSettled ==
  ASSUME Settled, UNCHANGED <<env, quarantined>>, NEW t \in Examples,
         seen'[t] = seen[t], status'[t] = status[t], t \in flaky' <=> t \in flaky, Attempted(t)'
  PROVE  Judged(t)' /\ Marked(t)'
<1>1. Attempted(t)
  BY DEF Attempted
<1>2. Judged(t) /\ Marked(t)
  BY <1>1 DEF Settled
<1>3. Judged(t)'
  BY <1>2, ExampleStays DEF Judged
<1> QED BY <1>2, <1>3, ExampleStays

LEMMA SkipIInv ==
  ASSUME IInv, NEW t \in Examples, SkipExample(t)
  PROVE  IInv'
<1>1. /\ status' = [status EXCEPT ![t] = "skipped"] /\ example = Idle /\ status[t] = "none"
      /\ t \in ToRun /\ group[GroupOf[t]] = "open" /\ phase = "running"
      /\ UNCHANGED <<env, context, quarantined, filtered, phase, attached, selection, keep, session,
                     group, quit, outside, interrupted, example, flaky, seen, receipt, red>>
  BY DEF SkipExample, InTurn, learnt, decided, world, ending
<1>2. TypeOK'
  BY <1>1 DEF IInv, TypeOK, Statuses
<1>3. example.step = "none" /\ seen[t].first = {} /\ ToRun' = ToRun
  BY <1>1 DEF IInv, Turns, Idle, ToRun
<1>4. \A u \in Examples : status'[u] = IF u = t THEN "skipped" ELSE status[u]
  BY <1>1 DEF IInv, TypeOK
<1>5. Turns'
  BY <1>1, <1>3, <1>4 DEF IInv, Turns
<1>6. InHand'
  BY <1>1, <1>3 DEF InHand
<1>7. Settled'
  <2> SUFFICES ASSUME NEW u \in Examples, Attempted(u)' PROVE Judged(u)' /\ Marked(u)'
    BY DEF Settled
  <2>1. u # t
    BY <1>1, <1>3 DEF Attempted
  <2> QED BY <1>1, <1>4, <2>1, OthersSettled DEF IInv
<1> QED BY <1>2, <1>5, <1>6, <1>7 DEF IInv

LEMMA ContextHookIInv ==
  ASSUME IInv, NEW g \in Groups, NEW result \in {"failed", "skipped"}, ContextHookRaises(g, result)
  PROVE  IInv'
<1>1. /\ group[g] = "waiting" /\ group' = [group EXCEPT ![g] = "done"] /\ phase = "running"
      /\ status' = [t \in Examples |-> IF t \in KeptIn(g) THEN result ELSE status[t]]
      /\ quit' \in BOOLEAN
      /\ UNCHANGED <<env, context, quarantined, filtered, phase, attached, selection, keep, session,
                     outside, interrupted, example, flaky, seen, receipt, red>>
  BY DEF ContextHookRaises, MayOpen, learnt, decided, ending
<1>2. TypeOK'
  BY <1>1 DEF IInv, TypeOK, Statuses
<1>3. \A t \in KeptIn(g) : seen[t].first = {} /\ status[t] = "none" /\ group'[GroupOf[t]] = "done" /\ t \in ToRun
  <2>1. \A t \in KeptIn(g) : t \in Examples /\ GroupOf[t] = g /\ t \in ToRun
    BY RSpecConstants DEF KeptIn, ToRun, IInv, TypeOK
  <2> QED BY <1>1, <2>1 DEF IInv, Turns, TypeOK
<1>4. \A h \in Groups : group'[h] = "waiting" => group[h] = "waiting"
  BY <1>1 DEF IInv, TypeOK
<1>5. Turns'
  <2>1. ToRun' = ToRun
    BY <1>1 DEF ToRun
  <2>2. \A t \in Examples : GroupOf[t] \in Groups
    BY RSpecConstants
  <2>3. example.step # "none" => example.id \notin KeptIn(g)
    BY <1>3 DEF IInv, Turns
  <2> QED BY <1>1, <1>3, <1>4, <2>1, <2>2, <2>3 DEF IInv, Turns
<1>6. InHand'
  <2>1. example.step # "none" => example.id \in Examples
    BY DEF IInv, Turns
  <2>2. UNCHANGED <<env, quarantined, seen, flaky, example>>
    BY <1>1
  <2>3. \A t \in Examples : /\ DecidedBy(t)' <=> DecidedBy(t)
                            /\ Marked(t)' <=> Marked(t)
                            /\ Caught(t)' <=> Caught(t)
                            /\ Skipped(t)' <=> Skipped(t)
    BY <2>2, ExampleStays
  <2>4. ASSUME NEW t \in Examples PROVE Message(t)' = Message(t) /\ Going(t)' = Going(t)
    BY <2>2, <2>3 DEF Message, Calm, FirstMessage, Going, Attempts, Raised, Twice, Left, Leaves, Absorbs, FailedOnce,
                      QuietOnce
  <2>5. (example.exception = DecidedBy(example.id))' = (example.exception = DecidedBy(example.id))
    BY <2>2 DEF DecidedBy, Raised, Left, Leaves, Absorbs, Mode, Attempts
  <2> QED BY <2>1, <2>2, <2>3, <2>4, <2>5 DEF IInv, InHand
<1>7. Settled'
  <2> SUFFICES ASSUME NEW u \in Examples, Attempted(u)' PROVE Judged(u)' /\ Marked(u)'
    BY DEF Settled
  <2>1. u \notin KeptIn(g)
    BY <1>1, <1>3 DEF Attempted
  <2> QED BY <1>1, <2>1, OthersSettled DEF IInv
<1> QED BY <1>2, <1>5, <1>6, <1>7 DEF IInv

LEMMA FinishIInv ==
  ASSUME IInv, FinishExample
  PROVE  IInv'
<1> DEFINE t == example.id
<1>1. /\ example.step = "finish" /\ example' = Idle /\ quit' \in BOOLEAN /\ phase = "running"
      /\ status' = [status EXCEPT ![t] = ResultOf(example)]
      /\ UNCHANGED <<env, context, quarantined, filtered, phase, attached, selection, keep, session,
                     group, outside, interrupted, flaky, seen, receipt, red>>
  BY DEF FinishExample, learnt, decided, ending, IInv, TypeOK
<1>2. /\ t \in Examples /\ seen[t].first # {} /\ t \in ToRun /\ group[GroupOf[t]] # "waiting"
      /\ Message(t) /\ example.exception = DecidedBy(t) /\ Marked(t)
  BY <1>1 DEF IInv, Turns, InHand
<1>3. \A u \in Examples : status'[u] = IF u = t THEN ResultOf(example) ELSE status[u]
  BY <1>1 DEF IInv, TypeOK
<1>4. ResultOf(example) \in {"passed", "failed", "skipped", "quarantined_failed"}
  BY DEF ResultOf
<1>5. TypeOK'
  <2>1. status' \in [Examples -> Statuses]
    BY <1>1, <1>4 DEF IInv, TypeOK, Statuses
  <2>2. example' \in Held
    BY <1>1, IdleHeld
  <2> QED BY <1>1, <2>1, <2>2 DEF IInv, TypeOK, Held
<1>6. Turns'
  <2>1. ToRun' = ToRun
    BY <1>1 DEF ToRun
  <2> QED BY <1>1, <1>2, <1>3, <1>4, <2>1 DEF IInv, Turns, Idle
<1>7. InHand'
  BY <1>1 DEF InHand, Idle
<1>8. Settled'
  <2> SUFFICES ASSUME NEW u \in Examples, Attempted(u)' PROVE Judged(u)' /\ Marked(u)'
    BY DEF Settled
  <2>1. CASE u # t
    BY <1>1, <1>3, <2>1, OthersSettled DEF IInv
  <2>2. CASE u = t
    <3>1. /\ DecidedBy(u)' <=> DecidedBy(u)
          /\ Marked(u)' <=> Marked(u)
          /\ Caught(u)' <=> Caught(u)
          /\ Skipped(u)' <=> Skipped(u)
          /\ Unmarked(u)' <=> Unmarked(u)
          /\ FirstAlone(u)' = FirstAlone(u)
          /\ Mode' = Mode
      BY <1>1, ExampleStays
    <3>2. status'[u] = ResultOf(example)
      BY <1>3, <2>2
    <3>3. example.message \in {"none", "author", "quarantine"} /\ example.exception \in BOOLEAN
      BY DEF IInv, TypeOK
    <3>4. ASSUME Mode # "new", Unmarked(u) PROVE ResultOf(example) = FirstAlone(u)
      <4>1. Calm(u) /\ example.message = FirstMessage(u)
        BY <1>2, <2>2, <3>4 DEF Unmarked, Calm, Message
      <4>2. example.exception = \E a \in seen[u].first : a.raises \/ Leaves(u, a)
        BY <1>2, <2>2, <3>3, <3>4 DEF DecidedBy, Raised, Left, Unmarked
      <4> QED BY <4>1, <4>2 DEF ResultOf, FirstAlone, FirstMessage
    <3>5. Judged(u)'
      BY <1>2, <2>2, <3>1, <3>2, <3>3, <3>4 DEF Judged, ResultOf, Message
    <3> QED BY <1>2, <2>2, <3>1, <3>5
  <2> QED BY <2>1, <2>2
<1> QED BY <1>5, <1>6, <1>7, <1>8 DEF IInv

LEMMA FirstAttemptIInv ==
  ASSUME IInv, NEW t \in Examples, NEW a \in Attempt, NEW slow \in BOOLEAN, FirstAttempt(t, a, slow)
  PROVE  IInv'
<1> DEFINE e == AfterAttempt(Idle, t, a)
           next == IF WantsRerun(t) /\ ~a.raises /\ ~slow THEN "rerun" ELSE "finish"
<1>1. /\ example' = [e EXCEPT !.step = next, !.initial = e.exception,
                              !.firstFailure = e.exception, !.executions = 1]
      /\ example = Idle /\ status[t] = "none" /\ t \in ToRun /\ group[GroupOf[t]] = "open"
      /\ phase = "running"
      /\ seen' = [seen EXCEPT ![t].first = {a}]
      /\ UNCHANGED <<env, context, quarantined, filtered, phase, attached, selection, keep, session,
                     group, quit, outside, interrupted, status, flaky, receipt, red>>
  BY DEF FirstAttempt, InTurn, learnt, decided, world, ending
<1>2. /\ e \in Held /\ e.id = t
      /\ e.exception = (Leaves(t, a) \/ a.raises)
      /\ e.message = (IF Absorbs(t, a) THEN "quarantine"
                      ELSE IF a.ends = "skipped" THEN "author" ELSE "none")
      /\ e.noted = (Absorbs(t, a) /\ (Leaves(t, a) \/ a.raises))
      /\ ~a.raises => e.outcomes = {IF Leaves(t, a) \/ Absorbs(t, a) THEN "failed" ELSE "passed"}
  <2>1. Idle \in Held /\ ~Idle.exception /\ Idle.message = "none" /\ ~Idle.noted /\ Idle.outcomes = {}
    BY IdleHeld DEF Idle
  <2> HIDE DEF e
  <2>2. e = AfterAttempt(Idle, t, a)
    BY DEF e
  <2> QED BY <2>1, <2>2, AttemptLeaves
<1> HIDE DEF e
<1>3. /\ example' \in Held /\ example'.id = t /\ example'.step = next
      /\ example'.exception = (Leaves(t, a) \/ a.raises)
      /\ example'.initial = (Leaves(t, a) \/ a.raises)
      /\ example'.firstFailure = (Leaves(t, a) \/ a.raises)
      /\ example'.message = e.message /\ example'.noted = e.noted /\ example'.outcomes = e.outcomes
      /\ next \in {"rerun", "finish"} /\ (next = "rerun" => ~a.raises)
  BY <1>1, <1>2 DEF Held
<1> HIDE DEF next
<1>4. /\ example.step = "none" /\ seen[t].first = {} /\ seen[t].later = {} /\ t \notin flaky
  BY <1>1 DEF IInv, Turns, Idle
<1>5. /\ seen' \in [Examples -> [first : SUBSET Attempt, later : SUBSET Attempt]]
      /\ seen'[t].first = {a} /\ seen'[t].later = {}
      /\ \A u \in Examples : u # t => seen'[u] = seen[u]
  BY <1>1, <1>4 DEF IInv, TypeOK
<1>6. TypeOK'
  BY <1>1, <1>3, <1>5 DEF IInv, TypeOK, Held
<1>7. Turns'
  <2>1. ToRun' = ToRun
    BY <1>1 DEF ToRun
  <2>2. example' # Idle
    BY <1>3 DEF Idle
  <2> QED BY <1>1, <1>3, <1>4, <1>5, <2>1, <2>2 DEF IInv, Turns
<1>8. /\ Attempts(t)' = {a}
      /\ Raised(t)' <=> a.raises
      /\ Left(t, Attempts(t))' <=> Leaves(t, a)
      /\ Left(t, seen[t].first)' <=> Leaves(t, a)
      /\ Caught(t)' <=> Absorbs(t, a)
      /\ Skipped(t)' <=> a.ends = "skipped"
      /\ Twice(t)' <=> a.ends = "both"
      /\ FailedOnce(Attempts(t))' <=> a.ends \in {"failed", "late", "both"}
      /\ QuietOnce(Attempts(t))' <=> a.ends \in {"passed", "skipped"}
  BY <1>1, <1>5 DEF Attempts, Raised, Left, Leaves, Caught, Absorbs, Skipped, Twice, FailedOnce, QuietOnce
<1>9. DecidedBy(t)' <=> Leaves(t, a) \/ a.raises
  BY <1>8 DEF DecidedBy
<1>10. InHand'
  <2>1. Message(t)'
    <3>1. FirstMessage(t)' = IF Absorbs(t, a) THEN "quarantine"
                             ELSE IF a.ends = "skipped" THEN "author" ELSE "none"
      BY <1>1, <1>5 DEF FirstMessage, Absorbs
    <3> QED BY <1>2, <1>3, <1>8, <3>1 DEF Message, Idle
  <2>2. ASSUME example'.step = "rerun" PROVE Going(t)'
    <3>1. ~a.raises
      BY <1>3, <2>2
    <3>2. ~Raised(t)' /\ t \notin flaky'
      BY <1>1, <1>4, <1>8, <3>1
    <3>3. Left(t, Attempts(t))' \in BOOLEAN /\ Left(t, seen[t].first)' \in BOOLEAN
      BY DEF Left
    <3>4. /\ example'.initial = Left(t, seen[t].first)'
          /\ example'.firstFailure = Left(t, Attempts(t))'
      BY <1>3, <1>8, <3>1, <3>3 DEF Leaves
    <3>5. example'.outcomes = {IF Leaves(t, a) \/ Absorbs(t, a) THEN "failed" ELSE "passed"}
      BY <1>2, <1>3, <3>1
    <3>6. /\ "passed" \in example'.outcomes <=> ~(Leaves(t, a) \/ Absorbs(t, a))
          /\ "failed" \in example'.outcomes <=> Leaves(t, a) \/ Absorbs(t, a)
      BY <3>5
    <3>7. example'.noted => Twice(t)'
      BY <1>2, <1>3, <1>8, <3>1, OneOrTheOther
    <3> QED BY <1>8, <3>2, <3>4, <3>6, <3>7, OneOrTheOther DEF Going
  <2>3. Marked(t)'
    BY <1>1, <1>4, <1>8, OneOrTheOther DEF Marked
  <2>4. example'.exception = DecidedBy(t)'
    <3>1. DecidedBy(t)' \in BOOLEAN
      BY DEF DecidedBy, Raised, Left, Leaves, Absorbs
    <3> QED BY <1>3, <1>9, <3>1
  <2> QED BY <1>3, <2>1, <2>2, <2>3, <2>4 DEF InHand
<1>11. Settled'
  <2> SUFFICES ASSUME NEW u \in Examples, Attempted(u)' PROVE Judged(u)' /\ Marked(u)'
    BY DEF Settled
  <2>1. u # t
    BY <1>1 DEF Attempted
  <2> QED BY <1>1, <1>5, <2>1, OthersSettled DEF IInv
<1> QED BY <1>6, <1>7, <1>10, <1>11 DEF IInv

\* What one more attempt adds to what an example's attempts say.
LEMMA OneMore ==
  ASSUME UNCHANGED <<env, quarantined>>, NEW t \in Examples, NEW a \in Attempt,
         seen'[t].first = seen[t].first, seen'[t].later = seen[t].later \cup {a}
  PROVE  /\ Raised(t)' <=> Raised(t) \/ a.raises
         /\ Left(t, Attempts(t))' <=> Left(t, Attempts(t)) \/ Leaves(t, a)
         /\ Left(t, seen[t].first)' <=> Left(t, seen[t].first)
         /\ Caught(t)' <=> Caught(t) \/ Absorbs(t, a)
         /\ Skipped(t)' <=> Skipped(t) \/ a.ends = "skipped"
         /\ Twice(t)' <=> Twice(t) \/ a.ends = "both"
         /\ FailedOnce(Attempts(t))' <=> FailedOnce(Attempts(t)) \/ a.ends \in {"failed", "late", "both"}
         /\ QuietOnce(Attempts(t))' <=> QuietOnce(Attempts(t)) \/ a.ends \in {"passed", "skipped"}
         /\ Calm(t)' <=> Calm(t) /\ ~Absorbs(t, a) /\ a.ends # "skipped"
         /\ FirstMessage(t)' = FirstMessage(t)
         /\ Mode' = Mode
<1>1. /\ Attempts(t)' = Attempts(t) \cup {a} /\ quarantined' = quarantined /\ Mode' = Mode
  BY DEF Attempts, Mode
<1>2. Raised(t)' <=> Raised(t) \/ a.raises
  BY DEF Raised
<1>3. \A A : Left(t, A)' <=> Left(t, A)
  BY <1>1 DEF Left, Leaves, Absorbs
<1>4. Left(t, Attempts(t))' <=> Left(t, Attempts(t)) \/ Leaves(t, a)
  BY <1>1 DEF Left, Leaves, Absorbs
<1>5. Left(t, seen[t].first)' <=> Left(t, seen[t].first)
  BY <1>1 DEF Left, Leaves, Absorbs
<1>6. /\ Caught(t)' <=> Caught(t) \/ Absorbs(t, a)
      /\ Skipped(t)' <=> Skipped(t) \/ a.ends = "skipped"
      /\ Twice(t)' <=> Twice(t) \/ a.ends = "both"
  BY <1>1 DEF Caught, Skipped, Twice, Absorbs
<1>7. /\ FailedOnce(Attempts(t))' <=> FailedOnce(Attempts(t)) \/ a.ends \in {"failed", "late", "both"}
      /\ QuietOnce(Attempts(t))' <=> QuietOnce(Attempts(t)) \/ a.ends \in {"passed", "skipped"}
  BY <1>1 DEF FailedOnce, QuietOnce
<1>8. Calm(t)' <=> Calm(t) /\ ~Absorbs(t, a) /\ a.ends # "skipped"
  BY DEF Calm, Absorbs
<1>9. FirstMessage(t)' = FirstMessage(t)
  BY DEF FirstMessage, Absorbs
<1> QED BY <1>1, <1>2, <1>4, <1>5, <1>6, <1>7, <1>8, <1>9

LEMMA RerunOf ==
  ASSUME IInv, NEW a \in Attempt, NEW expired \in BOOLEAN, Rerun(a, expired),
         NEW t \in Examples, t = example.id
  PROVE  IInv'
<1> DEFINE e == AfterAttempt(ResetForRerun(example), t, a)
           counted == [e EXCEPT !.firstFailure = @ \/ e.exception, !.executions = @ + 1]
           last == expired \/ example.executions + 1 >= context.max
<1>1. /\ phase = "running" /\ example.step = "rerun"
      /\ seen' = [seen EXCEPT ![t].later = @ \cup {a}]
      /\ IF a.raises
         THEN example' = [e EXCEPT !.step = "finish"] /\ UNCHANGED flaky
         ELSE IF ~last THEN example' = counted /\ UNCHANGED flaky
         ELSE /\ example' = [counted EXCEPT !.step = "finish", !.exception = Decides(counted)]
              /\ flaky' = IF {"passed", "failed"} \subseteq counted.outcomes THEN flaky \cup {t} ELSE flaky
      /\ UNCHANGED <<env, context, quarantined, filtered, phase, attached, selection, keep, session,
                     group, quit, outside, interrupted, status, receipt, red>>
  BY DEF Rerun, learnt, decided, world, ending
<1> HIDE DEF last
<1>2. /\ t \in Examples /\ status[t] = "none" /\ seen[t].first # {} /\ t \in ToRun
      /\ group[GroupOf[t]] # "waiting" /\ Message(t) /\ Going(t) /\ example \in Held
  BY <1>1 DEF IInv, Turns, InHand, TypeOK, Held
<1>3. /\ ResetForRerun(example) \in Held /\ ~ResetForRerun(example).exception
      /\ ResetForRerun(example).message = example.message /\ ResetForRerun(example).noted = example.noted
      /\ ResetForRerun(example).outcomes = example.outcomes /\ ResetForRerun(example).step = example.step
      /\ ResetForRerun(example).initial = example.initial
      /\ ResetForRerun(example).firstFailure = example.firstFailure
  BY <1>2 DEF ResetForRerun, Held
<1>4. /\ e \in Held /\ e.id = t
      /\ e.exception = (Leaves(t, a) \/ a.raises)
      /\ e.message = (IF Absorbs(t, a) THEN "quarantine"
                      ELSE IF a.ends = "skipped" THEN "author" ELSE example.message)
      /\ e.noted = ((example.noted \/ Absorbs(t, a)) /\ (Leaves(t, a) \/ a.raises))
      /\ ~a.raises => e.outcomes = example.outcomes \cup
           {IF Leaves(t, a) \/ example.noted \/ Absorbs(t, a) THEN "failed" ELSE "passed"}
      /\ e.step = "rerun" /\ e.initial = example.initial /\ e.firstFailure = example.firstFailure
  <2> HIDE DEF e
  <2>1. e = AfterAttempt(ResetForRerun(example), t, a)
    BY DEF e
  <2> QED BY <1>1, <1>2, <1>3, <2>1, AttemptLeaves
<1> HIDE DEF e
<1>5. /\ counted \in Held /\ counted.id = t /\ counted.exception = e.exception
      /\ counted.message = e.message /\ counted.noted = e.noted /\ counted.outcomes = e.outcomes
      /\ counted.step = "rerun" /\ counted.initial = e.initial
      /\ counted.firstFailure = (e.firstFailure \/ e.exception)
  <2> DEFINE f == e.firstFailure \/ e.exception
  <2>1. f \in BOOLEAN
    BY <1>4 DEF Held
  <2> DEFINE g == [e EXCEPT !.firstFailure = f]
             n == e.executions + 1
  <2>2. counted = [g EXCEPT !.executions = n] /\ n \in Nat
    BY <1>4 DEF Held
  <2> HIDE DEF f, counted, n
  <2>4. /\ g \in Held /\ g.id = t /\ g.exception = e.exception
        /\ g.message = e.message /\ g.noted = e.noted /\ g.outcomes = e.outcomes
        /\ g.step = "rerun" /\ g.initial = e.initial /\ g.firstFailure = f
    BY <1>4, <2>1 DEF Held
  <2> HIDE DEF g
  <2>3. /\ counted \in Held /\ counted.id = t /\ counted.exception = e.exception
        /\ counted.message = e.message /\ counted.noted = e.noted /\ counted.outcomes = e.outcomes
        /\ counted.step = "rerun" /\ counted.initial = e.initial /\ counted.firstFailure = f
    BY <2>2, <2>4 DEF Held
  <2> QED BY <2>3 DEF f
<1> HIDE DEF counted
<1>6. /\ seen' \in [Examples -> [first : SUBSET Attempt, later : SUBSET Attempt]]
      /\ seen'[t].first = seen[t].first /\ seen'[t].later = seen[t].later \cup {a}
      /\ \A u \in Examples : u # t => seen'[u] = seen[u]
  BY <1>1, <1>2 DEF IInv, TypeOK
<1>7. /\ Raised(t)' <=> Raised(t) \/ a.raises
      /\ Left(t, Attempts(t))' <=> Left(t, Attempts(t)) \/ Leaves(t, a)
      /\ Left(t, seen[t].first)' <=> Left(t, seen[t].first)
      /\ Caught(t)' <=> Caught(t) \/ Absorbs(t, a)
      /\ Skipped(t)' <=> Skipped(t) \/ a.ends = "skipped"
      /\ Twice(t)' <=> Twice(t) \/ a.ends = "both"
      /\ FailedOnce(Attempts(t))' <=> FailedOnce(Attempts(t)) \/ a.ends \in {"failed", "late", "both"}
      /\ QuietOnce(Attempts(t))' <=> QuietOnce(Attempts(t)) \/ a.ends \in {"passed", "skipped"}
      /\ Calm(t)' <=> Calm(t) /\ ~Absorbs(t, a) /\ a.ends # "skipped"
      /\ FirstMessage(t)' = FirstMessage(t)
      /\ Mode' = Mode
  BY <1>1, <1>2, <1>6, OneMore
<1>8. /\ Left(t, Attempts(t))' \in BOOLEAN /\ Left(t, seen[t].first)' \in BOOLEAN
      /\ Left(t, Attempts(t)) \in BOOLEAN /\ Left(t, seen[t].first) \in BOOLEAN
      /\ Leaves(t, a) \in BOOLEAN /\ DecidedBy(t)' \in BOOLEAN
  BY DEF Left, Leaves, DecidedBy, Raised
<1>9. Decides(counted) = (IF Mode = "new" THEN counted.firstFailure ELSE counted.initial)
  BY DEF Decides
<1>10. /\ example' \in Held /\ example'.id = t /\ example'.step \in {"rerun", "finish"}
       /\ example'.message = e.message
       /\ flaky' \in {flaky, flaky \cup {t}}
  <2> DEFINE d == Decides(counted)
  <2>1. d \in BOOLEAN
    BY <1>5, <1>9 DEF Held
  <2> HIDE DEF d
  <2>2. \/ example' = [e EXCEPT !.step = "finish"] \/ example' = counted
        \/ example' = [[counted EXCEPT !.step = "finish"] EXCEPT !.exception = d]
    BY <1>1 DEF d
  <2>3. CASE example' = [e EXCEPT !.step = "finish"]
    BY <1>1, <1>4, <2>3 DEF Held
  <2>4. CASE example' = counted
    BY <1>1, <1>5, <2>4
  <2>5. CASE example' = [[counted EXCEPT !.step = "finish"] EXCEPT !.exception = d]
    BY <1>1, <1>5, <2>1, <2>5 DEF Held
  <2> QED BY <2>2, <2>3, <2>4, <2>5
<1>11. TypeOK'
  <2>1. flaky' \subseteq Examples
    BY <1>2, <1>10 DEF IInv, TypeOK
  <2> QED BY <1>1, <1>6, <1>10, <2>1 DEF IInv, TypeOK, Held
<1>12. Turns'
  <2>1. ToRun' = ToRun
    BY <1>1 DEF ToRun
  <2>2. example' # Idle
    BY <1>10 DEF Idle
  <2>3. \A u \in Examples : u # t => (u \in flaky' <=> u \in flaky)
    BY <1>10
  <2> QED BY <1>1, <1>2, <1>6, <1>10, <2>1, <2>2, <2>3 DEF IInv, Turns
<1>13. Message(t)'
  BY <1>2, <1>4, <1>7, <1>10 DEF Message
<1>14. ASSUME ~a.raises
       PROVE  /\ ~Raised(t)'
              /\ counted.initial = Left(t, seen[t].first)'
              /\ counted.firstFailure = Left(t, Attempts(t))'
              /\ "passed" \in counted.outcomes => QuietOnce(Attempts(t))'
              /\ "failed" \in counted.outcomes => FailedOnce(Attempts(t))'
              /\ QuietOnce(Attempts(t))' => "passed" \in counted.outcomes \/ Twice(t)'
              /\ FailedOnce(Attempts(t))' => "failed" \in counted.outcomes
              /\ counted.noted => Twice(t)'
  <2>1. ~Raised(t)' /\ counted.initial = Left(t, seen[t].first)'
    BY <1>2, <1>4, <1>5, <1>7, <1>8, <1>14 DEF Going
  <2>2. counted.firstFailure = Left(t, Attempts(t))'
    BY <1>2, <1>4, <1>5, <1>7, <1>8, <1>14 DEF Going
  <2>3. /\ "passed" \in counted.outcomes <=>
             "passed" \in example.outcomes \/ ~(Leaves(t, a) \/ example.noted \/ Absorbs(t, a))
        /\ "failed" \in counted.outcomes <=>
             "failed" \in example.outcomes \/ Leaves(t, a) \/ example.noted \/ Absorbs(t, a)
    BY <1>4, <1>5, <1>14
  <2>4. Twice(t) => FailedOnce(Attempts(t))
    BY DEF Twice, FailedOnce
  <2>5. counted.noted => Twice(t)'
    BY <1>2, <1>4, <1>5, <1>7, <1>14, OneOrTheOther DEF Going
  <2> QED BY <1>2, <1>7, <2>1, <2>2, <2>3, <2>4, <2>5, OneOrTheOther DEF Going
<1>15. InHand'
  <2>1. CASE a.raises
    <3>1. /\ example'.step = "finish" /\ example'.exception = TRUE /\ t \notin flaky'
      BY <1>1, <1>2, <1>4, <2>1 DEF Going, Held
    <3>2. DecidedBy(t)' /\ Marked(t)'
      BY <1>7, <2>1, <3>1 DEF DecidedBy, Marked
    <3> QED BY <1>8, <1>10, <1>13, <3>1, <3>2 DEF InHand
  <2>2. CASE ~a.raises /\ ~last
    <3>1. example' = counted /\ example'.step = "rerun" /\ t \notin flaky'
      BY <1>1, <1>2, <1>5, <2>2 DEF Going
    <3>2. Going(t)'
      BY <1>14, <2>2, <3>1 DEF Going
    <3> QED BY <1>10, <1>13, <3>1, <3>2 DEF InHand
  <2>3. CASE ~a.raises /\ last
    <3>1. /\ example'.step = "finish"
          /\ example'.exception = (IF Mode = "new" THEN counted.firstFailure ELSE counted.initial)
          /\ flaky' = IF {"passed", "failed"} \subseteq counted.outcomes THEN flaky \cup {t} ELSE flaky
      BY <1>1, <1>5, <1>9, <2>3 DEF Held
    <3>2. DecidedBy(t)' <=> (IF Mode = "new" THEN Left(t, Attempts(t))' ELSE Left(t, seen[t].first)')
      BY <1>7, <1>14, <2>3 DEF DecidedBy
    <3>3. example'.exception = DecidedBy(t)'
      BY <1>8, <1>14, <2>3, <3>1, <3>2
    <3>4. Marked(t)'
      BY <1>2, <1>14, <2>3, <3>1 DEF Marked, Going
    <3> QED BY <1>10, <1>13, <3>1, <3>3, <3>4 DEF InHand
  <2> QED BY <2>1, <2>2, <2>3
<1>16. Settled'
  <2> SUFFICES ASSUME NEW u \in Examples, Attempted(u)' PROVE Judged(u)' /\ Marked(u)'
    BY DEF Settled
  <2>1. u # t
    BY <1>1, <1>2 DEF Attempted
  <2> QED BY <1>1, <1>6, <1>10, <2>1, OthersSettled DEF IInv
<1> QED BY <1>11, <1>12, <1>15, <1>16 DEF IInv

LEMMA RerunIInv ==
  ASSUME IInv, NEW a \in Attempt, NEW expired \in BOOLEAN, Rerun(a, expired)
  PROVE  IInv'
<1>1. example.id \in Examples
  BY DEF IInv, Turns, Rerun
<1> QED BY <1>1, RerunOf

LEMMA NextIInv == ASSUME IInv, [Next]_vars PROVE IInv'
<1>1. CASE Next
  <2>1. CASE DoesNotAsk
    BY <2>1, SelectIInv DEF DoesNotAsk
  <2>2. CASE \E response \in Answers : AsksForSelection(response)
    BY <2>2, SelectIInv DEF AsksForSelection
  <2>3. CASE EarlierHookFails \/ SuiteStarts \/ LaterHookFails
    BY <2>3, SuiteHooksIInv
  <2>4. CASE \/ \E g \in Groups : StartGroup(g)
             \/ \E g \in Groups, fails \in BOOLEAN : FinishGroup(g, fails)
             \/ Interrupt
    BY <2>4, GroupsIInv
  <2>5. CASE \E g \in Groups, result \in {"failed", "skipped"} : ContextHookRaises(g, result)
    BY <2>5, ContextHookIInv
  <2>6. CASE \E t \in Examples : SkipExample(t)
    BY <2>6, SkipIInv
  <2>7. CASE \E t \in Examples, a \in Attempt, slow \in BOOLEAN : FirstAttempt(t, a, slow)
    BY <2>7, FirstAttemptIInv
  <2>8. CASE \E a \in Attempt, expired \in BOOLEAN : Rerun(a, expired)
    BY <2>8, RerunIInv
  <2>9. CASE FinishExample
    BY <2>9, FinishIInv
  <2>10. CASE \E fails \in BOOLEAN, how \in {"sent", "truncated", "dormant", "error"} : RunEnd(fails, how)
    BY <2>10, RunEndIInv
  <2>11. CASE Ended
    BY <2>11, StutterIInv DEF Ended
  <2> QED BY <1>1, <2>1, <2>2, <2>3, <2>4, <2>5, <2>6, <2>7, <2>8, <2>9, <2>10, <2>11 DEF Next
<1>2. CASE UNCHANGED vars
  BY <1>2, StutterIInv
<1> QED BY <1>1, <1>2

LEMMA Invariance == Spec => []IInv
<1>1. Init => IInv
  BY InitIInv
<1>2. IInv /\ [Next]_vars => IInv'
  BY NextIInv
<1> QED BY <1>1, <1>2, PTL DEF Spec

-----------------------------------------------------------------------------
(* What follows for the examples.                                          *)

\* Each variable holds what its place in the code may hold.
THEOREM Types == Spec => []TypeOK
<1>1. IInv => TypeOK
  BY DEF IInv
<1> QED BY <1>1, Invariance, PTL

\* Which attempt decides: any that left an exception on a new example, the first
\* elsewhere (configuration.rb:159-161, 182), but for a rerun an around hook raised
\* in or one that left RSpec's pending note, which that comment does not foresee.
THEOREM Rule == Spec => []OneRuleDecides
<1>1. IInv => OneRuleDecides
  BY DEF IInv, Settled, Judged, OneRuleDecides, DecidedBy, Caught, Skipped, Attempts
<1> QED BY <1>1, Invariance, PTL

\* An example is called flaky when its attempts disagreed (configuration.rb:180),
\* but for the note a second failure leaves behind.
THEOREM Flaky == Spec => []FlakyIsEarned
<1>1. IInv => FlakyIsEarned
  BY DEF IInv, Settled, Marked, FlakyIsEarned, Twice, Attempts
<1> QED BY <1>1, Invariance, PTL

-----------------------------------------------------------------------------
(* What the end of the run is drawn from.                                  *)

\* What asking came to, and what it left to run.
Prepared ==
  /\ phase = "loaded" => keep = Everything /\ ~attached
  /\ keep # Everything => keep \subseteq filtered
  /\ selection.served => echo.kept = KeptCount(keep)
  /\ ~selection.served => keep = Everything
  /\ selection.selection = "subset" /\ selection.notApplied = "none" => keep = selection.tests
  /\ echo.notApplied = "none" /\ echo.answer \in {"subset", "empty"} => keep # Everything
  /\ echo.answer = "refused" => quit /\ filtered # {} /\ \A g \in Groups : group[g] = "waiting"

\* RSpec stops early for a reason, and leaves no example of a group behind otherwise.
Reasons ==
  /\ quit => interrupted \/ outside \/ echo.answer = "refused" \/ WithStatus("failed") # {}
  /\ ~quit => \A g \in Groups : group[g] = "done" => KeptIn(g) \subseteq Reported

EInv == Prepared /\ Reasons

LEMMA InitEInv == ASSUME Init PROVE EInv
BY DEF Init, EInv, Prepared, Reasons, NoSelection, NoEcho

\* The decision of a run that asked, and of one that did not.
LEMMA SelectEInv ==
  ASSUME NEW asked, IInv, SelectExamples(asked),
         asked = NoSelection \/ (Asks /\ \E r \in Answers : asked = TestSelection(r))
  PROVE  EInv'
<1> DEFINE Asked == [selection : Selections \cup {"none"}, tests : SUBSET Ids,
                     served : BOOLEAN, notApplied : NotApplied]
<1>1. /\ phase = "loaded" /\ phase' = "selected"
      /\ selection' = Resolve(asked) /\ keep' = KeepOf(asked)
      /\ echo' = IF ~asked.served THEN NoEcho
                 ELSE [answer |-> asked.selection, kept |-> KeptCount(keep'),
                       notApplied |-> selection'.notApplied]
      /\ quit' = (asked.notApplied = "none" /\ asked.selection = "refused")
      /\ UNCHANGED <<filtered, group, status>>
  BY DEF SelectExamples, learnt, tests
<1>2. \A g \in Groups : group'[g] = "waiting"
  BY <1>1 DEF IInv, Turns
<1>3. CASE asked = NoSelection
  <2>1. /\ keep' = Everything /\ selection' = NoSelection /\ echo' = NoEcho /\ quit' = FALSE
    BY <1>1, <1>3 DEF NoSelection, Resolve, KeepOf
  <2> QED BY <1>1, <1>2, <2>1 DEF EInv, Prepared, Reasons, NoSelection, NoEcho
<1>4. ASSUME Asks, NEW r \in Answers, asked = TestSelection(r)
      PROVE  EInv'
  <2>1. r \in Response /\ r.tests \subseteq Ids /\ \A S \in SUBSET Ids : Everything # S
    BY RSpecConstants DEF Response
  <2>2. /\ asked \in Asked /\ asked.selection # "none"
        /\ ~asked.served => asked.selection = "full" /\ asked.notApplied = "none"
        /\ asked.selection = "refused" => asked.served /\ asked.notApplied = "none"
    BY <1>4, <2>1 DEF TestSelection, Response, Selections, NotApplied, NoSelection
  <2>3. /\ selection'.selection = asked.selection /\ selection'.tests = asked.tests
        /\ selection'.served = asked.served
        /\ selection'.notApplied = "none" =>
             /\ asked.notApplied = "none"
             /\ asked.selection = "subset" => asked.tests \subseteq filtered
        /\ asked.selection = "refused" => selection'.notApplied = "none"
    BY <1>1, <2>2 DEF Resolve
  <2>4. filtered' = filtered /\ filtered # {}
    BY <1>1, <1>4 DEF Asks
  <2>5. /\ keep' # Everything => keep' \subseteq filtered
        /\ ~asked.served => keep' = Everything
        /\ selection'.selection = "subset" /\ selection'.notApplied = "none" => keep' = asked.tests
        /\ selection'.notApplied = "none" /\ asked.selection \in {"subset", "empty"} => keep' # Everything
    BY <1>1, <2>1, <2>2, <2>3 DEF KeepOf
  <2>6. KeptCount(keep)' = KeptCount(keep')
    BY <2>4 DEF KeptCount
  <2>7. /\ asked.served => echo'.kept = KeptCount(keep)' /\ echo'.answer = asked.selection
                           /\ echo'.notApplied = selection'.notApplied
        /\ ~asked.served => echo'.answer = "none"
    BY <1>1, <2>6 DEF NoEcho
  <2>8. quit' <=> asked.selection = "refused"
    BY <1>1, <2>2
  <2>9. Prepared'
    BY <1>1, <1>2, <2>2, <2>3, <2>4, <2>5, <2>7, <2>8 DEF Prepared
  <2>10. Reasons'
    BY <1>2, <2>2, <2>7, <2>8 DEF Reasons
  <2> QED BY <2>9, <2>10 DEF EInv
<1> QED BY <1>3, <1>4

LEMMA SuiteHooksEInv ==
  ASSUME IInv, EInv, EarlierHookFails \/ SuiteStarts \/ LaterHookFails
  PROVE  EInv'
<1>1. /\ phase \in {"loaded", "selected"} /\ phase' = "running"
      /\ UNCHANGED <<filtered, attached, selection, keep, echo, group, interrupted, status>>
      /\ (quit' = TRUE /\ outside' = TRUE) \/ UNCHANGED <<quit, outside>>
  BY DEF EarlierHookFails, SuiteStarts, LaterHookFails, learnt, decided, world, tests
<1>2. \A g \in Groups : group[g] = "waiting"
  BY <1>1 DEF IInv, Turns
<1>3. KeptCount(keep)' = KeptCount(keep) /\ WithStatus("failed")' = WithStatus("failed")
  BY <1>1 DEF KeptCount, WithStatus
<1> QED BY <1>1, <1>2, <1>3 DEF EInv, Prepared, Reasons

\* Groups, and the examples RSpec reports as they go by.
LEMMA GoingEInv ==
  ASSUME EInv, phase = "running", phase' \in {"running", "ended"},
         UNCHANGED <<filtered, attached, selection, keep, echo>>,
         interrupted => interrupted', outside => outside', quit => quit',
         \A t \in Examples : status[t] = "none" \/ status'[t] = status[t],
         quit' => quit \/ interrupted' \/ outside' \/ \E t \in Examples : status'[t] = "failed",
         ~quit => \A g \in Groups : group'[g] = "done" =>
           group[g] = "done" \/ \A t \in KeptIn(g) : t \in Examples /\ status'[t] # "none",
         quit => \A g \in Groups : group[g] = "waiting" => group'[g] = "waiting"
  PROVE  EInv'
<1>1. KeptCount(keep)' = KeptCount(keep) /\ \A g : KeptIn(g)' = KeptIn(g)
  BY DEF KeptCount, KeptIn, ToRun
<1>2. WithStatus("failed") # {} => WithStatus("failed")' # {}
  BY DEF WithStatus
<1>3. (\E t \in Examples : status'[t] = "failed") => WithStatus("failed")' # {}
  BY DEF WithStatus
<1>4. Reported \subseteq Reported'
  BY DEF Reported
<1>5. Prepared'
  BY <1>1 DEF EInv, Prepared
<1>6. quit' => interrupted' \/ outside' \/ echo'.answer = "refused" \/ WithStatus("failed")' # {}
  BY <1>2, <1>3 DEF EInv, Reasons
<1>7. ASSUME ~quit', NEW g \in Groups, group'[g] = "done" PROVE KeptIn(g) \subseteq Reported'
  BY <1>4, <1>7 DEF EInv, Reasons, Reported
<1>8. Reasons'
  BY <1>1, <1>6, <1>7 DEF Reasons
<1> QED BY <1>5, <1>8 DEF EInv

LEMMA GroupsEInv ==
  ASSUME IInv, EInv,
         \/ \E g \in Groups : StartGroup(g) \/ \E fails \in BOOLEAN : FinishGroup(g, fails)
         \/ Interrupt
  PROVE  EInv'
<1>1. CASE Interrupt
  <2>1. /\ phase = "running" /\ quit' = TRUE /\ interrupted' = TRUE
        /\ UNCHANGED <<phase, filtered, attached, selection, keep, echo, group, outside, status>>
    BY <1>1 DEF Interrupt, learnt, decided, tests
  <2> QED BY <2>1, GoingEInv
<1>2. ASSUME NEW g \in Groups, StartGroup(g) PROVE EInv'
  <2>1. \A h \in Groups : group'[h] = IF h = g THEN "open" ELSE group[h]
    BY <1>2 DEF StartGroup, IInv, TypeOK
  <2> QED BY <1>2, <2>1, GoingEInv DEF StartGroup, MayOpen, learnt, decided, tests
<1>3. ASSUME NEW g \in Groups, NEW fails \in BOOLEAN, FinishGroup(g, fails) PROVE EInv'
  <2>1. \A h \in Groups : group'[h] = IF h = g THEN "done" ELSE group[h]
    BY <1>3 DEF FinishGroup, IInv, TypeOK
  <2>2. /\ phase = "running" /\ group[g] = "open"
        /\ quit \/ KeptIn(g) \subseteq Reported
        /\ outside => outside'
        /\ UNCHANGED <<phase, filtered, attached, selection, keep, echo, quit, interrupted, status>>
    BY <1>3 DEF FinishGroup, learnt, decided, tests
  <2>3. ~quit => \A h \in Groups : group'[h] = "done" =>
          group[h] = "done" \/ \A t \in KeptIn(h) : t \in Examples /\ status'[t] # "none"
    BY <2>1, <2>2 DEF Reported
  <2>4. quit => \A h \in Groups : group[h] = "waiting" => group'[h] = "waiting"
    BY <2>1, <2>2
  <2>5. /\ phase' \in {"running", "ended"}
        /\ UNCHANGED <<filtered, attached, selection, keep, echo>>
        /\ (interrupted => interrupted') /\ (quit => quit')
        /\ \A t \in Examples : status[t] = "none" \/ status'[t] = status[t]
        /\ quit' => quit \/ interrupted' \/ outside' \/ \E t \in Examples : status'[t] = "failed"
    BY <2>2
  <2> QED BY <2>2, <2>3, <2>4, <2>5, GoingEInv
<1> QED BY <1>1, <1>2, <1>3

LEMMA ContextHookEInv ==
  ASSUME IInv, EInv, NEW g \in Groups, NEW result \in {"failed", "skipped"}, ContextHookRaises(g, result)
  PROVE  EInv'
<1>1. /\ phase = "running" /\ ~quit /\ KeptIn(g) # {} /\ group[g] = "waiting"
      /\ group' = [group EXCEPT ![g] = "done"]
      /\ status' = [t \in Examples |-> IF t \in KeptIn(g) THEN result ELSE status[t]]
      /\ quit' => result = "failed"
      /\ UNCHANGED <<phase, filtered, attached, selection, keep, echo, outside, interrupted>>
  BY DEF ContextHookRaises, MayOpen, learnt, decided
<1>2. \A t \in KeptIn(g) : t \in Examples /\ status[t] = "none" /\ status'[t] = result /\ result # "none"
  <2>1. KeptIn(g) \subseteq Examples
    BY RSpecConstants DEF KeptIn, ToRun, IInv, TypeOK
  <2>2. \A t \in KeptIn(g) : GroupOf[t] = g
    BY DEF KeptIn
  <2> QED BY <1>1, <2>1, <2>2 DEF IInv, Turns
<1>3. \A t \in Examples : status[t] = "none" \/ status'[t] = status[t]
  BY <1>1, <1>2
<1>4. \A h \in Groups : group'[h] = IF h = g THEN "done" ELSE group[h]
  BY <1>1 DEF IInv, TypeOK
<1>5. quit' => \E t \in Examples : status'[t] = "failed"
  BY <1>1, <1>2
<1> QED BY <1>1, <1>2, <1>3, <1>4, <1>5, GoingEInv

LEMMA ExamplesEInv ==
  ASSUME IInv, EInv,
         \/ \E t \in Examples : SkipExample(t)
         \/ \E t \in Examples, a \in Attempt, slow \in BOOLEAN : FirstAttempt(t, a, slow)
         \/ \E a \in Attempt, expired \in BOOLEAN : Rerun(a, expired)
         \/ FinishExample
  PROVE  EInv'
<1>1. /\ phase = "running"
      /\ UNCHANGED <<phase, filtered, attached, selection, keep, echo, group, interrupted, outside>>
  BY DEF SkipExample, FirstAttempt, Rerun, FinishExample, InTurn, learnt, decided, world
<1>2. /\ quit => quit'
      /\ quit' => quit \/ \E t \in Examples : status'[t] = "failed"
      /\ \A t \in Examples : status[t] = "none" \/ status'[t] = status[t]
  <2>1. CASE FinishExample
    <3>1. /\ status' = [status EXCEPT ![example.id] = ResultOf(example)] /\ example.step = "finish"
          /\ (quit => quit') /\ (quit' => quit \/ example.exception)
      BY <2>1 DEF FinishExample
    <3>2. example.id \in Examples /\ status[example.id] = "none"
      BY <3>1 DEF IInv, Turns
    <3>3. \A t \in Examples : status'[t] = IF t = example.id THEN ResultOf(example) ELSE status[t]
      BY <3>1 DEF IInv, TypeOK
    <3>4. example.exception => ResultOf(example) = "failed"
      BY DEF ResultOf
    <3> QED BY <3>1, <3>2, <3>3, <3>4
  <2>2. ASSUME NEW t \in Examples, SkipExample(t)
        PROVE  /\ UNCHANGED quit
               /\ \A u \in Examples : status[u] = "none" \/ status'[u] = status[u]
    BY <2>2 DEF SkipExample, InTurn, world, IInv, TypeOK
  <2>3. ASSUME NEW t \in Examples, NEW a \in Attempt, NEW slow \in BOOLEAN, FirstAttempt(t, a, slow)
        PROVE  UNCHANGED <<quit, status>>
    BY <2>3 DEF FirstAttempt, world
  <2>4. ASSUME NEW a \in Attempt, NEW expired \in BOOLEAN, Rerun(a, expired)
        PROVE  UNCHANGED <<quit, status>>
    <3>1. UNCHANGED <<world, status>>
      BY <2>4 DEF Rerun
    <3> QED BY <3>1 DEF world
  <2> QED BY <2>1, <2>2, <2>3, <2>4
<1> QED BY <1>1, <1>2, GoingEInv

LEMMA RunEndEInv ==
  ASSUME IInv, EInv, NEW fails \in BOOLEAN, NEW how \in {"sent", "truncated", "dormant", "error"},
         RunEnd(fails, how)
  PROVE  EInv'
<1>1. /\ phase = "running" /\ phase' = "ended"
      /\ outside => outside'
      /\ UNCHANGED <<filtered, attached, selection, keep, echo, group, quit, interrupted, status>>
  BY DEF RunEnd, learnt, decided, tests
<1>2. /\ phase' \in {"running", "ended"} /\ UNCHANGED <<filtered, attached, selection, keep, echo>>
      /\ (interrupted => interrupted') /\ (quit => quit')
      /\ \A t \in Examples : status[t] = "none" \/ status'[t] = status[t]
      /\ quit' => quit \/ interrupted' \/ outside' \/ \E t \in Examples : status'[t] = "failed"
      /\ \A h \in Groups : group'[h] = group[h]
  BY <1>1
<1> QED BY <1>1, <1>2, GoingEInv

LEMMA NextEInv == ASSUME IInv, EInv, [Next]_vars PROVE EInv'
<1>1. CASE Next
  <2>1. CASE DoesNotAsk
    BY <2>1, SelectEInv DEF DoesNotAsk
  <2>2. CASE \E response \in Answers : AsksForSelection(response)
    BY <2>2, SelectEInv DEF AsksForSelection
  <2>3. CASE EarlierHookFails \/ SuiteStarts \/ LaterHookFails
    BY <2>3, SuiteHooksEInv
  <2>4. CASE \/ \E g \in Groups : StartGroup(g)
             \/ \E g \in Groups, fails \in BOOLEAN : FinishGroup(g, fails)
             \/ Interrupt
    BY <2>4, GroupsEInv
  <2>5. CASE \E g \in Groups, result \in {"failed", "skipped"} : ContextHookRaises(g, result)
    BY <2>5, ContextHookEInv
  <2>6. CASE \/ \E t \in Examples : SkipExample(t)
             \/ \E t \in Examples, a \in Attempt, slow \in BOOLEAN : FirstAttempt(t, a, slow)
             \/ \E a \in Attempt, expired \in BOOLEAN : Rerun(a, expired)
             \/ FinishExample
    BY <2>6, ExamplesEInv
  <2>7. CASE \E fails \in BOOLEAN, how \in {"sent", "truncated", "dormant", "error"} : RunEnd(fails, how)
    BY <2>7, RunEndEInv
  <2>8. CASE Ended
    BY <2>8 DEF Ended, vars, learnt, decided, world, tests, EInv, Prepared, Reasons, KeptCount, KeptIn,
                ToRun, Reported, WithStatus
  <2> QED BY <1>1, <2>1, <2>2, <2>3, <2>4, <2>5, <2>6, <2>7, <2>8 DEF Next
<1>2. CASE UNCHANGED vars
  BY <1>2 DEF vars, learnt, decided, world, tests, EInv, Prepared, Reasons, KeptCount, KeptIn,
              ToRun, Reported, WithStatus
<1> QED BY <1>1, <1>2

LEMMA Account == Spec => [](IInv /\ EInv)
<1>1. Init => EInv
  BY InitEInv
<1>2. IInv /\ EInv /\ [Next]_vars => EInv'
  BY NextEInv
<1> QED BY <1>1, <1>2, Invariance, PTL DEF Spec

\* The verdict is drawn as the run ends.
LEMMA RunEndAgrees ==
  ASSUME IInv, EInv, NEW fails \in BOOLEAN, NEW how \in {"sent", "truncated", "dormant", "error"},
         RunEnd(fails, how)
  PROVE  VerdictAgreesWithExit'
<1> SUFFICES ASSUME receipt' \in {"sent", "truncated"} PROVE VerdictAgreesWithExit'
  BY DEF VerdictAgreesWithExit
<1>1. /\ \A g \in Groups : group[g] = "done" \/ (quit /\ group[g] = "waiting")
      /\ red' = EndsRed(outside')
      /\ (outside => outside')
      /\ SendSessionVerdict(outside', how)
      /\ UNCHANGED <<filtered, selection, keep, echo, group, interrupted, status>>
  BY DEF RunEnd, learnt, decided, tests
<1>2. ~outside' /\ verdict' = SessionVerdict /\ selection # NoSelection
  BY <1>1 DEF SendSessionVerdict
<1>3. /\ verdict'.failing = WithStatus("failed") /\ verdict'.echo = echo
      /\ verdict'.executed = Cardinality(Reported) /\ verdict'.collected = Cardinality(filtered)
  BY <1>2 DEF SessionVerdict
<1>4. /\ Reported' = Reported /\ WithStatus("failed")' = WithStatus("failed")
  BY <1>1 DEF Reported, WithStatus
<1>5. ASSUME ~red'
      PROVE  /\ verdict'.failing = {} /\ verdict'.echo.answer # "refused"
             /\ verdict'.executed = IF selection.served THEN verdict'.echo.kept ELSE verdict'.collected
             /\ selection.selection = "subset" /\ selection.notApplied = "none"
                  => selection.tests = Reported
  <2>1. /\ \A g \in Groups : group[g] = "done"
        /\ ToRun \subseteq Reported /\ WithStatus("failed") = {}
    BY <1>1, <1>5 DEF EndsRed
  <2>2. Reported = ToRun
    BY <2>1 DEF IInv, Turns, Reported
  <2>3. filtered # {} => \E g \in Groups : group[g] # "waiting"
    BY <2>1, RSpecConstants DEF IInv, TypeOK
  <2>4. echo.answer # "refused"
    BY <2>3 DEF EInv, Prepared
  <2>5. ToRun = IF keep = Everything THEN filtered ELSE keep
    BY DEF EInv, Prepared, ToRun
  <2>6. Cardinality(ToRun) = KeptCount(keep)
    BY <2>5 DEF KeptCount
  <2>7. selection.served => Cardinality(Reported) = echo.kept
    BY <2>2, <2>6 DEF EInv, Prepared
  <2>8. ~selection.served => Reported = filtered
    BY <2>2, <2>5 DEF EInv, Prepared
  <2>9. selection.selection = "subset" /\ selection.notApplied = "none" => selection.tests = Reported
    <3>1. ASSUME selection.selection = "subset", selection.notApplied = "none"
          PROVE  keep = selection.tests /\ keep # Everything
      <4>1. keep = selection.tests
        BY <3>1 DEF EInv, Prepared
      <4>2. selection.tests \in SUBSET Ids
        BY DEF IInv, TypeOK
      <4> QED BY <4>1, <4>2, RSpecConstants
    <3> QED BY <3>1, <2>2, <2>5
  <2> QED BY <1>3, <2>1, <2>4, <2>7, <2>8, <2>9
<1>6. ASSUME red', verdict'.failing = {}
      PROVE  interrupted \/ verdict'.echo.answer = "refused"
  <2>1. WithStatus("failed") = {} /\ ~outside
    BY <1>1, <1>2, <1>3, <1>6
  <2>2. CASE quit
    BY <1>3, <2>1, <2>2 DEF EInv, Reasons
  <2>3. CASE ~quit
    <3>1. \A g \in Groups : group[g] = "done" /\ KeptIn(g) \subseteq Reported
      BY <1>1, <2>3 DEF EInv, Reasons
    <3>2. \A t \in ToRun : t \in KeptIn(GroupOf[t]) /\ GroupOf[t] \in Groups
      BY RSpecConstants DEF IInv, TypeOK, ToRun, KeptIn
    <3>3. ToRun \subseteq Reported
      BY <3>1, <3>2
    <3> QED BY <1>1, <1>2, <1>6, <2>1, <3>1, <3>3 DEF EndsRed
  <2> QED BY <2>2, <2>3
<1>7. UNCHANGED <<selection, interrupted>>
  BY <1>1
<1> QED BY <1>4, <1>5, <1>6, <1>7 DEF VerdictAgreesWithExit

LEMMA NextAgrees == ASSUME IInv, EInv, VerdictAgreesWithExit, [Next]_vars PROVE VerdictAgreesWithExit'
<1>1. CASE UNCHANGED vars
  BY <1>1 DEF vars, learnt, decided, world, tests, ending, VerdictAgreesWithExit, Reported
<1>2. CASE \E fails \in BOOLEAN, how \in {"sent", "truncated", "dormant", "error"} : RunEnd(fails, how)
  BY <1>2, RunEndAgrees
<1>3. CASE DoesNotAsk \/ \E response \in Answers : AsksForSelection(response)
  <2>1. phase' # "ended"
    BY <1>3 DEF DoesNotAsk, AsksForSelection, SelectExamples
  <2> QED BY <2>1 DEF VerdictAgreesWithExit
<1>4. CASE EarlierHookFails \/ SuiteStarts \/ LaterHookFails
  BY <1>4 DEF EarlierHookFails, SuiteStarts, LaterHookFails, VerdictAgreesWithExit
<1>5. CASE \/ \E g \in Groups : StartGroup(g)
           \/ \E g \in Groups, fails \in BOOLEAN : FinishGroup(g, fails)
           \/ Interrupt
  <2>1. phase' # "ended"
    BY <1>5 DEF StartGroup, MayOpen, FinishGroup, Interrupt
  <2> QED BY <2>1 DEF VerdictAgreesWithExit
<1>6. CASE \E g \in Groups, result \in {"failed", "skipped"} : ContextHookRaises(g, result)
  <2>1. phase' # "ended"
    BY <1>6 DEF ContextHookRaises, MayOpen
  <2> QED BY <2>1 DEF VerdictAgreesWithExit
<1>7. CASE \/ \E t \in Examples : SkipExample(t)
           \/ \E t \in Examples, a \in Attempt, slow \in BOOLEAN : FirstAttempt(t, a, slow)
           \/ \E a \in Attempt, expired \in BOOLEAN : Rerun(a, expired)
           \/ FinishExample
  <2>1. phase' # "ended"
    BY <1>7 DEF SkipExample, FirstAttempt, Rerun, FinishExample, InTurn
  <2> QED BY <2>1 DEF VerdictAgreesWithExit
<1> QED BY <1>1, <1>2, <1>3, <1>4, <1>5, <1>6, <1>7 DEF Next, Ended

\* What the next rerun is answered from agrees with how the run ended
\* (ci_insights.rb, send_session_verdict; formatter.rb, stop).
THEOREM Verdict == Spec => []VerdictAgreesWithExit
<1>1. Init => VerdictAgreesWithExit
  BY DEF Init, VerdictAgreesWithExit
<1>2. IInv /\ EInv /\ VerdictAgreesWithExit /\ [Next]_vars => VerdictAgreesWithExit'
  BY NextAgrees
<1> QED BY <1>1, <1>2, Account, PTL DEF Spec

-----------------------------------------------------------------------------
(* The contract.                                                           *)

Executed == {t \in Examples : seen[t].first # {}}
Out == IF Started /\ attached THEN filtered \ ToRun ELSE {}

\* A step of the suite that begins no example.
LEMMA ContractStays ==
  ASSUME phase = "running", phase' = "running", UNCHANGED <<filtered, attached, keep>>,
         \A t \in Examples : seen'[t].first = seen[t].first
  PROVE  UNCHANGED Contract!vars
<1>1. Executed' = Executed
  BY DEF Executed
<1>2. Out' = Out /\ Conclusion' = "open" /\ Conclusion = "open"
  BY DEF Out, Started, ToRun, Conclusion
<1> QED BY <1>1, <1>2 DEF Contract!vars, Executed, Out

\* Asking, or doing without, is the decision.
LEMMA SelectContract ==
  ASSUME NEW asked \in {NoSelection} \cup {TestSelection(r) : r \in Answers}, SelectExamples(asked)
  PROVE  Contract!Decide
<1>1. /\ phase = "loaded" /\ phase' = "selected" /\ keep' = KeepOf(asked) /\ UNCHANGED <<filtered, seen>>
  BY DEF SelectExamples, learnt, tests
<1>2. keep' \in {Everything} \cup SUBSET Ids
  BY <1>1, AskedTyped
<1>3. /\ Executed' = Executed /\ Out = {} /\ Out' = {} /\ Conclusion = "open" /\ Conclusion' = "open"
  BY <1>1 DEF Executed, Out, Started, Conclusion
<1> QED BY <1>1, <1>2, <1>3 DEF Contract!Decide, Executed, Out

\* A suite hook that fails first decides too: for everything.
LEMMA EarlierContract ==
  ASSUME EInv, EarlierHookFails
  PROVE  Contract!Decide
<1>1. /\ phase = "loaded" /\ phase' = "running" /\ keep = Everything /\ ~attached
      /\ UNCHANGED <<filtered, seen, keep, attached>>
  BY DEF EarlierHookFails, learnt, decided, tests, EInv, Prepared
<1>2. /\ Executed' = Executed /\ Out = {} /\ Out' = {} /\ Conclusion = "open" /\ Conclusion' = "open"
  BY <1>1 DEF Executed, Out, Started, Conclusion
<1> QED BY <1>1, <1>2 DEF Contract!Decide, Executed, Out

\* What the decision leaves out is out from the start of the suite.
LEMMA SuiteContract ==
  ASSUME IInv, SuiteStarts \/ LaterHookFails
  PROVE  [Contract!Next]_Contract!vars
<1>1. /\ phase = "selected" /\ phase' = "running" /\ UNCHANGED <<filtered, seen, keep, attached>>
  BY DEF SuiteStarts, LaterHookFails, learnt, decided, tests
<1>2. /\ Executed' = Executed /\ Out = {} /\ Conclusion = "open" /\ Conclusion' = "open"
  BY <1>1 DEF Executed, Out, Started, Conclusion
<1>3. Out' = IF attached THEN filtered \ ToRun ELSE {}
  BY <1>1 DEF Out, Started, ToRun
<1>4. CASE keep = Everything
  <2>1. Out' = {}
    BY <1>3, <1>4 DEF ToRun
  <2> QED BY <1>1, <1>2, <2>1 DEF Contract!vars, Executed, Out
<1>5. CASE keep # Everything
  <2>1. Out' \in SUBSET Ids /\ Out' \cap keep = {}
    BY <1>3, <1>5, RSpecConstants DEF ToRun, IInv, TypeOK
  <2>2. Contract!LeaveOut(Out')
    BY <1>1, <1>2, <1>5, <2>1 DEF Contract!LeaveOut, Executed, Out
  <2> QED BY <2>1, <2>2 DEF Contract!Next
<1> QED BY <1>4, <1>5

LEMMA FirstContract ==
  ASSUME IInv, NEW t \in Examples, NEW a \in Attempt, NEW slow \in BOOLEAN, FirstAttempt(t, a, slow)
  PROVE  Contract!Next
<1>1. /\ phase = "running" /\ seen' = [seen EXCEPT ![t].first = {a}]
      /\ UNCHANGED <<phase, filtered, keep, attached>>
  <2>1. /\ phase = "running" /\ seen' = [seen EXCEPT ![t].first = {a}]
        /\ UNCHANGED <<learnt, phase, decided>>
    BY DEF FirstAttempt, InTurn
  <2> QED BY <2>1 DEF learnt, decided
<1>2. \A u \in Examples : seen'[u].first = IF u = t THEN {a} ELSE seen[u].first
  BY <1>1 DEF IInv, TypeOK
<1>3. Executed' = Executed \cup {t}
  BY <1>2 DEF Executed
<1>4. /\ Out' = Out /\ Conclusion = "open" /\ Conclusion' = "open" /\ t \in Ids
  BY <1>1, RSpecConstants DEF Out, Started, ToRun, Conclusion
<1>5. Contract!Execute(t)
  BY <1>1, <1>3, <1>4 DEF Contract!Execute, Executed, Out
<1> QED BY <1>4, <1>5 DEF Contract!Next

\* A reduction is only stated by a run that was reduced.
LEMMA EndContract ==
  ASSUME IInv, EInv, NEW fails \in BOOLEAN, NEW how \in {"sent", "truncated", "dormant", "error"},
         RunEnd(fails, how)
  PROVE  Contract!Conclude
<1>1. /\ phase = "running" /\ phase' = "ended" /\ SendSessionVerdict(outside', how)
      /\ UNCHANGED <<filtered, keep, attached, seen, echo>>
  BY DEF RunEnd, learnt, decided, tests
<1>2. Conclusion = "open" /\ Conclusion' \in {"reduced", "other"}
  BY <1>1 DEF Conclusion
<1>3. ASSUME Conclusion' = "reduced" PROVE keep # Everything /\ Executed \subseteq keep
  <2>1. verdict'.echo.notApplied = "none" /\ verdict'.echo.answer \in {"subset", "empty"}
    BY <1>1, <1>3 DEF Conclusion
  <2>2. verdict' \in {NoVerdict, SessionVerdict}
    BY <1>1 DEF SendSessionVerdict
  <2>3. verdict'.echo = echo
    BY <2>1, <2>2 DEF NoVerdict, NoEcho, SessionVerdict
  <2>4. keep # Everything
    BY <2>1, <2>3 DEF EInv, Prepared
  <2> QED BY <2>4 DEF IInv, Turns, Executed, ToRun
<1>4. Executed' = Executed /\ Out' = Out
  BY <1>1 DEF Executed, Out, Started, ToRun
<1> QED BY <1>1, <1>2, <1>3, <1>4 DEF Contract!Conclude, Executed, Out

LEMMA NextContract ==
  ASSUME IInv, EInv, [Next]_vars
  PROVE  [Contract!Next]_Contract!vars
<1>1. CASE UNCHANGED vars
  BY <1>1 DEF vars, learnt, decided, tests, ending, Contract!vars, Started, ToRun, Conclusion
<1>2. CASE DoesNotAsk \/ \E response \in Answers : AsksForSelection(response)
  BY <1>2, SelectContract DEF DoesNotAsk, AsksForSelection, Contract!Next
<1>3. CASE EarlierHookFails
  BY <1>3, EarlierContract DEF Contract!Next
<1>4. CASE SuiteStarts \/ LaterHookFails
  BY <1>4, SuiteContract
<1>5. CASE \/ \E g \in Groups : StartGroup(g)
           \/ \E g \in Groups, fails \in BOOLEAN : FinishGroup(g, fails)
           \/ \E g \in Groups, result \in {"failed", "skipped"} : ContextHookRaises(g, result)
           \/ Interrupt \/ \E t \in Examples : SkipExample(t)
           \/ FinishExample
  <2>1. phase = "running" /\ phase' = "running" /\ UNCHANGED <<filtered, attached, keep, seen>>
    BY <1>5 DEF StartGroup, MayOpen, FinishGroup, ContextHookRaises, Interrupt, SkipExample, InTurn,
                FinishExample, learnt, decided, tests
  <2> QED BY <2>1, ContractStays
<1>6. ASSUME NEW a \in Attempt, NEW expired \in BOOLEAN, Rerun(a, expired)
      PROVE  UNCHANGED Contract!vars
  <2>1. /\ phase = "running" /\ seen' = [seen EXCEPT ![example.id].later = @ \cup {a}]
        /\ UNCHANGED <<learnt, phase, decided>>
    BY <1>6 DEF Rerun
  <2>2. \A t \in Examples : seen'[t].first = seen[t].first
    BY <2>1 DEF IInv, TypeOK
  <2> QED BY <2>1, <2>2, ContractStays DEF learnt, decided
<1>7. CASE \E t \in Examples, a \in Attempt, slow \in BOOLEAN : FirstAttempt(t, a, slow)
  BY <1>7, FirstContract
<1>8. CASE \E fails \in BOOLEAN, how \in {"sent", "truncated", "dormant", "error"} : RunEnd(fails, how)
  BY <1>8, EndContract DEF Contract!Next
<1> QED BY <1>1, <1>2, <1>3, <1>4, <1>5, <1>6, <1>7, <1>8 DEF Next, Ended

\* An rspec process decides once, before its first example, leaves out only what the
\* decision leaves out, and states a reduction only of a run that was reduced
\* (configuration.rb:80-127, ci_insights.rb).
THEOREM Refinement == Spec => ImplementsContract
<1>1. Init => Contract!Init
  <2>1. ASSUME Init PROVE phase = "loaded" /\ keep = Everything /\ \A t \in Examples : seen[t].first = {}
    BY <2>1 DEF Init, Unseen
  <2> QED BY <2>1 DEF Contract!Init, Started, Conclusion
<1>2. IInv /\ EInv /\ [Next]_vars => [Contract!Next]_Contract!vars
  BY NextContract
<1> QED BY <1>1, <1>2, Account, PTL DEF Spec, ImplementsContract, Contract!Spec
=============================================================================
