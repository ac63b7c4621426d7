--------------------------- MODULE XdistSelection ---------------------------
(***************************************************************************)
(* Test selection under `pytest -n': one controller asks Mergify once,     *)
(* from the ids its workers report, writes what to run to a file, and each *)
(* worker reads that file before its first test and skips what it leaves   *)
(* out.  Workers may be blind (no file, an unreadable one, one about       *)
(* another collection), crash, be replaced or be on another machine; the   *)
(* controller may be interrupted, and its session finish may not complete. *)
(* At the end it decides what the run may say about the answer.            *)
(*                                                                         *)
(* Modelled: pytest_mergify/__init__.py (the hooks), test_selection.py     *)
(* (XdistSelectionController, XdistSelectionWorker) and ci_insights.py     *)
(* (on_tests_collected, on_selection_resolved, send_session_verdict).      *)
(* External: pytest-xdist's scheduler and the Mergify engine.              *)
(***************************************************************************)
EXTENDS TestSelection

CONSTANTS Workers,       \* the workers xdist starts
          Spares,        \* ids of the workers it may start in place of crashed ones
          Collections,   \* what a worker may collect
          Answers,       \* what asking may bring: also Unanswered, or NotAsked
          Circumstances, \* the <<opted, dist, remote>> a run may start under
          NoCollection,  \* no worker has reported its collection yet
          NoFile         \* nothing at the answer path

Nodes == Workers \cup Spares

ASSUME ConstantsAssumption ==
  /\ Workers \cap Spares = {}
  /\ Collections \subseteq Collection
  /\ Answers \subseteq Answer \cup {NotAsked}
  /\ Circumstances \subseteq BOOLEAN \X {"load", "each"} \X SUBSET (Workers \cup Spares)
  /\ NoCollection \notin Collections
  /\ NoFile \notin [fingerprint : [Tests -> Nat], keep : KeepSet]

V == INSTANCE SessionVerdict

VARIABLES
  \* the run's circumstances
  opted,          \* the job opted in and there is an API client
  dist,           \* xdist's scheduling: "load" shares the tests out, "each" runs all everywhere
  remote,         \* the nodes whose gateway is on another machine
  phase,          \* of the controller
  scheduled,      \* xdist has started handing out tests
  \* XdistSelectionController, TestSelection and the rest of the plugin's state there
  disabled, handed, collected, answer, keep, notApplied, file,
  diskFailed,     \* history: publish met an OSError
  couldNotRead, crashed, differ, failedOnSkipped,
  withheld, echo, final, sent,
  red,            \* pytest has a failure of its own to exit non-zero over: a failed
                  \* report, a refusal, or collections it will not schedule
  \* the workers
  wphase, wcoll, wread, wkeep, ran, skipped, crashItem

circumstances == <<opted, dist, remote>>
answerFile    == <<file, diskFailed>>
asked         == <<collected, answer, keep>>
accounts      == <<couldNotRead, crashed, failedOnSkipped>>
statement     == <<withheld, notApplied, echo, sent>>
workers       == <<wphase, wcoll, wread, wkeep, ran, skipped, crashItem>>
tested        == <<final, red>>
vars == <<circumstances, phase, scheduled, disabled, handed, answerFile,
          differ, asked, accounts, statement, workers, tested>>

NoItem == "no item"
NoEcho == [answer |-> "none", kept |-> 0, notApplied |-> "none"]

\* What a worker made of the answer file.  "no path" is a worker that was
\* handed none, and so holds no XdistSelectionWorker.
ReadResult == {"unread", "no path", "run all", "applied", "missing", "unreadable", "mismatch"}
CouldNotRead == {"missing", "unreadable", "mismatch"}

WorkerPhase == {"unused", "booted", "collected", "finished", "crashed", "down", "dead"}
Gone == {"unused", "down", "dead"}

-----------------------------------------------------------------------------
Init ==
  /\ \E c \in Circumstances : opted = c[1] /\ dist = c[2] /\ remote = c[3]
  /\ phase = "configuring" /\ scheduled = FALSE
  /\ disabled = FALSE /\ handed = {} /\ file = NoFile /\ diskFailed = FALSE
  /\ collected = NoCollection /\ answer = NotAsked /\ keep = Everything
  /\ couldNotRead = {} /\ crashed = FALSE /\ failedOnSkipped = FALSE /\ differ = FALSE
  /\ withheld = FALSE /\ notApplied = "none" /\ echo = NoEcho /\ sent = FALSE
  /\ final = V!NothingRecorded /\ red = FALSE
  /\ wphase = [w \in Nodes |-> "unused"]
  /\ wcoll = [w \in Nodes |-> NoCollection]
  /\ wread = [w \in Nodes |-> "unread"]
  /\ wkeep = [w \in Nodes |-> Everything]
  /\ ran = [w \in Nodes |-> {}]
  /\ skipped = [w \in Nodes |-> {}]
  /\ crashItem = [w \in Nodes |-> NoItem]

\* pytest_configure_node: a remote gateway turns selection off for the run, a
\* local one is handed the path of the answer file.
HandOut(w) ==
  /\ disabled' = (disabled \/ w \in remote)
  /\ handed' = IF w \notin remote /\ opted /\ ~disabled THEN handed \cup {w} ELSE handed
  /\ wread' = [wread EXCEPT ![w] = IF w \in handed' THEN "unread" ELSE "no path"]
  /\ wphase' = [wphase EXCEPT ![w] = "booted"]
  /\ UNCHANGED <<circumstances, scheduled, answerFile, differ, asked, accounts, statement,
                 tested, wcoll, wkeep, ran, skipped, crashItem>>

ConfigureNode(w) ==
  /\ phase = "configuring"
  /\ w \in Workers /\ wphase[w] = "unused"
  /\ HandOut(w)
  /\ phase' = IF \A v \in Workers \ {w} : wphase[v] # "unused" THEN "running" ELSE phase

\* xdist clones a crashed worker, on the same kind of gateway.
ReplaceNode(w) ==
  /\ phase = "running"
  /\ w \in Spares /\ wphase[w] = "unused"
  /\ \E d \in Nodes : wphase[d] = "dead" /\ (d \in remote <=> w \in remote)
  /\ HandOut(w)
  /\ UNCHANGED phase

-----------------------------------------------------------------------------
(* pytest_xdist_node_collection_finished, as each worker's ids arrive.     *)

Arrives(w, c) ==
  /\ phase = "running"
  /\ wphase[w] = "booted"
  /\ c \in Collections
  /\ wphase' = [wphase EXCEPT ![w] = "collected"]
  /\ wcoll' = [wcoll EXCEPT ![w] = c]
  /\ UNCHANGED <<circumstances, scheduled, disabled, handed, accounts, withheld, sent,
                 final, wread, wkeep, ran, skipped, crashItem>>

\* publish: nothing is written when no worker was handed a path; an OSError
\* leaves no file behind, and is swallowed.
Publish(fingerprint, k) ==
  /\ keep' = k
  /\ \/ /\ handed # {}
        /\ file' = [fingerprint |-> fingerprint, keep |-> k]
        /\ UNCHANGED diskFailed
     \/ /\ file' = file
        /\ diskFailed' = (handed # {})

\* on_selection_resolved: nothing is reported unless the engine answered.
Echo(a, kept, reason) ==
  IF a.served THEN [answer |-> a.selection, kept |-> kept, notApplied |-> reason]
              ELSE NoEcho

\* A job that did not opt in asks nothing; nor does one whose coordinates are
\* incomplete (NotAsked may be one of Answers).
ServedAnswers == IF opted THEN Answers ELSE {NotAsked}

\* Mutated form: the workers configured before the remote one are left waiting.
FirstCollectionDisabledUnpublished(w, c) ==
  /\ collected = NoCollection /\ disabled
  /\ Arrives(w, c)
  /\ collected' = c
  /\ UNCHANGED <<phase, red, keep, answer, answerFile, notApplied, echo, differ>>

FirstCollectionDisabled(w, c) ==
  /\ collected = NoCollection /\ disabled
  /\ Arrives(w, c)
  /\ collected' = c
  /\ Publish(Fingerprint(<<>>), Everything)
  /\ UNCHANGED <<phase, red, answer, notApplied, echo, differ>>

FirstCollectionAsks(w, c, a) ==
  /\ collected = NoCollection /\ ~disabled
  /\ ~Refuses(a)
  /\ Arrives(w, c)
  /\ collected' = c
  /\ answer' = a
  /\ notApplied' = NotApplied(a, c)
  /\ Publish(Fingerprint(c), Keep(a, c))
  /\ echo' = Echo(a, KeptCount(keep', c), notApplied')
  /\ UNCHANGED <<phase, red, differ>>

\* Mutated form: the UsageError is swallowed with the other failures.
FirstCollectionRefusedSwallowed(w, c, a) ==
  /\ collected = NoCollection /\ ~disabled
  /\ Refuses(a)
  /\ Arrives(w, c)
  /\ collected' = c
  /\ answer' = a
  /\ echo' = Echo(a, 0, "none")
  /\ Publish(Fingerprint(c), Everything)
  /\ UNCHANGED <<phase, red, notApplied, differ>>

\* The UsageError leaves the hook, and xdist's loop with it: pytest exits with its
\* usage-error code.
FirstCollectionRefused(w, c, a) ==
  /\ collected = NoCollection /\ ~disabled
  /\ Refuses(a)
  /\ Arrives(w, c)
  /\ collected' = c
  /\ answer' = a
  /\ echo' = Echo(a, 0, "none")
  /\ phase' = "stopped" /\ red' = TRUE
  /\ UNCHANGED <<keep, answerFile, notApplied, differ>>

\* Mutated form: each collection is decided on, not the first one only.
LaterCollectionAsksAgain(w, c) ==
  /\ collected # NoCollection
  /\ Arrives(w, c)
  /\ collected' = c
  /\ Publish(Fingerprint(c), Keep(answer, c))
  /\ UNCHANGED <<phase, red, answer, notApplied, echo, differ>>

LaterCollection(w, c) ==
  /\ collected # NoCollection
  /\ Arrives(w, c)
  /\ differ' = (differ \/ c # collected)
  /\ UNCHANGED <<phase, red, asked, answerFile, notApplied, echo>>

-----------------------------------------------------------------------------
(* Running tests.  Scheduling is xdist's: it starts once every worker has  *)
(* reported, and under "load" only if they all collected the same ids.     *)
(* Otherwise it logs a failed collection and hands out nothing.            *)

AllReported ==
  /\ phase = "running" /\ ~scheduled /\ ~red
  /\ collected # NoCollection
  /\ \A w \in Nodes : wphase[w] # "booted"

CollectedAlike == \A w \in Nodes : wphase[w] = "collected" => wcoll[w] = collected

Schedule ==
  /\ AllReported
  /\ dist = "each" \/ CollectedAlike
  /\ scheduled' = TRUE
  /\ UNCHANGED <<circumstances, phase, disabled, handed, answerFile, differ, asked, accounts,
                 statement, workers, tested>>

RefuseToSchedule ==
  /\ AllReported
  /\ dist = "load" /\ ~CollectedAlike
  /\ red' = TRUE
  /\ UNCHANGED <<circumstances, phase, scheduled, disabled, handed, answerFile, differ, asked,
                 accounts, statement, workers, final>>

Attempted(w) == ran[w] \cup skipped[w] \cup ({crashItem[w]} \ {NoItem})

MayRun(w, t) ==
  /\ phase = "running" /\ scheduled
  /\ IF dist = "each" THEN t \notin Attempted(w)
     ELSE wcoll[w] = collected /\ \A v \in Nodes : t \notin Attempted(v)

\* Mutated form: the worker does not ask whose collection the answer is about.
AnswerReadWhoever(w) ==
  IF wread[w] # "unread" THEN {wread[w]}
  ELSE IF file = NoFile THEN {"missing"}
  ELSE {"unreadable", IF file.keep = Everything THEN "run all" ELSE "applied"}

\* XdistSelectionWorker._load, once per worker.  "missing" is the bounded wait
\* running out on a path nothing was written to; a disk that shows the file too
\* late, or a file that cannot be parsed, is "unreadable".
AnswerRead(w) ==
  IF wread[w] # "unread" THEN {wread[w]}
  ELSE IF file = NoFile THEN {"missing"}
  ELSE {"unreadable"} \cup
       {IF file.keep = Everything THEN "run all"
        ELSE IF file.fingerprint # Fingerprint(wcoll[w]) THEN "mismatch"
        ELSE "applied"}

\* The ids the worker keeps, given what it read.
KeepOf(w, r) == IF r = "applied" /\ wread[w] = "unread" THEN file.keep ELSE wkeep[w]

LeavesOut(w, r, t) == KeepOf(w, r) # Everything /\ t \notin KeepOf(w, r)

Load(w, r) ==
  /\ wread' = [wread EXCEPT ![w] = r]
  /\ wkeep' = [wkeep EXCEPT ![w] = KeepOf(w, r)]

CallReport(o) == [when |-> "call", outcome |-> o, wasxfail |-> FALSE, quarantined |-> FALSE]
CrashReport == [when |-> "???", outcome |-> "failed", wasxfail |-> FALSE, quarantined |-> FALSE]

\* A test runs on a worker and the controller logs its report.
RunTest(w, t, r, outcome) ==
  /\ MayRun(w, t)
  /\ ~LeavesOut(w, r, t)
  /\ Load(w, r)
  /\ ran' = [ran EXCEPT ![w] = @ \cup {t}]
  /\ final' = V!Record(final, t, CallReport(outcome))
  /\ red' = (red \/ outcome = "failed")
  /\ UNCHANGED <<circumstances, phase, scheduled, disabled, handed, answerFile, differ, asked,
                 accounts, statement, wphase, wcoll, skipped, crashItem>>

\* Mutated form: the skip's reports are dropped whatever they say.
SkipTestForgotten(w, t, r, tornDownBadly) ==
  /\ MayRun(w, t)
  /\ LeavesOut(w, r, t)
  /\ tornDownBadly => ran[w] # {}
  /\ Load(w, r)
  /\ skipped' = [skipped EXCEPT ![w] = @ \cup {t}]
  /\ red' = (red \/ tornDownBadly)
  /\ UNCHANGED <<circumstances, phase, scheduled, disabled, handed, answerFile, differ, asked,
                 accounts, statement, final, wphase, wcoll, ran, crashItem>>

\* A test the answer left out is skipped; its teardown, where the fixtures of
\* the tests before it are torn down, may still report a failure.
SkipTest(w, t, r, tornDownBadly) ==
  /\ MayRun(w, t)
  /\ LeavesOut(w, r, t)
  /\ tornDownBadly => ran[w] # {}
  /\ Load(w, r)
  /\ skipped' = [skipped EXCEPT ![w] = @ \cup {t}]
  /\ failedOnSkipped' = (failedOnSkipped \/ tornDownBadly)
  /\ red' = (red \/ tornDownBadly)
  /\ UNCHANGED <<circumstances, phase, scheduled, disabled, handed, answerFile, differ, asked,
                 couldNotRead, crashed, statement, final, wphase, wcoll, ran, crashItem>>

\* The worker dies, between tests or while it runs one.
CrashIdle(w) ==
  /\ phase = "running" /\ wphase[w] \in {"booted", "collected"}
  /\ wphase' = [wphase EXCEPT ![w] = "crashed"]
  /\ UNCHANGED <<circumstances, phase, scheduled, disabled, handed, answerFile, differ, asked,
                 accounts, statement, tested, wcoll, wread, wkeep, ran, skipped, crashItem>>

CrashInTest(w, t, r) ==
  /\ MayRun(w, t)
  /\ Load(w, r)
  /\ wphase' = [wphase EXCEPT ![w] = "crashed"]
  /\ crashItem' = [crashItem EXCEPT ![w] = t]
  /\ ran' = IF LeavesOut(w, r, t) THEN ran ELSE [ran EXCEPT ![w] = @ \cup {t}]
  /\ UNCHANGED <<circumstances, phase, scheduled, disabled, handed, answerFile, differ, asked,
                 accounts, statement, tested, wcoll, skipped>>

\* The worker's own session finish puts its account in workeroutput.
WorkerFinish(w) ==
  /\ phase = "running" /\ wphase[w] = "collected"
  /\ wphase' = [wphase EXCEPT ![w] = "finished"]
  /\ UNCHANGED <<circumstances, phase, scheduled, disabled, handed, answerFile, differ, asked,
                 accounts, statement, tested, wcoll, wread, wkeep, ran, skipped, crashItem>>

\* pytest_testnodedown for a worker that finished: the controller reads its account.
NodeDown(w) ==
  /\ phase = "running" /\ wphase[w] = "finished"
  /\ couldNotRead' = IF wread[w] \in CouldNotRead THEN couldNotRead \cup {w} ELSE couldNotRead
  /\ wphase' = [wphase EXCEPT ![w] = "down"]
  /\ UNCHANGED <<circumstances, phase, scheduled, disabled, handed, answerFile, differ, asked,
                 crashed, failedOnSkipped, statement, tested,
                 wcoll, wread, wkeep, ran, skipped, crashItem>>

\* pytest_testnodedown for one that died: there is no account, and xdist logs a
\* failure of its own making for the test it was running.
NodeErrorDown(w) ==
  /\ phase = "running" /\ wphase[w] = "crashed"
  /\ crashed' = TRUE
  /\ final' = IF crashItem[w] = NoItem THEN final
              ELSE V!Record(final, crashItem[w], CrashReport)
  /\ red' = (red \/ crashItem[w] # NoItem)
  /\ wphase' = [wphase EXCEPT ![w] = "dead"]
  /\ UNCHANGED <<circumstances, phase, scheduled, disabled, handed, answerFile, differ, asked,
                 couldNotRead, failedOnSkipped, statement,
                 wcoll, wread, wkeep, ran, skipped, crashItem>>

-----------------------------------------------------------------------------
(* The end of the run.                                                     *)

\* Every worker's account of the run has reached the controller.
Accounted == \A w \in Nodes : wphase[w] \in Gone

\* xdist's loop is over: every worker is down, or an interruption (Ctrl-C, a
\* cancelled job, --maxfail) cut it short and no later event is read; and so it
\* is after a refusal.  Interruptions come at any time.
LoopOver == phase \in {"running", "stopped"}

\* Mutated form: the workers' own accounts are not consulted.
SettleReasonFromCollections == IF differ THEN "xdist_collections_differ" ELSE "none"

\* What _settle_xdist_selection finds wrong with the run.
SettleReason ==
  IF differ THEN "xdist_collections_differ"
  ELSE IF couldNotRead # {} THEN "xdist_worker_could_not_read_answer"
  ELSE "none"

\* ... and whether it declares the answer not applied.
DeclaresNotApplied ==
  /\ keep # Everything
  /\ SettleReason # "none"
  /\ notApplied = "none"

\* Mutated form: a crashed worker does not withhold the verdict.
SettleDespiteCrash ==
  /\ file' = NoFile
  /\ withheld' = (withheld \/ DeclaresNotApplied \/ (keep # Everything /\ failedOnSkipped))
  /\ notApplied' = IF DeclaresNotApplied THEN SettleReason ELSE notApplied
  /\ echo' = IF DeclaresNotApplied THEN Echo(answer, Len(collected), notApplied') ELSE echo

Settle ==
  /\ file' = NoFile
  /\ withheld' = (withheld \/ DeclaresNotApplied
                   \/ (keep # Everything /\ (failedOnSkipped \/ crashed)))
  /\ notApplied' = IF DeclaresNotApplied THEN SettleReason ELSE notApplied
  /\ echo' = IF DeclaresNotApplied THEN Echo(answer, Len(collected), notApplied') ELSE echo

\* _finalize_and_export: the verdict goes unless it is withheld or nothing was asked.
Finalize(isWithheld) == sent' = (~isWithheld /\ answer # NotAsked)

SessionFinish ==
  /\ LoopOver
  /\ Settle
  /\ Finalize(withheld')
  /\ phase' = "settled"
  /\ UNCHANGED <<circumstances, scheduled, disabled, handed, diskFailed, differ, asked, accounts,
                 workers, tested>>

\* Another plugin's session finish raised before this plugin's wrapper ran: the
\* atexit backstop flushes what there is.
AtexitBackstop ==
  /\ LoopOver
  /\ Finalize(withheld)
  /\ phase' = "flushed"
  /\ UNCHANGED <<circumstances, scheduled, disabled, handed, answerFile, differ, asked, accounts,
                 withheld, notApplied, echo, workers, tested>>

\* The process has exited.
Exited ==
  /\ phase \in {"settled", "flushed"}
  /\ UNCHANGED vars

-----------------------------------------------------------------------------
CollectionFinished(w) ==
  \E c \in Collections :
    \/ FirstCollectionDisabled(w, c)
    \/ \E a \in ServedAnswers : FirstCollectionAsks(w, c, a) \/ FirstCollectionRefused(w, c, a)
    \/ LaterCollection(w, c)

RunOrSkip(w) ==
  /\ wphase[w] = "collected"
  /\ \E t \in Range(wcoll[w]), r \in AnswerRead(w) :
       \/ \E o \in {"passed", "failed"} : RunTest(w, t, r, o)
       \/ \E bad \in BOOLEAN : SkipTest(w, t, r, bad)
       \/ CrashInTest(w, t, r)

Next ==
  \/ \E w \in Nodes :
       \/ ConfigureNode(w) \/ ReplaceNode(w)
       \/ CollectionFinished(w)
       \/ RunOrSkip(w)
       \/ CrashIdle(w) \/ WorkerFinish(w) \/ NodeDown(w) \/ NodeErrorDown(w)
  \/ Schedule \/ RefuseToSchedule
  \/ SessionFinish \/ AtexitBackstop
  \/ Exited

Spec == Init /\ [][Next]_vars

-----------------------------------------------------------------------------
(* What must hold.                                                         *)

RunTypes ==
  /\ opted \in BOOLEAN /\ dist \in {"load", "each"} /\ remote \subseteq Nodes
  /\ phase \in {"configuring", "running", "stopped", "settled", "flushed"}
  /\ scheduled \in BOOLEAN

AnswerTypes ==
  /\ disabled \in BOOLEAN /\ handed \subseteq Nodes
  /\ file \in {NoFile} \cup [fingerprint : [Tests -> Nat], keep : KeepSet]
  /\ diskFailed \in BOOLEAN
  /\ collected \in Collections \cup {NoCollection}
  /\ answer \in Answers \cup {NotAsked}
  /\ keep \in KeepSet
  /\ keep # Everything => collected # NoCollection

AccountTypes ==
  /\ couldNotRead \subseteq Nodes
  /\ crashed \in BOOLEAN /\ differ \in BOOLEAN /\ failedOnSkipped \in BOOLEAN
  /\ final \in [Tests -> V!Status]
  /\ red \in BOOLEAN

StatementTypes ==
  /\ withheld \in BOOLEAN /\ sent \in BOOLEAN
  /\ notApplied \in NotAppliedReason
  /\ echo \in [answer : Selections \cup {"none"}, kept : Nat, notApplied : NotAppliedReason]
  /\ IF collected = NoCollection THEN echo = NoEcho ELSE echo.kept <= Len(collected)

WorkerTypes ==
  /\ wphase \in [Nodes -> WorkerPhase]
  /\ wcoll \in [Nodes -> Collections \cup {NoCollection}]
  /\ \A w \in Nodes : wphase[w] = "collected" => wcoll[w] # NoCollection
  /\ wread \in [Nodes -> ReadResult]
  /\ wkeep \in [Nodes -> KeepSet]
  /\ ran \in [Nodes -> SUBSET Tests]
  /\ skipped \in [Nodes -> SUBSET Tests]
  /\ crashItem \in [Nodes -> Tests \cup {NoItem}]

\* Every variable holds a value of its kind; a reduction and a running worker each
\* have a collection behind them, and a reported kept count never exceeds it.
TypeOK == RunTypes /\ AnswerTypes /\ AccountTypes /\ StatementTypes /\ WorkerTypes

\* "The one outcome this must never produce is a test skipped on an answer that
\* was not about it" (XdistSelectionWorker): a worker only skips on the answer
\* the controller decided, about the very collection this worker made, and only
\* tests that answer leaves out.
SkipsOnlyTheLeftOut ==
  \A w \in Nodes : skipped[w] # {} =>
    /\ keep # Everything
    /\ collected # NoCollection
    /\ Fingerprint(wcoll[w]) = Fingerprint(collected)
    /\ skipped[w] \cap keep = {}

\* The answer reduced the run, as far as the run declares.
Reduced == keep # Everything /\ notApplied = "none"

\* What the session has concluded, as far as it knows what its workers did.
Conclusion ==
  IF phase \notin {"settled", "flushed"} THEN "open"
  ELSE IF phase = "settled" /\ sent /\ Accounted /\ Reduced THEN "reduced" ELSE "other"

IsDecided == collected # NoCollection
Executed  == UNION {ran[w] : w \in Nodes}
LeftOut   == UNION {skipped[w] : w \in Nodes}

Contract == INSTANCE SelectionContract WITH
  decided <- IsDecided, executed <- Executed, leftOut <- LeftOut, conclusion <- Conclusion

\* The controller and its workers, file, crashes and all, are together one client
\* that decides once, before any test; never revises it, whatever workers report
\* later or come instead of crashed ones; leaves out nothing else on any worker;
\* and runs nothing once it has concluded.
ImplementsContract == Contract!Spec

\* A verdict that goes out under a reduction describes that reduction: once every
\* worker's account is in, no worker ran a test the answer left out, and no such
\* test is in the verdict.  A blind worker, a crashed one and a late one all make
\* the run something else, and the verdict is then withheld.
VerdictDescribesTheRun ==
  (phase = "settled" /\ sent /\ Accounted /\ Reduced) =>
    /\ V!Executed(final) \subseteq keep
    /\ \A w \in Nodes : ran[w] \subseteq keep

\* Nor do the spans and the terminal block announce a reduction the run did not
\* make, verdict or no verdict (what MRGFY-8632 started from).  A run with a crashed
\* worker is exempt, where the docstring of _settle_xdist_selection
\* (__init__.py:575) promises more: a crash withholds the verdict, but leaves the
\* reduction announced whatever the worker that died made of the answer.
NoFalseReduction ==
  (phase = "settled" /\ Accounted /\ ~crashed /\ Reduced) =>
    /\ echo.notApplied = "none"
    /\ \A w \in Nodes : ran[w] \subseteq keep

\* A run pytest has a failure of its own to exit non-zero over is never described by
\* a verdict without a failing test, from which the next rerun would be answered
\* "nothing to replay", with one exception: pytest stopped it before its first test,
\* on a refusal (__init__.py:209-215) or because the workers' collections differ,
\* and the verdict then says that nothing was executed, and of no reduced run.
\* Interruptions and collection errors, which also exit non-zero, are no such
\* failure: the plugin folds what was logged until then.
RedRunHasAFailure ==
  (phase = "settled" /\ sent /\ red) =>
    \/ V!Failing(final) # {}
    \/ ~scheduled /\ V!Executed(final) = {} /\ ~Reduced

\* A worker holding a path does not wait for a file that was never going to
\* come: only a disk error leaves it waiting.
NoWorkerWaitsInVain ==
  (\E w \in Nodes : wread[w] = "missing") => diskFailed

\* A refusal ends the run before any test, on every worker.
RefusalRunsNothing ==
  Refuses(answer) =>
    /\ \A w \in Nodes : ran[w] = {} /\ skipped[w] = {}
    /\ keep = Everything

\* _settle_xdist_selection "decide[s] what the run may say about the answer, before
\* anything leaves": with every account in, no verdict of a reduced run is sent
\* over a run that did something else, whichever of the two paths sends it.
NothingLeavesUnsettled ==
  (sent /\ Accounted /\ Reduced) => \A w \in Nodes : ran[w] \subseteq keep
=============================================================================
