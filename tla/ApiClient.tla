----------------------------- MODULE ApiClient -----------------------------
(***************************************************************************)
(* One session's calls to the Mergify API through mergify-ci-api's Client  *)
(* (client.rs): the three fetches, then the session verdict, then the      *)
(* trace upload, against a server that may refuse, be down, or do the work *)
(* and lose the answer.  Fetches and verdict fail open, the upload fails   *)
(* loud.  The clients' order of the calls is ci_insights.py's and          *)
(* __init__.py's (_finalize_and_export).  External: the server.            *)
(***************************************************************************)
EXTENDS Integers, FiniteSets, SequencesExt

CONSTANTS
  MaxAttempts,  \* RetryPolicy.max_attempts
  Pages,        \* the URLs of the quarantine listing's pages
  FirstPage,    \* the one the first, page-less request is answered with
  NoLink,       \* no rel="next"
  Listings,     \* the ways the server may link its pages
  Traces,       \* the traces a session may upload: the gzipped weight of each span
  Cap           \* MAX_GZIPPED_UPLOAD_BYTES, in the same weights

ASSUME ClientAssumption ==
  /\ MaxAttempts \in Nat \ {0} /\ Cap \in Nat
  /\ IsFiniteSet(Pages) /\ FirstPage \in Pages /\ NoLink \notin Pages
  /\ Listings \subseteq [Pages -> Pages \cup {NoLink}]
  /\ Traces \subseteq Seq(Nat)

Calls  == <<"context", "quarantine", "selection", "verdict", "trace">>
Status == {"ok", "402", "404", "408", "413", "429", "other 4xx", "5xx"}
\* What comes back of a request: a status, or none (connection, timeout, TLS).
Answer == Status \cup {"transport"}

VARIABLES
  link,       \* the server's listing: the rel="next" of each page
  weights,    \* the spans to upload
  oversized,  \* the verdict's ids outgrow MAX_GZIPPED_VERDICT_BYTES
  stage,      \* the call in hand, an index of Calls
  result,     \* of the call that ended last
  page, seen, names,      \* fetch_quarantine; names: the pages read, in order
  attempt,                \* post_gzipped's
  truncated, compressed,  \* send_verdict_with_cap: the flag, the body it sends
  pending, batch,         \* upload_with_cap: spans as intervals <<first, last>>
  stored, landed,         \* the server's: verdict bodies, times each span was stored
  posts, lost             \* history: verdict requests; the work was done and the answer lost

setting == <<link, weights, oversized>>
listing == <<page, seen, names>>
verdict == <<truncated, compressed, stored, posts>>
trace   == <<pending, batch, landed>>
vars == <<setting, stage, result, listing, attempt, verdict, trace, lost>>

Spans    == 1..Len(weights)
NoBatch  == <<0, 0>>
Stage(c) == stage <= Len(Calls) /\ Calls[stage] = c

\* The statuses that read as a feature the repository does not have.
DormantStatus(c) ==
  CASE c = "quarantine" -> {"402"}
    [] c = "context"    -> {"404"}
    [] OTHER            -> {"402", "404"}

End(c, r) == result' = r /\ stage' = stage + 1
Ended(c)  == stage > 1 /\ Calls[stage - 1] = c

-----------------------------------------------------------------------------
Init ==
  /\ link \in Listings
  /\ weights \in Traces /\ oversized \in BOOLEAN
  /\ stage = 1 /\ result = "none"
  /\ page = NoLink /\ seen = {} /\ names = <<>>
  /\ attempt = 1
  /\ truncated = oversized /\ compressed = (IF oversized THEN "counts" ELSE "full")
  /\ pending = <<<<1, Len(weights)>>>> /\ batch = NoBatch
  /\ stored = {} /\ landed = [s \in Spans |-> 0] /\ posts = 0 /\ lost = FALSE

\* The names of a page, after those of the pages before it.  A list longer than
\* the listing holds a page twice: it is followed no further.
Read(p) == IF Len(names) > Cardinality(Pages) THEN names ELSE Append(names, p)

\* Mutated form: the pages already fetched are not looked at.
QuarantineCyclesUnseen == FALSE

\* fetch_quarantine, one page: the first request names no page, so the page it
\* is answered with is not in `seen'.
QuarantineCycles == page \in seen

\* Mutated form: a cycle ends the listing.
QuarantineCycleReturned ==
  /\ Stage("quarantine") /\ QuarantineCycles
  /\ End("quarantine", "ready")
  /\ UNCHANGED <<setting, listing, attempt, verdict, trace, lost>>

QuarantineCycleFound ==
  /\ Stage("quarantine") /\ QuarantineCycles
  /\ End("quarantine", "failed")
  /\ UNCHANGED <<setting, listing, attempt, verdict, trace, lost>>

\* Any other status, no answer, or an answered body that is unreadable.
QuarantineFails ==
  /\ Stage("quarantine") /\ ~QuarantineCycles
  /\ \E a \in Answer \ DormantStatus("quarantine") : End("quarantine", "failed")
  /\ UNCHANGED <<setting, listing, attempt, verdict, trace, lost>>

QuarantineDormant ==
  /\ Stage("quarantine") /\ ~QuarantineCycles
  /\ \E a \in DormantStatus("quarantine") : End("quarantine", "dormant")
  /\ UNCHANGED <<setting, listing, attempt, verdict, trace, lost>>

QuarantinePage ==
  /\ Stage("quarantine") /\ ~QuarantineCycles
  /\ LET served == IF page = NoLink THEN FirstPage ELSE page IN
     /\ names' = Read(served)
     /\ seen' = IF page = NoLink THEN seen ELSE seen \cup {page}
     /\ page' = link[served]
     /\ IF page' = NoLink THEN End("quarantine", "ready") ELSE UNCHANGED <<stage, result>>
  /\ UNCHANGED <<setting, attempt, verdict, trace, lost>>

\* fetch_flaky_context and fetch_test_selection; an answered body may be
\* unreadable, or a subset without its tests.  The locals of fetch_quarantine are
\* gone by then.
Fetch(c) ==
  /\ Stage(c)
  /\ \E a \in Answer :
       \/ a = "ok" /\ End(c, "ready")
       \/ a \in DormantStatus(c) /\ End(c, "dormant")
       \/ a \notin DormantStatus(c) /\ End(c, "failed")
  /\ page' = NoLink /\ seen' = {} /\ names' = <<>>
  /\ UNCHANGED <<setting, attempt, verdict, trace, lost>>

-----------------------------------------------------------------------------
IsRetryable(a) == a \in {"408", "5xx", "transport"}

\* Mutated form: one attempt too many.
RetriesOnceMore(a) == IsRetryable(a) /\ attempt <= MaxAttempts

Retries(a) == IsRetryable(a) /\ attempt < MaxAttempts

\* Whether the server did the work of a request answered with `a': a timeout, a
\* broken connection or a gateway's 5xx may hide that it did.
Works(a) == {w \in BOOLEAN : (a = "ok" => w) /\ (w => a = "ok" \/ IsRetryable(a))}

\* One POST of the verdict's body.
PostVerdict(a, w) ==
  /\ Stage("verdict") /\ w \in Works(a)
  /\ stored' = IF w THEN stored \cup {compressed} ELSE stored
  /\ posts' = posts + 1
  /\ lost' = (lost \/ (w /\ a # "ok"))
  /\ UNCHANGED <<setting, listing, trace>>

VerdictLands ==
  /\ PostVerdict("ok", TRUE) /\ End("verdict", "ready")
  /\ attempt' = 1 /\ UNCHANGED <<truncated, compressed>>

VerdictRetried ==
  /\ \E a \in Answer, w \in BOOLEAN : Retries(a) /\ PostVerdict(a, w)
  /\ attempt' = attempt + 1
  /\ UNCHANGED <<stage, result, truncated, compressed>>

VerdictDormant ==
  /\ \E a \in DormantStatus("verdict") : PostVerdict(a, FALSE)
  /\ End("verdict", "dormant")
  /\ attempt' = 1 /\ UNCHANGED <<truncated, compressed>>

\* Mutated form: a 413 truncates whatever was sent.
TruncatesOnAny(a) == a = "413"

\* A 413 on the full body: its counts go out instead, with attempts of their own.
TruncatesOn(a) == a = "413" /\ ~truncated

\* Mutated form: the truncated verdict is not compressed again.
VerdictTruncatedStale ==
  /\ \E a \in Answer : TruncatesOn(a) /\ PostVerdict(a, FALSE)
  /\ truncated' = TRUE /\ attempt' = 1
  /\ UNCHANGED <<stage, result, compressed>>

VerdictTruncated ==
  /\ \E a \in Answer : TruncatesOn(a) /\ PostVerdict(a, FALSE)
  /\ truncated' = TRUE /\ compressed' = "counts" /\ attempt' = 1
  /\ UNCHANGED <<stage, result>>

VerdictFails ==
  /\ \E a \in Answer, w \in BOOLEAN :
       /\ a \notin {"ok"} \cup DormantStatus("verdict")
       /\ ~Retries(a) /\ ~TruncatesOn(a)
       /\ PostVerdict(a, w)
  /\ End("verdict", "failed")
  /\ attempt' = 1 /\ UNCHANGED <<truncated, compressed>>

-----------------------------------------------------------------------------
WeightIn(ws, b) == FoldLeft(LAMBDA x, y : x + y, 0, SubSeq(ws, b[1], b[2]))
Weight(b) == WeightIn(weights, b)
Size(b)   == b[2] - b[1] + 1

\* Mutated form: pairs are not split.
SplitsFromThree(b) == ~(Weight(b) <= Cap \/ Size(b) <= 2)

Splits(b) == ~(Weight(b) <= Cap \/ Size(b) <= 1)
Middle(b) == b[1] + Size(b) \div 2

\* Mutated form: the middle span is in neither half.
HalvesApart(b) == <<<<b[1], Middle(b) - 1>>, <<Middle(b) + 1, b[2]>>>>

\* Mutated form: the middle span is in both.
HalvesOverlapping(b) == <<<<b[1], Middle(b)>>, <<Middle(b), b[2]>>>>

\* The halves of a batch, in the order they are pushed.
Halves(b) == <<<<b[1], Middle(b) - 1>>, <<Middle(b), b[2]>>>>

\* upload_with_cap between two requests: the last pushed batch is split or sent.
SplitBatch ==
  /\ Stage("trace") /\ weights # <<>> /\ batch = NoBatch /\ pending # <<>>
  /\ IF Splits(Last(pending))
       THEN pending' = Front(pending) \o Halves(Last(pending)) /\ UNCHANGED batch
       ELSE pending' = Front(pending) /\ batch' = Last(pending)
  /\ UNCHANGED <<setting, stage, result, listing, attempt, verdict, landed, lost>>

UploadDone ==
  /\ Stage("trace") /\ (weights = <<>> \/ (batch = NoBatch /\ pending = <<>>))
  /\ End("trace", "ready")
  /\ UNCHANGED <<setting, listing, attempt, verdict, trace, lost>>

PostBatch(a, w) ==
  /\ Stage("trace") /\ batch # NoBatch /\ w \in Works(a)
  /\ landed' = [s \in Spans |->
                  IF w /\ s \in batch[1]..batch[2] THEN landed[s] + 1 ELSE landed[s]]
  /\ lost' = (lost \/ (w /\ a # "ok"))
  /\ UNCHANGED <<setting, listing, verdict, pending>>

BatchLands ==
  /\ PostBatch("ok", TRUE)
  /\ batch' = NoBatch /\ attempt' = 1 /\ UNCHANGED <<stage, result>>

BatchRetried ==
  /\ \E a \in Answer, w \in BOOLEAN : Retries(a) /\ PostBatch(a, w)
  /\ attempt' = attempt + 1 /\ UNCHANGED <<stage, result, batch>>

\* The first batch that fails ends the upload: what is pending is not sent.
BatchFails ==
  /\ \E a \in Answer \ {"ok"}, w \in BOOLEAN : ~Retries(a) /\ PostBatch(a, w)
  /\ End("trace", "failed")
  /\ UNCHANGED <<attempt, batch>>

Next ==
  \/ QuarantineCycleFound \/ QuarantineFails \/ QuarantineDormant \/ QuarantinePage
  \/ Fetch("context") \/ Fetch("selection")
  \/ VerdictLands \/ VerdictRetried \/ VerdictDormant \/ VerdictTruncated \/ VerdictFails
  \/ SplitBatch \/ UploadDone \/ BatchLands \/ BatchRetried \/ BatchFails

\* Every request ends, at the latest when its timeout does.
Spec == Init /\ [][Next]_vars /\ WF_vars(Next)

-----------------------------------------------------------------------------
Result == {"none", "ready", "dormant", "failed"}
Interval == (0..(Len(weights) + 1)) \X (0..Len(weights))

\* The client's own bookkeeping and the server's.
TypeOK ==
  /\ link \in Listings /\ weights \in Traces /\ oversized \in BOOLEAN
  /\ stage \in 1..(Len(Calls) + 1) /\ result \in Result
  /\ page \in Pages \cup {NoLink} /\ seen \subseteq Pages /\ names \in Seq(Pages)
  /\ attempt \in 1..MaxAttempts
  /\ truncated \in BOOLEAN /\ compressed \in {"full", "counts"}
  /\ pending \in Seq(Interval) /\ batch \in Interval
  /\ stored \subseteq {"full", "counts"} /\ landed \in [Spans -> Nat]
  /\ posts \in Nat /\ lost \in BOOLEAN

\* A quarantine list handed to the run is the whole listing, each page once: a
\* listing that loops, whatever page it loops back to, never passes for complete.
ReadyListIsWhole ==
  Ended("quarantine") /\ result = "ready" =>
    /\ IsInjective(names) /\ names[1] = FirstPage
    /\ \A i \in 1..Len(names) :
         link[names[i]] = IF i < Len(names) THEN names[i + 1] ELSE NoLink

\* A receipt is true: the server holds a verdict, with its ids exactly when the
\* receipt does not say they were left out; and however many 413s it answers, it
\* was asked in one round of attempts, and one more for a body it found too large.
ReceiptIsTrue ==
  /\ Ended("verdict") /\ result = "ready" => (IF truncated THEN "counts" ELSE "full") \in stored
  /\ posts <= MaxAttempts * (IF oversized THEN 1 ELSE 2)

\* However a trace was split: an upload that reports success left no span behind; a
\* span is stored twice only where an answer was lost; and only a batch that cannot
\* be split further exceeds the cap.
UploadIsExact ==
  /\ Ended("trace") /\ result = "ready" => \A s \in Spans : landed[s] >= 1
  /\ ~lost => \A s \in Spans : landed[s] <= 1
  /\ batch # NoBatch => Weight(batch) <= Cap \/ batch[1] = batch[2]

\* Whatever the server answers, forever, the session gets past its calls.
CallsEnd == <>(stage > Len(Calls))
=============================================================================
