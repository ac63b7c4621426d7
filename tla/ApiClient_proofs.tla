-------------------------- MODULE ApiClient_proofs --------------------------
(***************************************************************************)
(* What the calls of a session are worth, for any listing, trace, cap and  *)
(* number of attempts, and whatever the server answers.  The invariant     *)
(* follows the listing read so far, the verdict's rounds, and the spans    *)
(* still to be sent, which stay a prefix of the trace.                     *)
(***************************************************************************)
EXTENDS ApiClient, FiniteSetTheorems, SequenceTheorems, TLAPS

\* The pages read form a chain, and only the one to read next may be a page of it.
Chained ==
  /\ names = <<>> => page = NoLink
  /\ names # <<>> => names[1] = FirstPage /\ page = link[names[Len(names)]]
  /\ \A i \in 1..(Len(names) - 1) : names[i + 1] = link[names[i]]
  /\ seen = {names[i] : i \in 2..Len(names)}
  /\ page \notin seen => IsInjective(names)
  /\ stage = 1 => names = <<>>
  /\ stage = 2 /\ names # <<>> => page # NoLink
  /\ stage = 3 /\ result = "ready" => page = NoLink /\ names # <<>>

\* The body is the flag's, and a second round of attempts is the truncated one's.
Rounds ==
  /\ compressed = (IF truncated THEN "counts" ELSE "full")
  /\ oversized => truncated
  /\ stage < 4 => posts = 0 /\ attempt = 1 /\ truncated = oversized
  /\ stage = 4 => posts <= attempt - 1 + (IF truncated /\ ~oversized THEN MaxAttempts ELSE 0)
  /\ posts <= (IF oversized THEN MaxAttempts ELSE MaxAttempts + MaxAttempts)
  /\ stage = 5 /\ result = "ready" => compressed \in stored

\* The last span still pending, and the last that has not landed for good.
Bottom == IF pending = <<>> THEN 0 ELSE pending[Len(pending)][2]
Ahead  == IF batch = NoBatch THEN Bottom ELSE batch[2]

Proper(b) == 1 <= b[1] /\ b[1] <= b[2] /\ b[2] <= Len(weights)

Laid ==
  /\ \A i \in 1..Len(pending) : Proper(pending[i])
  /\ pending # <<>> => pending[1][1] = 1
  /\ \A i \in 1..(Len(pending) - 1) : pending[i + 1][1] = pending[i][2] + 1
  /\ batch # NoBatch => /\ batch[1] = Bottom + 1 /\ Proper(batch)
                        /\ Weight(batch) <= Cap \/ batch[1] = batch[2]

Sent ==
  \A s \in Spans : /\ s > Ahead => landed[s] >= 1
                   /\ ~lost => landed[s] <= 1
                   /\ ~lost /\ s <= Ahead => landed[s] = 0

Uploading ==
  /\ weights # <<>> => Laid /\ Sent
  /\ weights = <<>> => batch = NoBatch
  /\ stage = 6 /\ result = "ready" => weights = <<>> \/ (batch = NoBatch /\ pending = <<>>)

IInv == TypeOK /\ Chained /\ Rounds /\ Uploading

-----------------------------------------------------------------------------
\* Which call is in hand, and which ended last.
LEMMA Stages ==
  ASSUME stage \in 1..6
  PROVE  /\ Stage("context") <=> stage = 1
         /\ Stage("quarantine") <=> stage = 2
         /\ Stage("selection") <=> stage = 3
         /\ Stage("verdict") <=> stage = 4
         /\ Stage("trace") <=> stage = 5
         /\ Ended("quarantine") <=> stage = 3
         /\ Ended("verdict") <=> stage = 5
         /\ Ended("trace") <=> stage = 6
<1>1. Len(Calls) = 5
  BY DEF Calls
<1>2. /\ Calls[1] = "context" /\ Calls[2] = "quarantine" /\ Calls[3] = "selection"
      /\ Calls[4] = "verdict" /\ Calls[5] = "trace"
  BY DEF Calls
<1>3. stage \in {1, 2, 3, 4, 5, 6}
  OBVIOUS
<1> QED BY <1>1, <1>2, <1>3 DEF Stage, Ended

LEMMA StageTyped == TypeOK <=> TypeOK /\ stage \in 1..6
<1>1. Len(Calls) = 5
  BY DEF Calls
<1> QED BY <1>1 DEF TypeOK

LEMMA InitIInv == ASSUME Init PROVE IInv
<1>1. /\ link \in Listings /\ weights \in Traces /\ oversized \in BOOLEAN /\ stage = 1
      /\ result = "none" /\ page = NoLink /\ seen = {} /\ names = <<>> /\ attempt = 1
      /\ truncated = oversized /\ compressed = (IF oversized THEN "counts" ELSE "full")
      /\ pending = <<<<1, Len(weights)>>>> /\ batch = NoBatch
      /\ stored = {} /\ landed = [s \in Spans |-> 0] /\ posts = 0 /\ lost = FALSE
  BY DEF Init
<1>2. /\ weights \in Seq(Nat) /\ Len(weights) \in Nat /\ MaxAttempts \in Nat \ {0}
      /\ weights # <<>> => Len(weights) >= 1
  BY <1>1, ClientAssumption
<1>3. Len(Calls) = 5
  BY DEF Calls
<1>4. /\ pending \in Seq(Interval) /\ batch \in Interval /\ Len(pending) = 1
      /\ pending[1] = <<1, Len(weights)>> /\ pending # <<>>
  BY <1>1, <1>2 DEF Interval, NoBatch
<1>5. TypeOK
  <2>1. stage \in 1..(Len(Calls) + 1) /\ attempt \in 1..MaxAttempts
    BY <1>1, <1>2, <1>3
  <2>2. landed \in [Spans -> Nat] /\ names \in Seq(Pages)
    BY <1>1
  <2>3. result \in Result /\ compressed \in {"full", "counts"} /\ truncated \in BOOLEAN
    BY <1>1 DEF Result
  <2>4. seen \subseteq Pages /\ stored \subseteq {"full", "counts"} /\ posts \in Nat /\ lost \in BOOLEAN
    BY <1>1
  <2> QED BY <1>1, <1>4, <2>1, <2>2, <2>3, <2>4 DEF TypeOK
<1>6. Chained
  BY <1>1 DEF Chained, IsInjective
<1>7. Rounds
  BY <1>1, <1>2 DEF Rounds
<1>8. Uploading
  <2>1. Ahead = Len(weights) /\ Bottom = Len(weights)
    BY <1>1, <1>4 DEF Ahead, Bottom
  <2>2. weights # <<>> => Laid
    BY <1>1, <1>2, <1>4 DEF Laid, Proper
  <2>3. Sent
    BY <1>1, <1>2, <2>1 DEF Sent, Spans
  <2> QED BY <1>1, <2>2, <2>3 DEF Uploading
<1> QED BY <1>5, <1>6, <1>7, <1>8 DEF IInv

-----------------------------------------------------------------------------
(* The listing.                                                            *)

\* What the other calls leave alone.
LEMMA ChainKept ==
  ASSUME Chained, UNCHANGED <<link, names, seen, page>>,
         stage' = 1 => stage = 1, stage' = 2 => stage = 2,
         stage' = 3 /\ result' = "ready" => stage = 3 /\ result = "ready"
  PROVE  Chained'
BY DEF Chained

LEMMA RoundsKept ==
  ASSUME Rounds, UNCHANGED <<oversized, truncated, compressed, stored, posts, attempt>>,
         stage' < 4 => stage < 4, stage \in 1..6, stage' \in 1..6, stage' = 4 => stage \in {3, 4},
         stage' = 5 /\ result' = "ready" => stage = 5 /\ result = "ready",
         MaxAttempts \in Nat
  PROVE  Rounds'
BY DEF Rounds

LEMMA UploadKept ==
  ASSUME Uploading, UNCHANGED <<weights, pending, batch, landed, lost>>,
         stage' = 6 /\ result' = "ready" => stage = 6 /\ result = "ready"
  PROVE  Uploading'
<1>1. Weight(batch)' = Weight(batch)
  BY DEF Weight
<1>2. /\ Bottom' = Bottom /\ Ahead' = Ahead /\ Spans' = Spans
      /\ \A b : Proper(b)' = Proper(b)
  BY DEF Bottom, Ahead, Spans, Proper
<1>3. (Laid' <=> Laid) /\ (Sent' <=> Sent)
  BY <1>1, <1>2 DEF Laid, Sent, Proper
<1> QED BY <1>3 DEF Uploading

\* A list of the listing's pages without a repetition fits in it.
LEMMA Pigeonhole ==
  ASSUME NEW s \in Seq(Pages), IsInjective(s)
  PROVE  Len(s) <= Cardinality(Pages)
<1>1. IsFiniteSet(Pages)
  BY ClientAssumption
<1>2. s \in Injection(1..Len(s), Pages)
  BY DEF Injection, IsInjective
<1>3. IsFiniteSet(1..Len(s)) /\ Cardinality(1..Len(s)) = Len(s)
  <2>1. Len(s) \in Nat
    OBVIOUS
  <2> QED BY <2>1, FS_Interval
<1>4. Cardinality(1..Len(s)) <= Cardinality(Pages)
  BY <1>1, <1>2, <1>3, FS_Injection
<1> QED BY <1>3, <1>4

\* One page more: it is new, or the first one, which is then its own successor's
\* predecessor and closes the loop at once.
LEMMA PageChained ==
  ASSUME IInv, QuarantinePage
  PROVE  Chained' /\ names' \in Seq(Pages) /\ seen' \subseteq Pages /\ page' \in Pages \cup {NoLink}
<1> DEFINE served == IF page = NoLink THEN FirstPage ELSE page
           n == Len(names)
<1>1. /\ stage \in 1..6 /\ names \in Seq(Pages) /\ seen \subseteq Pages /\ page \in Pages \cup {NoLink}
      /\ link \in [Pages -> Pages \cup {NoLink}] /\ FirstPage \in Pages /\ NoLink \notin Pages
  BY ClientAssumption, StageTyped DEF IInv, TypeOK
<1>2. /\ stage = 2 /\ page \notin seen /\ link' = link
      /\ names' = Read(served)
      /\ seen' = IF page = NoLink THEN seen ELSE seen \cup {page}
      /\ page' = link[served]
      /\ IF page' = NoLink THEN result' = "ready" /\ stage' = 3 ELSE stage' = 2
  BY <1>1, Stages DEF QuarantinePage, QuarantineCycles, End, setting
<1>3. served \in Pages
  BY <1>1
<1>4. /\ IsInjective(names) /\ n \in Nat /\ Cardinality(Pages) \in Nat /\ n <= Cardinality(Pages)
  <2>1. IsInjective(names)
    BY <1>2 DEF IInv, Chained
  <2>2. Cardinality(Pages) \in Nat
    BY ClientAssumption, FS_CardinalityType
  <2> QED BY <1>1, <2>1, <2>2, Pigeonhole
<1>5. names' = Append(names, served)
  BY <1>2, <1>4 DEF Read
<1>6. /\ names' \in Seq(Pages) /\ Len(names') = n + 1 /\ names'[n + 1] = served
      /\ \A i \in 1..n : names'[i] = names[i]
      /\ names' # <<>>
  BY <1>1, <1>3, <1>5
<1>7. (names = <<>>) <=> (page = NoLink)
  BY <1>2 DEF IInv, Chained
<1>8. n = 0 <=> names = <<>>
  BY <1>1
<1>9. /\ names'[1] = FirstPage
      /\ \A i \in 1..n : names'[i + 1] = link[names'[i]]
  <2>1. CASE n = 0
    BY <1>2, <1>6, <1>7, <1>8, <2>1
  <2>2. CASE n # 0
    <3>1. names[1] = FirstPage /\ page = link[names[n]]
      BY <1>8, <2>2 DEF IInv, Chained
    <3>2. served = page
      BY <1>7, <1>8, <2>2
    <3>3. \A i \in 1..(n - 1) : names[i + 1] = link[names[i]]
      BY DEF IInv, Chained
    <3>4. ASSUME NEW i \in 1..n PROVE names'[i + 1] = link[names'[i]]
      <4>1. CASE i = n
        BY <1>4, <1>6, <2>2, <3>1, <3>2, <4>1
      <4>2. CASE i # n
        <5>1. i \in 1..(n - 1) /\ i + 1 \in 1..n
          BY <1>4, <4>2
        <5> QED BY <1>6, <3>3, <5>1
      <4> QED BY <4>1, <4>2
    <3>5. names'[1] = FirstPage
      BY <1>4, <1>6, <2>2, <3>1
    <3> QED BY <3>4, <3>5
  <2> QED BY <2>1, <2>2
<1>10. seen' = {names'[i] : i \in 2..(n + 1)}
  <2>1. seen = {names[i] : i \in 2..n}
    BY DEF IInv, Chained
  <2>2. CASE n = 0
    BY <1>2, <1>4, <1>7, <1>8, <2>1, <2>2
  <2>3. CASE n # 0
    <3>1. served = page /\ page # NoLink /\ seen' = seen \cup {page}
      BY <1>2, <1>7, <1>8, <2>3
    <3>2. 2..(n + 1) = (2..n) \cup {n + 1} /\ \A i \in 2..n : i \in 1..n
      BY <1>4, <2>3
    <3> QED BY <1>6, <2>1, <3>1, <3>2
  <2> QED BY <2>2, <2>3
<1>11. page' \notin seen' => IsInjective(names')
  <2> SUFFICES ASSUME page' \notin seen' PROVE IsInjective(names')
    OBVIOUS
  <2>1. DOMAIN names' = 1..(n + 1) /\ DOMAIN names = 1..n
    BY <1>1, <1>6
  <2>2. ASSUME NEW i \in 1..n, names[i] = served PROVE FALSE
    <3>1. n # 0 /\ served = page
      BY <1>4, <1>7, <1>8, <2>2
    <3>2. i = 1
      <4>1. CASE i \in 2..n
        <5>1. page \in seen
          BY <2>2, <3>1, <4>1 DEF IInv, Chained
        <5> QED BY <1>2, <5>1
      <4> QED BY <1>4, <4>1
    <3>3. page' = names'[2]
      <4>1. names'[2] = link[names'[1]] /\ names'[1] = names[1]
        BY <1>4, <1>6, <1>9, <3>1
      <4> QED BY <1>2, <2>2, <3>2, <4>1
    <3>4. names'[2] \in seen'
      BY <1>4, <1>10, <3>1
    <3> QED BY <3>3, <3>4
  <2>3. ASSUME NEW i \in 1..(n + 1), NEW j \in 1..(n + 1), names'[i] = names'[j] PROVE i = j
    <3>1. \A k \in 1..(n + 1) : k = n + 1 \/ k \in 1..n
      BY <1>4
    <3>2. CASE i \in 1..n /\ j \in 1..n
      BY <1>4, <1>6, <2>1, <2>3, <3>2 DEF IsInjective
    <3> QED BY <1>6, <2>2, <2>3, <3>1, <3>2
  <2> QED BY <2>1, <2>3 DEF IsInjective
<1>12. Chained'
  <2>1. page' = link'[names'[Len(names')]]
    BY <1>2, <1>6
  <2> QED BY <1>2, <1>4, <1>6, <1>9, <1>10, <1>11, <2>1 DEF Chained
<1>13. seen' \subseteq Pages /\ page' \in Pages \cup {NoLink}
  BY <1>1, <1>2, <1>3
<1> QED BY <1>6, <1>12, <1>13

LEMMA ListingIInv ==
  ASSUME IInv, QuarantineCycleFound \/ QuarantineFails \/ QuarantineDormant \/ QuarantinePage
  PROVE  IInv'
<1>1. /\ stage \in 1..6 /\ MaxAttempts \in Nat
  BY ClientAssumption, StageTyped DEF IInv
<1>2. /\ stage = 2 /\ UNCHANGED <<setting, attempt, verdict, trace, lost>>
      /\ \/ UNCHANGED listing /\ stage' = 3 /\ result' \in {"failed", "dormant"}
         \/ QuarantinePage /\ ((stage' = 3 /\ result' = "ready") \/ UNCHANGED <<stage, result>>)
  BY <1>1, Stages DEF QuarantineCycleFound, QuarantineFails, QuarantineDormant, QuarantinePage, End
<1>3. /\ UNCHANGED <<link, weights, oversized, attempt, truncated, compressed, stored, posts,
                     pending, batch, landed, lost>>
  BY <1>2 DEF setting, verdict, trace
<1>4. Chained' /\ names' \in Seq(Pages) /\ seen' \subseteq Pages /\ page' \in Pages \cup {NoLink}
  <2>1. CASE QuarantinePage
    BY <2>1, PageChained
  <2>2. CASE UNCHANGED listing /\ stage' = 3 /\ result' \in {"failed", "dormant"}
    BY <1>2, <1>3, <2>2, ChainKept DEF listing, IInv, TypeOK
  <2> QED BY <1>2, <2>1, <2>2
<1>5. Rounds' /\ Uploading'
  BY <1>1, <1>2, <1>3, RoundsKept, UploadKept DEF IInv
<1>6. TypeOK'
  <2>1. Len(Calls) = 5
    BY DEF Calls
  <2>2. Spans' = Spans /\ Interval' = Interval
    BY <1>3 DEF Spans, Interval
  <2>3. stage' \in 1..(Len(Calls) + 1) /\ result' \in Result
    BY <1>1, <1>2, <2>1 DEF IInv, TypeOK, Result
  <2> QED BY <1>3, <1>4, <2>2, <2>3 DEF IInv, TypeOK
<1> QED BY <1>4, <1>5, <1>6 DEF IInv

LEMMA FetchIInv ==
  ASSUME IInv, NEW c \in {"context", "selection"}, Fetch(c)
  PROVE  IInv'
<1>1. stage \in 1..6 /\ MaxAttempts \in Nat
  BY ClientAssumption, StageTyped DEF IInv
<1>2. stage \in {1, 3} /\ stage' = stage + 1
  BY <1>1, Stages DEF Fetch, End
<1>3. /\ page' = NoLink /\ seen' = {} /\ names' = <<>> /\ result' \in {"ready", "dormant", "failed"}
      /\ UNCHANGED <<link, weights, oversized, attempt, truncated, compressed, stored, posts,
                     pending, batch, landed, lost>>
  BY DEF Fetch, End, setting, verdict, trace
<1>4. Chained'
  BY <1>1, <1>2, <1>3 DEF Chained, IsInjective
<1>5. Rounds' /\ Uploading'
  BY <1>1, <1>2, <1>3, RoundsKept, UploadKept DEF IInv
<1>6. TypeOK'
  <2>1. Len(Calls) = 5
    BY DEF Calls
  <2>2. Spans' = Spans /\ Interval' = Interval
    BY <1>3 DEF Spans, Interval
  <2>3. stage' \in 1..(Len(Calls) + 1) /\ result' \in Result /\ names' \in Seq(Pages) /\ seen' \subseteq Pages
    BY <1>2, <1>3, <2>1 DEF Result
  <2> QED BY <1>3, <2>2, <2>3 DEF IInv, TypeOK
<1> QED BY <1>4, <1>5, <1>6 DEF IInv

-----------------------------------------------------------------------------
(* The verdict.                                                            *)

\* Of a verdict's attempts: which body is sent, and how many there were.
LEMMA VerdictIInv ==
  ASSUME IInv, VerdictLands \/ VerdictRetried \/ VerdictDormant \/ VerdictTruncated \/ VerdictFails
  PROVE  IInv'
<1>1. stage \in 1..6 /\ MaxAttempts \in Nat \ {0} /\ attempt \in 1..MaxAttempts /\ posts \in Nat
  BY ClientAssumption, StageTyped DEF IInv, TypeOK
<1>2. /\ stage = 4 /\ posts' = posts + 1 /\ stored' \in {stored, stored \cup {compressed}}
      /\ UNCHANGED <<setting, listing, trace>>
      /\ lost => lost'
  BY <1>1, Stages DEF VerdictLands, VerdictRetried, VerdictDormant, VerdictTruncated, VerdictFails,
                      PostVerdict
<1>3. lost' \in BOOLEAN
  BY DEF VerdictLands, VerdictRetried, VerdictDormant, VerdictTruncated, VerdictFails, PostVerdict,
         IInv, TypeOK
<1>4. /\ compressed = (IF truncated THEN "counts" ELSE "full") /\ (oversized => truncated)
      /\ posts <= attempt - 1 + (IF truncated /\ ~oversized THEN MaxAttempts ELSE 0)
      /\ truncated \in BOOLEAN /\ oversized \in BOOLEAN
  BY <1>2 DEF IInv, Rounds, TypeOK
<1>5. \/ /\ stage' = 5 /\ attempt' = 1 /\ UNCHANGED <<truncated, compressed>>
         /\ result' \in {"dormant", "failed"} \/ (result' = "ready" /\ stored' = stored \cup {compressed})
      \/ /\ attempt < MaxAttempts /\ attempt' = attempt + 1
         /\ UNCHANGED <<stage, result, truncated, compressed>>
      \/ /\ ~truncated /\ truncated' = TRUE /\ compressed' = "counts" /\ attempt' = 1
         /\ UNCHANGED <<stage, result>>
  <2>1. CASE VerdictLands
    <3>1. stored' = stored \cup {compressed}
      BY <2>1 DEF VerdictLands, PostVerdict
    <3> QED BY <1>2, <2>1, <3>1 DEF VerdictLands, End
  <2>2. CASE VerdictRetried
    BY <2>2 DEF VerdictRetried, Retries
  <2>3. CASE VerdictDormant \/ VerdictFails
    <3>1. /\ End("verdict", "dormant") \/ End("verdict", "failed")
          /\ attempt' = 1 /\ UNCHANGED <<truncated, compressed>>
      BY <2>3 DEF VerdictDormant, VerdictFails
    <3> QED BY <1>2, <3>1 DEF End
  <2>4. CASE VerdictTruncated
    BY <2>4 DEF VerdictTruncated, TruncatesOn
  <2> QED BY <2>1, <2>2, <2>3, <2>4
<1>6. /\ UNCHANGED <<link, weights, oversized, page, seen, names, pending, batch, landed>>
  BY <1>2 DEF setting, listing, trace
<1>7. TypeOK'
  <2>1. Len(Calls) = 5
    BY DEF Calls
  <2>2. Spans' = Spans /\ Interval' = Interval
    BY <1>6 DEF Spans, Interval
  <2>3. /\ stage' \in 1..(Len(Calls) + 1) /\ attempt' \in 1..MaxAttempts
        /\ result' \in Result
    BY <1>1, <1>2, <1>5, <2>1 DEF IInv, TypeOK, Result
  <2>4. /\ truncated' \in BOOLEAN /\ compressed' \in {"full", "counts"} /\ posts' \in Nat
        /\ stored' \subseteq {"full", "counts"}
    <3>1. compressed \in {"full", "counts"} /\ stored \subseteq {"full", "counts"}
      BY DEF IInv, TypeOK
    <3>2. truncated' \in BOOLEAN /\ compressed' \in {"full", "counts"}
      BY <1>4, <1>5, <3>1
    <3>3. stored' \subseteq {"full", "counts"} /\ posts' \in Nat
      BY <1>1, <1>2, <3>1
    <3> QED BY <3>2, <3>3
  <2> QED BY <1>3, <1>6, <2>2, <2>3, <2>4 DEF IInv, TypeOK
<1>8. Chained'
  BY <1>1, <1>2, <1>5, <1>6, ChainKept DEF IInv
<1>9. Rounds'
  <2>1. posts' <= (IF oversized THEN MaxAttempts ELSE MaxAttempts + MaxAttempts)
    BY <1>1, <1>2, <1>4
  <2>2. /\ compressed' = (IF truncated' THEN "counts" ELSE "full")
        /\ oversized' => truncated'
    BY <1>4, <1>5, <1>6
  <2>3. stage' = 4 =>
          posts' <= attempt' - 1 + (IF truncated' /\ ~oversized' THEN MaxAttempts ELSE 0)
    BY <1>1, <1>2, <1>4, <1>5, <1>6
  <2> QED BY <1>2, <1>5, <1>6, <2>1, <2>2, <2>3 DEF Rounds
<1>10. Uploading'
  <2>1. /\ Spans' = Spans /\ Bottom' = Bottom /\ Ahead' = Ahead
        /\ \A b : Proper(b)' <=> Proper(b)
        /\ Weight(batch)' = Weight(batch)
    BY <1>6 DEF Spans, Bottom, Ahead, Proper, Weight
  <2>2. Laid' <=> Laid
    BY <1>6, <2>1 DEF Laid, Proper
  <2>3. Sent => Sent'
    BY <1>2, <1>6, <2>1 DEF Sent
  <2> QED BY <1>2, <1>5, <1>6, <2>2, <2>3 DEF IInv, Uploading
<1> QED BY <1>7, <1>8, <1>9, <1>10 DEF IInv

-----------------------------------------------------------------------------
(* The trace.                                                              *)

\* A sequence without its last element.
LEMMA FrontOf ==
  ASSUME NEW S, NEW s \in Seq(S), s # <<>>
  PROVE  /\ Front(s) \in Seq(S) /\ Len(Front(s)) = Len(s) - 1
         /\ \A i \in 1..(Len(s) - 1) : Front(s)[i] = s[i]
<1> DEFINE n == Len(s) - 1
<1>1. n \in Nat /\ n \in Int /\ 1 \in Int
  OBVIOUS
<1>2. \A i \in 1..n : s[i] \in S
  BY <1>1
<1>3. Front(s) = SubSeq(s, 1, n)
  BY DEF Front
<1> HIDE DEF n
<1>4. /\ SubSeq(s, 1, n) \in Seq(S)
      /\ Len(SubSeq(s, 1, n)) = IF 1 <= n THEN n - 1 + 1 ELSE 0
      /\ \A i \in 1..(n - 1 + 1) : SubSeq(s, 1, n)[i] = s[1 + i - 1]
  BY <1>1, <1>2, SubSeqProperties
<1>5. Len(Front(s)) = n /\ \A i \in 1..n : Front(s)[i] = s[i]
  BY <1>1, <1>3, <1>4
<1> QED BY <1>3, <1>4, <1>5 DEF n

\* Two elements after a sequence.
LEMMA TwoAfter ==
  ASSUME NEW S, NEW s \in Seq(S), NEW x \in S, NEW y \in S
  PROVE  /\ s \o <<x, y>> \in Seq(S) /\ Len(s \o <<x, y>>) = Len(s) + 2
         /\ \A i \in 1..Len(s) : (s \o <<x, y>>)[i] = s[i]
         /\ (s \o <<x, y>>)[Len(s) + 1] = x /\ (s \o <<x, y>>)[Len(s) + 2] = y
<1>1. <<x, y>> \in Seq(S) /\ Len(<<x, y>>) = 2 /\ <<x, y>>[1] = x /\ <<x, y>>[2] = y
  OBVIOUS
<1>2. /\ s \o <<x, y>> \in Seq(S) /\ Len(s \o <<x, y>>) = Len(s) + 2
      /\ \A i \in 1..(Len(s) + 2) :
           (s \o <<x, y>>)[i] = IF i <= Len(s) THEN s[i] ELSE <<x, y>>[i - Len(s)]
  BY <1>1, ConcatProperties
<1>3. Len(s) \in Nat
  OBVIOUS
<1> QED BY <1>1, <1>2, <1>3

\* The spans still pending reach down to what the batch in hand begins with.
LEMMA Split ==
  ASSUME IInv, SplitBatch
  PROVE  Uploading' /\ pending' \in Seq(Interval) /\ batch' \in Interval
<1> DEFINE n == Len(pending)
           b == pending[n]
<1>1. stage \in 1..6 /\ weights \in Seq(Nat) /\ pending \in Seq(Interval) /\ batch \in Interval
  BY ClientAssumption, StageTyped DEF IInv, TypeOK
<1>2. /\ stage = 5 /\ weights # <<>> /\ batch = NoBatch /\ pending # <<>>
      /\ IF Splits(b) THEN pending' = Front(pending) \o Halves(b) /\ UNCHANGED batch
         ELSE pending' = Front(pending) /\ batch' = b
      /\ UNCHANGED <<weights, stage, landed, lost>>
  BY <1>1, Stages DEF SplitBatch, Last, setting
<1>3. /\ n \in Nat /\ n >= 1 /\ Len(weights) \in Nat /\ b \in Interval
  BY <1>1, <1>2
<1>4. /\ Laid /\ Sent /\ Proper(b) /\ b[1] \in Nat /\ b[2] \in Nat
  BY <1>2, <1>3 DEF IInv, Uploading, Laid, Interval
<1>5. /\ Front(pending) \in Seq(Interval) /\ Len(Front(pending)) = n - 1
      /\ \A i \in 1..(n - 1) : Front(pending)[i] = pending[i]
  BY <1>1, <1>2, FrontOf
<1>6. Spans' = Spans /\ \A c : (Proper(c)' <=> Proper(c)) /\ Weight(c)' = Weight(c)
  BY <1>2 DEF Spans, Proper, Weight
<1>7. /\ \A i \in 1..n : Proper(pending[i])
      /\ pending[1][1] = 1
      /\ \A i \in 1..(n - 1) : pending[i + 1][1] = pending[i][2] + 1
  BY <1>2, <1>4 DEF Laid
<1>8. CASE Splits(b)
  <2> DEFINE m == Middle(b)
  <2>1. b[1] < b[2]
    BY <1>4, <1>8 DEF Splits, Size, Proper
  <2>2. m \in Nat /\ b[1] <= m - 1 /\ m <= b[2] /\ m - 1 \in Nat
    BY <1>4, <2>1 DEF Middle, Size, Proper
  <2> HIDE DEF m
  <2>3. /\ Halves(b) = <<<<b[1], m - 1>>, <<m, b[2]>>>>
        /\ <<b[1], m - 1>> \in Interval /\ <<m, b[2]>> \in Interval
    BY <1>3, <1>4, <2>2 DEF Halves, m, Interval, Proper
  <2>4. pending' = Front(pending) \o <<<<b[1], m - 1>>, <<m, b[2]>>>> /\ batch' = batch
    BY <1>2, <1>8, <2>3
  <2>5. /\ pending' \in Seq(Interval) /\ Len(pending') = n + 1
        /\ \A i \in 1..(n - 1) : pending'[i] = pending[i]
        /\ pending'[n] = <<b[1], m - 1>> /\ pending'[n + 1] = <<m, b[2]>>
    <3> DEFINE f == Front(pending)
               x == <<b[1], m - 1>>
               y == <<m, b[2]>>
    <3>1. f \in Seq(Interval) /\ x \in Interval /\ y \in Interval /\ Len(f) = n - 1
      BY <1>5, <2>3
    <3> HIDE DEF f, x, y
    <3>2. /\ f \o <<x, y>> \in Seq(Interval) /\ Len(f \o <<x, y>>) = (n - 1) + 2
          /\ \A i \in 1..(n - 1) : (f \o <<x, y>>)[i] = f[i]
          /\ (f \o <<x, y>>)[(n - 1) + 1] = x /\ (f \o <<x, y>>)[(n - 1) + 2] = y
      BY <3>1, TwoAfter
    <3>3. (n - 1) + 1 = n /\ (n - 1) + 2 = n + 1
      BY <1>3
    <3>4. pending' = f \o <<x, y>>
      BY <2>4 DEF f, x, y
    <3>5. \A i \in 1..(n - 1) : f[i] = pending[i]
      BY <1>5 DEF f
    <3> QED BY <3>2, <3>3, <3>4, <3>5 DEF x, y
  <2>6. \A i \in 1..(n + 1) : Proper(pending'[i])
    <3>1. Proper(pending'[n]) /\ Proper(pending'[n + 1])
      BY <1>4, <2>2, <2>5 DEF Proper
    <3>2. \A i \in 1..(n + 1) : i \in 1..(n - 1) \/ i = n \/ i = n + 1
      BY <1>3
    <3>3. \A i \in 1..(n - 1) : i \in 1..n
      BY <1>3
    <3> QED BY <1>7, <2>5, <3>1, <3>2, <3>3
  <2>7. pending'[1][1] = 1
    <3>1. CASE n = 1
      BY <1>7, <2>5, <3>1
    <3>2. CASE n # 1
      BY <1>3, <1>7, <2>5, <3>2
    <3> QED BY <3>1, <3>2
  <2>8. \A i \in 1..n : pending'[i + 1][1] = pending'[i][2] + 1
    <3> SUFFICES ASSUME NEW i \in 1..n PROVE pending'[i + 1][1] = pending'[i][2] + 1
      OBVIOUS
    <3>1. CASE i = n
      BY <2>2, <2>5, <3>1
    <3>2. CASE i = n - 1
      <4>1. pending'[i + 1][1] = b[1] /\ pending'[i] = pending[i] /\ pending[i + 1] = b
        BY <1>3, <2>5, <3>2
      <4> QED BY <1>3, <1>7, <3>2, <4>1
    <3>3. CASE i < n - 1
      BY <1>3, <1>7, <2>5, <3>3
    <3> QED BY <1>3, <3>1, <3>2, <3>3
  <2>9. Bottom' = b[2] /\ Bottom = b[2] /\ Ahead' = b[2] /\ Ahead = b[2]
    BY <1>2, <1>3, <2>4, <2>5 DEF Bottom, Ahead
  <2>10. Laid'
    <3>1. Len(pending') = n + 1 /\ Len(pending') - 1 = n /\ batch' = NoBatch
      BY <1>2, <1>3, <2>4, <2>5
    <3> QED BY <1>6, <2>6, <2>7, <2>8, <3>1 DEF Laid, Proper
  <2>11. Sent'
    BY <1>2, <1>4, <1>6, <2>9 DEF Sent
  <2> QED BY <1>1, <1>2, <2>4, <2>5, <2>10, <2>11 DEF Uploading
<1>9. CASE ~Splits(b)
  <2>1. pending' = Front(pending) /\ batch' = b
    BY <1>2, <1>9
  <2>2. b # NoBatch /\ (Weight(b) <= Cap \/ b[1] = b[2])
    BY <1>4, <1>9 DEF Splits, Size, Proper, NoBatch
  <2>3. Bottom' + 1 = b[1]
    <3>1. CASE n = 1
      <4>1. pending' = <<>>
        BY <1>5, <2>1, <3>1
      <4> QED BY <1>7, <3>1, <4>1 DEF Bottom
    <3>2. CASE n # 1
      <4>1. Len(pending') = n - 1 /\ pending'[n - 1] = pending[n - 1] /\ pending' # <<>>
        BY <1>3, <1>5, <2>1, <3>2
      <4>2. b[1] = pending[n - 1][2] + 1
        <5>1. n \in Nat /\ n >= 1 /\ n # 1
          BY <1>3, <3>2
        <5>2. \A k \in Nat : k >= 1 /\ k # 1 => k - 1 \in 1..(k - 1) /\ (k - 1) + 1 = k
          OBVIOUS
        <5>3. n - 1 \in 1..(n - 1) /\ (n - 1) + 1 = n
          BY ONLY <5>1, <5>2
        <5> QED BY <1>7, <5>3
      <4> QED BY <1>3, <4>1, <4>2 DEF Bottom
    <3> QED BY <3>1, <3>2
  <2>4. Ahead' = b[2] /\ Ahead = b[2]
    BY <1>2, <2>1, <2>2 DEF Ahead, Bottom
  <2>5. Laid'
    <3>1. \A i \in 1..Len(pending') : Proper(pending'[i])
      BY <1>3, <1>5, <1>7, <2>1
    <3>2. pending' # <<>> => pending'[1][1] = 1
      BY <1>3, <1>5, <1>7, <2>1
    <3>3. \A i \in 1..(Len(pending') - 1) : pending'[i + 1][1] = pending'[i][2] + 1
      BY <1>3, <1>5, <1>7, <2>1
    <3>4. (Weight(batch) <= Cap)' <=> Weight(b) <= Cap
      BY <1>2, <2>1 DEF Weight
    <3>5. batch'[1] = Bottom' + 1 /\ Proper(batch') /\ (Weight(batch)' <= Cap \/ batch'[1] = batch'[2])
      BY <1>4, <2>1, <2>2, <2>3, <3>4
    <3> QED BY <1>6, <3>1, <3>2, <3>3, <3>5 DEF Laid
  <2>6. Sent'
    BY <1>2, <1>4, <1>6, <2>4 DEF Sent
  <2> QED BY <1>2, <1>3, <1>5, <2>1, <2>5, <2>6 DEF Uploading
<1> QED BY <1>8, <1>9

LEMMA SplitIInv == ASSUME IInv, SplitBatch PROVE IInv'
<1>1. stage \in 1..6 /\ MaxAttempts \in Nat
  BY ClientAssumption, StageTyped DEF IInv
<1>2. UNCHANGED <<setting, stage, result, listing, attempt, verdict, landed, lost>>
  BY DEF SplitBatch
<1>3. /\ UNCHANGED <<link, weights, oversized, stage, result, page, seen, names, attempt>>
      /\ UNCHANGED <<truncated, compressed, stored, posts, landed, lost>>
  BY <1>2 DEF setting, listing, verdict
<1>4. Uploading' /\ pending' \in Seq(Interval) /\ batch' \in Interval
  BY Split
<1>5. Chained' /\ Rounds'
  BY <1>1, <1>3, ChainKept, RoundsKept DEF IInv
<1>6. TypeOK'
  <2>1. Spans' = Spans /\ Interval' = Interval
    BY <1>3 DEF Spans, Interval
  <2> QED BY <1>3, <1>4, <2>1 DEF IInv, TypeOK
<1> QED BY <1>4, <1>5, <1>6 DEF IInv

LEMMA DoneIInv == ASSUME IInv, UploadDone PROVE IInv'
<1>1. stage \in 1..6 /\ MaxAttempts \in Nat
  BY ClientAssumption, StageTyped DEF IInv
<1>2. /\ stage = 5 /\ (weights = <<>> \/ (batch = NoBatch /\ pending = <<>>))
      /\ stage' = 6 /\ result' = "ready"
      /\ UNCHANGED <<setting, listing, attempt, verdict, trace, lost>>
  BY <1>1, Stages DEF UploadDone, End
<1>3. /\ UNCHANGED <<link, weights, oversized, page, seen, names, attempt>>
      /\ UNCHANGED <<truncated, compressed, stored, posts, pending, batch, landed, lost>>
  BY <1>2 DEF setting, listing, verdict, trace
<1>4. Chained' /\ Rounds'
  BY <1>1, <1>2, <1>3, ChainKept, RoundsKept DEF IInv
<1>5. Uploading'
  <2>1. /\ Spans' = Spans /\ Bottom' = Bottom /\ Ahead' = Ahead
        /\ \A b : Proper(b)' <=> Proper(b)
        /\ Weight(batch)' = Weight(batch)
    BY <1>3 DEF Spans, Bottom, Ahead, Proper, Weight
  <2>2. (Laid' <=> Laid) /\ (Sent' <=> Sent)
    BY <1>3, <2>1 DEF Laid, Sent, Proper
  <2> QED BY <1>2, <1>3, <2>2 DEF IInv, Uploading
<1>6. TypeOK'
  <2>1. Spans' = Spans /\ Interval' = Interval
    BY <1>3 DEF Spans, Interval
  <2>2. stage' \in 1..(Len(Calls) + 1) /\ result' \in Result
    BY <1>2 DEF Calls, Result
  <2> QED BY <1>3, <2>1, <2>2 DEF IInv, TypeOK
<1> QED BY <1>4, <1>5, <1>6 DEF IInv

\* One POST of a batch: the spans of the batch are stored once more, or no span is.
LEMMA Posted ==
  ASSUME IInv, NEW a \in Answer, NEW w \in BOOLEAN, PostBatch(a, w)
  PROVE  /\ stage = 5 /\ batch # NoBatch /\ weights # <<>> /\ Laid /\ Sent
         /\ batch[1] \in Nat /\ batch[2] \in Nat /\ Bottom = batch[1] - 1 /\ Proper(batch)
         /\ Ahead = batch[2]
         /\ landed \in [Spans -> Nat] /\ landed' \in [Spans -> Nat] /\ lost' \in BOOLEAN
         /\ \A s \in Spans :
              landed'[s] = IF w /\ s \in batch[1]..batch[2] THEN landed[s] + 1 ELSE landed[s]
         /\ lost' = (lost \/ (w /\ a # "ok"))
         /\ UNCHANGED <<link, weights, oversized, page, seen, names>>
         /\ UNCHANGED <<truncated, compressed, stored, posts, pending>>
         /\ Spans' = Spans
<1>1. stage \in 1..6 /\ batch \in Interval /\ landed \in [Spans -> Nat] /\ lost \in BOOLEAN
      /\ weights \in Seq(Nat)
  BY ClientAssumption, StageTyped DEF IInv, TypeOK
<1>2. /\ stage = 5 /\ batch # NoBatch
      /\ landed' = [s \in Spans |->
                     IF w /\ s \in batch[1]..batch[2] THEN landed[s] + 1 ELSE landed[s]]
      /\ lost' = (lost \/ (w /\ a # "ok"))
      /\ UNCHANGED <<setting, listing, verdict, pending>>
  BY <1>1, Stages DEF PostBatch
<1>3. /\ UNCHANGED <<link, weights, oversized, page, seen, names>>
      /\ UNCHANGED <<truncated, compressed, stored, posts, pending>>
  BY <1>2 DEF setting, listing, verdict
<1>4. weights # <<>> /\ Laid /\ Sent
  BY <1>2 DEF IInv, Uploading
<1>5. batch[1] \in Nat /\ batch[2] \in Nat
  BY <1>1 DEF Interval
<1>6. Proper(batch) /\ batch[1] = Bottom + 1
  BY <1>2, <1>4 DEF Laid
<1>7. Ahead = batch[2] /\ Bottom = batch[1] - 1
  <2>1. Bottom \in Nat
    <3>1. CASE pending = <<>>
      BY <3>1 DEF Bottom
    <3>2. CASE pending # <<>>
      <4>1. pending[Len(pending)] \in Interval
        BY <3>2 DEF IInv, TypeOK
      <4> QED BY <1>1, <3>2, <4>1 DEF Bottom, Interval
    <3> QED BY <3>1, <3>2
  <2> QED BY <1>2, <1>6, <2>1 DEF Ahead
<1>8. landed' \in [Spans -> Nat]
  <2>1. \A s \in Spans : landed[s] \in Nat /\ landed[s] + 1 \in Nat
    BY <1>1
  <2> QED BY <1>2, <2>1
<1>9. Spans' = Spans
  BY <1>3 DEF Spans
<1>10. lost' \in BOOLEAN
  BY <1>1, <1>2
<1>11. \A s \in Spans :
         landed'[s] = IF w /\ s \in batch[1]..batch[2] THEN landed[s] + 1 ELSE landed[s]
  BY <1>2
<1> QED BY <1>1, <1>2, <1>3, <1>4, <1>5, <1>6, <1>7, <1>8, <1>9, <1>10, <1>11

LEMMA LandsIInv == ASSUME IInv, BatchLands PROVE IInv'
<1>1. stage \in 1..6 /\ MaxAttempts \in Nat \ {0}
  BY ClientAssumption, StageTyped DEF IInv
<1>2. "ok" \in Answer /\ PostBatch("ok", TRUE) /\ batch' = NoBatch /\ attempt' = 1
      /\ UNCHANGED <<stage, result>>
  BY DEF BatchLands, Answer, Status
<1>3. /\ stage = 5 /\ batch # NoBatch /\ weights # <<>> /\ Laid /\ Sent
      /\ batch[1] \in Nat /\ batch[2] \in Nat /\ Bottom = batch[1] - 1 /\ Proper(batch)
      /\ Ahead = batch[2]
      /\ landed \in [Spans -> Nat] /\ landed' \in [Spans -> Nat] /\ lost' \in BOOLEAN
      /\ \A s \in Spans :
           landed'[s] = IF s \in batch[1]..batch[2] THEN landed[s] + 1 ELSE landed[s]
      /\ lost' = lost
      /\ UNCHANGED <<link, weights, oversized, page, seen, names>>
      /\ UNCHANGED <<truncated, compressed, stored, posts, pending>>
      /\ Spans' = Spans
  <2>1. lost \in BOOLEAN
    BY DEF IInv, TypeOK
  <2> QED BY <1>2, <2>1, Posted
<1>4. Bottom' = Bottom /\ Ahead' = Bottom
  BY <1>2, <1>3 DEF Bottom, Ahead
<1>5. Sent'
  <2> SUFFICES ASSUME NEW s \in Spans
               PROVE  /\ s > Bottom => landed'[s] >= 1
                      /\ ~lost => landed'[s] <= 1
                      /\ ~lost /\ s <= Bottom => landed'[s] = 0
    BY <1>3, <1>4 DEF Sent
  <2>1. s \in Nat /\ landed[s] \in Nat
    BY <1>3 DEF Spans
  <2>2. /\ s > batch[2] => landed[s] >= 1
        /\ ~lost => landed[s] <= 1
        /\ ~lost /\ s <= batch[2] => landed[s] = 0
    BY <1>3 DEF Sent
  <2> QED BY <1>3, <2>1, <2>2 DEF Proper
<1>6. Laid'
  BY <1>2, <1>3, <1>4 DEF Laid, Proper
<1>7. Uploading'
  BY <1>1, <1>2, <1>3, <1>5, <1>6 DEF Uploading
<1>8. Chained' /\ Rounds'
  BY <1>1, <1>2, <1>3, ChainKept DEF IInv, Rounds
<1>9. TypeOK'
  <2>1. Interval' = Interval
    BY <1>3 DEF Interval
  <2>2. batch' \in Interval
    BY <1>2, <2>1 DEF IInv, TypeOK, Interval, NoBatch
  <2>3. attempt' \in 1..MaxAttempts
    BY <1>1, <1>2
  <2> QED BY <1>2, <1>3, <2>1, <2>2, <2>3 DEF IInv, TypeOK
<1> QED BY <1>7, <1>8, <1>9 DEF IInv

\* A batch that did not land: if the server did the work all the same, the answer is lost.
LEMMA MissedIInv == ASSUME IInv, BatchRetried \/ BatchFails PROVE IInv'
<1>1. stage \in 1..6 /\ MaxAttempts \in Nat \ {0} /\ attempt \in 1..MaxAttempts
  BY ClientAssumption, StageTyped DEF IInv, TypeOK
<1>2. PICK a \in Answer \ {"ok"}, w \in BOOLEAN :
        /\ PostBatch(a, w) /\ batch' = batch
        /\ \/ attempt < MaxAttempts /\ attempt' = attempt + 1 /\ UNCHANGED <<stage, result>>
           \/ attempt' = attempt /\ stage' = stage + 1 /\ result' = "failed"
  <2>1. CASE BatchRetried
    BY <2>1 DEF BatchRetried, Retries, IsRetryable
  <2>2. CASE BatchFails
    BY <2>2 DEF BatchFails, End
  <2> QED BY <2>1, <2>2
<1>3. /\ stage = 5 /\ batch # NoBatch /\ weights # <<>> /\ Laid /\ Sent
      /\ batch[1] \in Nat /\ batch[2] \in Nat /\ Bottom = batch[1] - 1 /\ Proper(batch)
      /\ Ahead = batch[2]
      /\ landed \in [Spans -> Nat] /\ landed' \in [Spans -> Nat] /\ lost' \in BOOLEAN
      /\ \A s \in Spans :
           landed'[s] = IF w /\ s \in batch[1]..batch[2] THEN landed[s] + 1 ELSE landed[s]
      /\ lost' = (lost \/ (w /\ a # "ok"))
      /\ UNCHANGED <<link, weights, oversized, page, seen, names>>
      /\ UNCHANGED <<truncated, compressed, stored, posts, pending>>
      /\ Spans' = Spans
  BY <1>2, Posted
<1>4. Bottom' = Bottom /\ Ahead' = Ahead /\ Weight(batch)' = Weight(batch)
  BY <1>2, <1>3 DEF Bottom, Ahead, Weight
<1>5. Sent'
  <2> SUFFICES ASSUME NEW s \in Spans
               PROVE  /\ s > Ahead => landed'[s] >= 1
                      /\ ~lost' => landed'[s] <= 1
                      /\ ~lost' /\ s <= Ahead => landed'[s] = 0
    BY <1>3, <1>4 DEF Sent
  <2>1. s \in Nat /\ landed[s] \in Nat
    BY <1>3 DEF Spans
  <2>2. /\ s > batch[2] => landed[s] >= 1
        /\ ~lost => landed[s] <= 1
        /\ ~lost /\ s <= batch[2] => landed[s] = 0
    BY <1>3 DEF Sent
  <2>3. ~lost' => ~lost /\ landed'[s] = landed[s]
    BY <1>2, <1>3
  <2>4. s > batch[2] => landed'[s] = landed[s]
    BY <1>3, <2>1
  <2> QED BY <1>3, <2>2, <2>3, <2>4
<1>6. Laid'
  BY <1>2, <1>3, <1>4 DEF Laid, Proper
<1>7. Uploading'
  BY <1>2, <1>3, <1>5, <1>6 DEF Uploading
<1>8. Chained' /\ Rounds'
  BY <1>1, <1>2, <1>3, ChainKept DEF IInv, Rounds
<1>9. TypeOK'
  <2>1. Interval' = Interval /\ batch' \in Interval
    BY <1>2, <1>3 DEF IInv, TypeOK, Interval
  <2>2. attempt' \in 1..MaxAttempts
    BY <1>1, <1>2
  <2>3. stage' \in 1..(Len(Calls) + 1) /\ result' \in Result
    BY <1>2, <1>3 DEF Calls, Result, IInv, TypeOK
  <2> QED BY <1>3, <2>1, <2>2, <2>3 DEF IInv, TypeOK
<1> QED BY <1>7, <1>8, <1>9 DEF IInv

-----------------------------------------------------------------------------
LEMMA NextIInv == ASSUME IInv, [Next]_vars PROVE IInv'
<1>1. CASE UNCHANGED vars
  <2>1. /\ UNCHANGED <<link, weights, oversized, stage, result, page, seen, names, attempt>>
        /\ UNCHANGED <<truncated, compressed, stored, posts, pending, batch, landed, lost>>
    BY <1>1 DEF vars, setting, listing, verdict, trace
  <2>2. stage \in 1..6 /\ MaxAttempts \in Nat
    BY ClientAssumption, StageTyped DEF IInv
  <2>3. Chained' /\ Rounds' /\ Uploading'
    BY <2>1, <2>2, ChainKept, RoundsKept, UploadKept DEF IInv
  <2>4. Spans' = Spans /\ Interval' = Interval
    BY <2>1 DEF Spans, Interval
  <2>5. TypeOK'
    BY <2>1, <2>4 DEF IInv, TypeOK
  <2> QED BY <2>3, <2>5 DEF IInv
<1>2. CASE QuarantineCycleFound \/ QuarantineFails \/ QuarantineDormant \/ QuarantinePage
  BY <1>2, ListingIInv
<1>3. CASE Fetch("context") \/ Fetch("selection")
  BY <1>3, FetchIInv
<1>4. CASE VerdictLands \/ VerdictRetried \/ VerdictDormant \/ VerdictTruncated \/ VerdictFails
  BY <1>4, VerdictIInv
<1>5. CASE SplitBatch
  BY <1>5, SplitIInv
<1>6. CASE UploadDone
  BY <1>6, DoneIInv
<1>7. CASE BatchLands
  BY <1>7, LandsIInv
<1>8. CASE BatchRetried \/ BatchFails
  BY <1>8, MissedIInv
<1> QED BY <1>1, <1>2, <1>3, <1>4, <1>5, <1>6, <1>7, <1>8 DEF Next

LEMMA Invariance == Spec => []IInv
<1>1. Init => IInv
  BY InitIInv
<1>2. IInv /\ [Next]_vars => IInv'
  BY NextIInv
<1> QED BY <1>1, <1>2, PTL DEF Spec

\* The client's bookkeeping and the server's stay of their types.
THEOREM Types == Spec => []TypeOK
<1>1. IInv => TypeOK
  BY DEF IInv
<1> QED BY <1>1, Invariance, PTL

\* A quarantine list handed to the run is the whole listing, each page once,
\* however long the listing and whatever page it loops back to.
THEOREM Whole == Spec => []ReadyListIsWhole
<1>1. ASSUME IInv PROVE ReadyListIsWhole
  <2> SUFFICES ASSUME Ended("quarantine"), result = "ready"
               PROVE  /\ IsInjective(names) /\ names[1] = FirstPage
                      /\ \A i \in 1..Len(names) :
                           link[names[i]] = IF i < Len(names) THEN names[i + 1] ELSE NoLink
    BY DEF ReadyListIsWhole
  <2>1. stage = 3 /\ names \in Seq(Pages) /\ seen \subseteq Pages
    BY <1>1, StageTyped, Stages DEF IInv, TypeOK
  <2>2. /\ page = NoLink /\ names # <<>> /\ names[1] = FirstPage /\ page = link[names[Len(names)]]
        /\ \A i \in 1..(Len(names) - 1) : names[i + 1] = link[names[i]]
    BY <1>1, <2>1 DEF IInv, Chained
  <2>3. IsInjective(names)
    BY <1>1, <2>1, <2>2, ClientAssumption DEF IInv, Chained
  <2>4. \A i \in 1..Len(names) : link[names[i]] = IF i < Len(names) THEN names[i + 1] ELSE NoLink
    <3> SUFFICES ASSUME NEW i \in 1..Len(names)
                 PROVE  link[names[i]] = IF i < Len(names) THEN names[i + 1] ELSE NoLink
      OBVIOUS
    <3>1. Len(names) \in Nat
      BY <2>1
    <3>2. CASE i < Len(names)
      <4>1. i \in 1..(Len(names) - 1)
        BY <3>1, <3>2
      <4> QED BY <2>2, <3>2, <4>1
    <3>3. CASE i = Len(names)
      BY <2>2, <3>1, <3>3
    <3> QED BY <3>1, <3>2, <3>3
  <2> QED BY <2>2, <2>3, <2>4
<1> QED BY <1>1, Invariance, PTL

\* A receipt is true, and the verdict was asked in at most two rounds of attempts,
\* whatever the server answers.
THEOREM Receipt == Spec => []ReceiptIsTrue
<1>1. ASSUME IInv PROVE ReceiptIsTrue
  <2>1. MaxAttempts \in Nat /\ oversized \in BOOLEAN /\ posts \in Nat /\ stage \in 1..6
    BY <1>1, ClientAssumption, StageTyped DEF IInv, TypeOK
  <2>2. Ended("verdict") <=> stage = 5
    BY <2>1, Stages
  <2>3. MaxAttempts * 1 = MaxAttempts /\ MaxAttempts * 2 = MaxAttempts + MaxAttempts
    BY <2>1
  <2>4. posts <= (IF oversized THEN MaxAttempts ELSE MaxAttempts + MaxAttempts)
    BY <1>1 DEF IInv, Rounds
  <2>5. Ended("verdict") /\ result = "ready" => (IF truncated THEN "counts" ELSE "full") \in stored
    BY <1>1, <2>2 DEF IInv, Rounds
  <2> QED BY <2>1, <2>3, <2>4, <2>5 DEF ReceiptIsTrue
<1> QED BY <1>1, Invariance, PTL

\* However a trace was split: success means every span is stored, a span is stored
\* twice only where an answer was lost, and only a single span exceeds the cap.
THEOREM Upload == Spec => []UploadIsExact
<1>1. ASSUME IInv PROVE UploadIsExact
  <2>1. /\ stage \in 1..6 /\ weights \in Seq(Nat) /\ pending \in Seq(Interval) /\ batch \in Interval
    BY <1>1, ClientAssumption, StageTyped DEF IInv, TypeOK
  <2>2. Ended("trace") <=> stage = 6
    BY <2>1, Stages
  <2>3. CASE weights = <<>>
    BY <1>1, <2>3 DEF IInv, Uploading, UploadIsExact, Spans
  <2>4. CASE weights # <<>>
    <3>1. Laid /\ Sent
      BY <1>1, <2>4 DEF IInv, Uploading
    <3>2. Ended("trace") /\ result = "ready" => \A s \in Spans : landed[s] >= 1
      <4> SUFFICES ASSUME Ended("trace"), result = "ready", NEW s \in Spans PROVE landed[s] >= 1
        OBVIOUS
      <4>1. batch = NoBatch /\ pending = <<>>
        BY <1>1, <2>2, <2>4 DEF IInv, Uploading
      <4>2. Ahead = 0 /\ s > 0
        BY <2>1, <4>1 DEF Ahead, Bottom, Spans
      <4> QED BY <3>1, <4>2 DEF Sent
    <3>3. ~lost => \A s \in Spans : landed[s] <= 1
      BY <3>1 DEF Sent
    <3>4. batch # NoBatch => Weight(batch) <= Cap \/ batch[1] = batch[2]
      BY <3>1 DEF Laid
    <3> QED BY <3>2, <3>3, <3>4 DEF UploadIsExact
  <2> QED BY <2>3, <2>4
<1> QED BY <1>1, Invariance, PTL
=============================================================================
