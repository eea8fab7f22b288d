----------------------- MODULE SanitizedAnswersProofs -----------------------
(***************************************************************************)
(* Proofs about the answers the sanitizer may refuse: pages, for every     *)
(* policy that Policy.Validate accepts, texts of any length and pages of   *)
(* any size, and correlations with the events of the cluster, for any      *)
(* number of events, window, budget and scan limit; first each alone, then *)
(* as SanitizedAnswers composes them.                                      *)
(***************************************************************************)
EXTENDS SanitizedAnswers, FiniteSetTheorems, SequenceTheorems, TLAPS

(***************************************************************************)
(* Pages.                                                                  *)
(***************************************************************************)

Full == MaxProblemBytes + MaxDetailsBytes

LEMMA FullType == Full \in Nat
BY PolicyAssumption DEF Full

(* A text that was cut is within its bound.                                 *)
LEMMA TruncatedWithin ==
    ASSUME NEW length \in Lengths, NEW max \in Nat, max > MarkerBytes
    PROVE  Truncated(length, max) \subseteq 0 .. max
<1>1. CASE length <= max
  BY <1>1, PolicyAssumption DEF Truncated
<1>2. CASE ~(length <= max)
  BY <1>2, PolicyAssumption DEF Truncated
<1> QED BY <1>1, <1>2

LEMMA PageTypeCorrect == PageSpec => []PageTypeOK
<1>1. PageInit => PageTypeOK
  <2> SUFFICES ASSUME PageInit PROVE PageTypeOK OBVIOUS
  <2>1. PICK n \in 0 .. MaxLimit + 1 : page \in [1 .. n -> Items] BY DEF PageInit
  <2>2. n \in Nat BY PolicyAssumption
  <2>3. page \in Seq(Items) BY <2>1, <2>2
  <2> QED BY <2>3 DEF PageInit, PageTypeOK
<1>2. PageTypeOK /\ [PageNext]_pageVars => PageTypeOK'
  <2> SUFFICES ASSUME PageTypeOK, [PageNext]_pageVars PROVE PageTypeOK' OBVIOUS
  <2> USE DEF PageTypeOK
  <2>1. CASE SanitizeItem
    <3>1. Len(safe) + 1 \in 1 .. Len(page) BY <2>1 DEF SanitizeItem
    <3>2. Current \in Items BY <3>1 DEF Current
    <3>3. PICK problem \in Truncated(Current.problem, MaxProblemBytes),
               details \in Truncated(Current.details, MaxDetailsBytes) :
             /\ total' = total + Counted(Current, problem, details)
             /\ IF Fits(total')
                THEN /\ safe' = Append(safe, [valid |-> TRUE, problem |-> problem,
                                              details |-> details])
                     /\ UNCHANGED outcome
                ELSE /\ outcome' = "pageTooLarge"
                     /\ UNCHANGED safe
      BY <2>1 DEF SanitizeItem
    <3>4. problem \in 0 .. MaxProblemBytes
      BY <3>2, <3>3, TruncatedWithin, PolicyAssumption DEF Items
    <3>5. details \in 0 .. MaxDetailsBytes
      BY <3>2, <3>3, TruncatedWithin, PolicyAssumption DEF Items
    <3>6. total' \in Nat BY <3>3, <3>4, <3>5, PolicyAssumption DEF Counted
    <3>7. safe' \in Seq(SafeItems) /\ Len(safe') <= Len(page)
      <4> DEFINE item == [valid |-> TRUE, problem |-> problem, details |-> details]
      <4>1. item \in SafeItems BY <3>4, <3>5 DEF SafeItems
      <4> HIDE DEF item
      <4>2. CASE safe' = Append(safe, item)
        <5>1. Len(safe) < Len(page) BY <2>1 DEF SanitizeItem
        <5> QED BY <4>1, <4>2, <5>1
      <4>3. CASE safe' = safe BY <4>3
      <4> QED BY <3>3, <4>2, <4>3 DEF item
    <3> QED BY <2>1, <3>3, <3>6, <3>7 DEF SanitizeItem
  <2>2. CASE RefuseItem BY <2>2 DEF RefuseItem
  <2>3. CASE Publish BY <2>3 DEF Publish
  <2>4. CASE RefusePage BY <2>4 DEF RefusePage
  <2>5. CASE UNCHANGED pageVars BY <2>5 DEF pageVars
  <2> QED BY <2>1, <2>2, <2>3, <2>4, <2>5 DEF PageNext
<1> QED BY <1>1, <1>2, PTL DEF PageSpec

-----------------------------------------------------------------------------
(* The findings walked over have used up at most their full bounds, and a
   page was only called too large when its own would not have fitted.       *)
Share ==
    /\ outcome = "walking" => total <= Len(safe) * Full
    /\ outcome = "pageTooLarge" /\ Len(page) <= MaxLimit =>
           Len(page) * Full > MaxPageDiagnosticBytes

LEMMA ShareStep == PageTypeOK /\ Share /\ [PageNext]_pageVars => Share'
<1> SUFFICES ASSUME PageTypeOK, Share, [PageNext]_pageVars PROVE Share' OBVIOUS
<1> USE FullType
<1>1. CASE SanitizeItem
  <2>1. Len(safe) + 1 \in 1 .. Len(page) BY <1>1 DEF SanitizeItem, PageTypeOK
  <2>2. Current \in Items BY <2>1 DEF Current, PageTypeOK
  <2>3. PICK problem \in Truncated(Current.problem, MaxProblemBytes),
             details \in Truncated(Current.details, MaxDetailsBytes) :
           /\ total' = total + Counted(Current, problem, details)
           /\ IF Fits(total')
              THEN /\ safe' = Append(safe, [valid |-> TRUE, problem |-> problem,
                                            details |-> details])
                   /\ UNCHANGED outcome
              ELSE /\ outcome' = "pageTooLarge"
                   /\ UNCHANGED safe
    BY <1>1 DEF SanitizeItem
  <2>4. problem \in 0 .. MaxProblemBytes /\ details \in 0 .. MaxDetailsBytes
    BY <2>2, <2>3, TruncatedWithin, PolicyAssumption DEF Items
  <2>5. total' <= total + Full
    BY <2>3, <2>4, PolicyAssumption DEF Counted, Full, PageTypeOK
  <2>6. total <= Len(safe) * Full BY <1>1 DEF Share, SanitizeItem, Walking
  <2>7. total \in Nat /\ total' \in Nat /\ Len(safe) \in Nat
    BY <2>3, <2>4, PolicyAssumption DEF PageTypeOK, Counted
  <2>8. total' <= (Len(safe) + 1) * Full
    BY <2>5, <2>6, <2>7
  <2>9. CASE Fits(total')
    <3>1. Len(safe') = Len(safe) + 1 /\ outcome' = outcome
      BY <2>3, <2>9 DEF PageTypeOK
    <3> QED BY <1>1, <2>8, <3>1 DEF Share, SanitizeItem, Walking
  <2>10. CASE ~Fits(total')
    <3>1. total' > MaxPageDiagnosticBytes
      BY <2>7, <2>10, PolicyAssumption DEF Fits
    <3>2. (Len(safe) + 1) * Full <= Len(page) * Full
      <4> DEFINE a == Len(safe) + 1
                 b == Len(page)
      <4>1. a \in Nat /\ b \in Nat /\ a <= b BY <2>1, <2>7 DEF PageTypeOK
      <4> HIDE DEF a, b
      <4>2. a * Full <= b * Full BY <4>1
      <4> QED BY <4>2 DEF a, b
    <3>3. Len(page) * Full > MaxPageDiagnosticBytes
      <4>1. Len(page) * Full \in Nat /\ (Len(safe) + 1) * Full \in Nat
        BY <2>7 DEF PageTypeOK
      <4> QED BY <2>7, <2>8, <3>1, <3>2, <4>1, PolicyAssumption
    <3>4. outcome' = "pageTooLarge" /\ page' = page BY <1>1, <2>3, <2>10 DEF SanitizeItem
    <3> QED BY <3>3, <3>4 DEF Share
  <2> QED BY <2>9, <2>10
<1>2. CASE RefuseItem BY <1>2 DEF RefuseItem, Share
<1>3. CASE Publish BY <1>3 DEF Publish, Share
<1>4. CASE RefusePage
  BY <1>4, PolicyAssumption DEF RefusePage, Share, PageTypeOK
<1>5. CASE UNCHANGED pageVars BY <1>5 DEF pageVars, Share
<1> QED BY <1>1, <1>2, <1>3, <1>4, <1>5 DEF PageNext

LEMMA AlwaysShare == PageSpec => []Share
<1>1. PageInit => Share
  BY FullType DEF PageInit, Share
<1> QED BY <1>1, ShareStep, PageTypeCorrect, PTL DEF PageSpec

LEMMA SharesPass == PageTypeOK /\ Share => SmallPagesPass
<1> SUFFICES ASSUME PageTypeOK, Share, Len(page) <= MaxLimit,
                    Len(page) * Full <= MaxPageDiagnosticBytes
             PROVE  outcome # "pageTooLarge"
  BY DEF SmallPagesPass, Full
<1>1. Len(page) * Full \in Nat BY FullType DEF PageTypeOK
<1> QED BY <1>1, PolicyAssumption DEF Share

-----------------------------------------------------------------------------
(* What was counted is what was sanitized.                                  *)

SumsUp(f, s) ==
    f = [n \in 0 .. Len(s) |-> IF n = 0 THEN 0 ELSE f[n - 1] + Weight(s[n])]

LEMMA Least ==
    ASSUME NEW T, T \subseteq Nat, T # {}
    PROVE  \E i \in T : \A j \in T : i <= j
<1> DEFINE R == OpToRel(<, Nat)
<1>1. IsWellFoundedOn(R, Nat)
  BY NatLessThanWellFounded
<1>2. \A a, b \in Nat : a < b => <<a, b>> \in R
  BY DEF OpToRel
<1> HIDE DEF R
<1>3. PICK i \in T : \A j \in T : <<j, i>> \notin R
  BY <1>1, WFMin
<1>4. \A j \in T : ~(j < i)
  BY <1>2, <1>3
<1>5. QED
  BY <1>3, <1>4

(* There is one sum: two of them would first differ somewhere.              *)
LEMMA OneSum ==
    ASSUME NEW s \in Seq(SafeItems), NEW f, NEW g, SumsUp(f, s), SumsUp(g, s)
    PROVE  f[Len(s)] = g[Len(s)]
<1> DEFINE T == {n \in 0 .. Len(s) : f[n] # g[n]}
<1>1. Len(s) \in Nat /\ T \subseteq Nat
  OBVIOUS
<1>2. /\ \A n \in 0 .. Len(s) : f[n] = IF n = 0 THEN 0 ELSE f[n - 1] + Weight(s[n])
      /\ \A n \in 0 .. Len(s) : g[n] = IF n = 0 THEN 0 ELSE g[n - 1] + Weight(s[n])
  BY DEF SumsUp
<1>3. ASSUME T # {} PROVE FALSE
  <2>1. PICK n \in T : \A m \in T : n <= m
    BY <1>1, <1>3, Least
  <2>2. n \in 0 .. Len(s) /\ n # 0
    BY <1>1, <1>2, <2>1
  <2>3. n - 1 \in 0 .. Len(s) /\ ~(n <= n - 1)
    BY <1>1, <2>2
  <2>4. f[n - 1] = g[n - 1]
    BY <2>1, <2>3
  <2>5. QED
    BY <1>2, <2>1, <2>2, <2>4
<1>4. QED
  BY <1>1, <1>3

LEMMA SumExtended ==
    ASSUME NEW s \in Seq(SafeItems), NEW f, SumsUp(f, s), NEW item \in SafeItems
    PROVE  \E g : SumsUp(g, Append(s, item))
                   /\ g[Len(Append(s, item))] = f[Len(s)] + Weight(item)
<1> DEFINE n == Len(s)
           t == Append(s, item)
           g == [k \in 0 .. n + 1 |-> IF k = n + 1 THEN f[n] + Weight(item) ELSE f[k]]
<1>1. /\ n \in Nat /\ t \in Seq(SafeItems) /\ Len(t) = n + 1 /\ t[n + 1] = item
      /\ \A k \in 1 .. n : t[k] = s[k]
  OBVIOUS
<1>2. \A k \in 0 .. n : f[k] = IF k = 0 THEN 0 ELSE f[k - 1] + Weight(s[k])
  BY DEF SumsUp
<1> HIDE DEF n, t
<1>3. g[n + 1] = f[n] + Weight(item) /\ \A k \in 0 .. n : g[k] = f[k]
  BY <1>1
<1>4. ASSUME NEW k \in 0 .. n + 1
      PROVE  g[k] = IF k = 0 THEN 0 ELSE g[k - 1] + Weight(t[k])
  <2>1. CASE k = n + 1
    <3>1. k # 0 /\ k - 1 = n /\ n \in 0 .. n
      BY <1>1, <2>1
    <3>2. QED
      BY <1>1, <1>3, <2>1, <3>1
  <2>2. CASE k # n + 1
    <3>1. k \in 0 .. n
      BY <1>1, <2>2
    <3>2. k # 0 => k - 1 \in 0 .. n /\ k \in 1 .. n
      BY <1>1, <3>1
    <3>3. QED
      BY <1>1, <1>2, <1>3, <3>1, <3>2
  <2>3. QED
    BY <2>1, <2>2
<1>5. g = [k \in 0 .. n + 1 |-> g[k]]
  OBVIOUS
<1> HIDE DEF g
<1>6. SumsUp(g, t)
  BY <1>1, <1>4, <1>5 DEF SumsUp
<1>7. QED
  BY <1>1, <1>3, <1>6 DEF n, t

Summed ==
    outcome # "pageTooLarge" =>
        /\ \E f : SumsUp(f, safe) /\ f[Len(safe)] = total
        /\ total <= MaxPageDiagnosticBytes
        /\ outcome = "published" => Len(safe) = Len(page)

LEMMA SummedStep == PageTypeOK /\ Summed /\ [PageNext]_pageVars => Summed'
<1> SUFFICES ASSUME PageTypeOK, Summed, [PageNext]_pageVars PROVE Summed'
  OBVIOUS
<1>1. CASE SanitizeItem
  <2>1. Len(safe) + 1 \in 1 .. Len(page)
    BY <1>1 DEF SanitizeItem, PageTypeOK
  <2>2. Current \in Items
    BY <2>1 DEF Current, PageTypeOK
  <2>3. PICK problem \in Truncated(Current.problem, MaxProblemBytes),
             details \in Truncated(Current.details, MaxDetailsBytes) :
           /\ total' = total + Counted(Current, problem, details)
           /\ IF Fits(total')
              THEN /\ safe' = Append(safe, [valid |-> TRUE, problem |-> problem,
                                            details |-> details])
                   /\ UNCHANGED outcome
              ELSE /\ outcome' = "pageTooLarge"
                   /\ UNCHANGED safe
    BY <1>1 DEF SanitizeItem
  <2>4. problem \in 0 .. MaxProblemBytes /\ details \in 0 .. MaxDetailsBytes
    BY <2>2, <2>3, TruncatedWithin, PolicyAssumption DEF Items
  <2> DEFINE item == [valid |-> TRUE, problem |-> problem, details |-> details]
  <2>5. item \in SafeItems /\ total' = total + Weight(item)
    BY <2>3, <2>4 DEF SafeItems, Weight, Counted
  <2>6. outcome = "walking"
    BY <1>1 DEF SanitizeItem, Walking
  <2> HIDE DEF item
  <2>7. CASE Fits(total')
    <3>1. safe' = Append(safe, item) /\ outcome' = "walking"
      BY <2>3, <2>6, <2>7 DEF item
    <3>2. PICK f : SumsUp(f, safe) /\ f[Len(safe)] = total
      BY <2>6 DEF Summed
    <3>3. safe \in Seq(SafeItems)
      BY DEF PageTypeOK
    <3>4. \E g : SumsUp(g, safe') /\ g[Len(safe')] = total'
      BY <2>5, <3>1, <3>2, <3>3, SumExtended
    <3>5. QED
      BY <2>7, <3>1, <3>4 DEF Summed, Fits
  <2>8. CASE ~Fits(total')
    BY <2>3, <2>8 DEF Summed
  <2>9. QED
    BY <2>7, <2>8
<1>2. CASE RefuseItem
  BY <1>2 DEF RefuseItem, Walking, Summed
<1>3. CASE Publish
  BY <1>3 DEF Publish, Walking, Summed
<1>4. CASE RefusePage
  BY <1>4 DEF RefusePage, Summed
<1>5. CASE UNCHANGED pageVars
  BY <1>5 DEF pageVars, Summed
<1>6. QED
  BY <1>1, <1>2, <1>3, <1>4, <1>5 DEF PageNext

LEMMA AlwaysSummed == PageSpec => []Summed
<1>1. PageInit => Summed
  <2> SUFFICES ASSUME PageInit PROVE Summed
    OBVIOUS
  <2> DEFINE f == [n \in 0 .. 0 |-> 0]
  <2>1. safe = <<>> /\ Len(safe) = 0 /\ total = 0 /\ outcome = "walking"
    BY DEF PageInit
  <2>2. SumsUp(f, <<>>) /\ f[0] = 0
    BY DEF SumsUp
  <2> HIDE DEF f
  <2>3. QED
    BY <2>1, <2>2, PolicyAssumption DEF Summed
<1>2. QED
  BY <1>1, SummedStep, PageTypeCorrect, PTL DEF PageSpec

LEMMA SummedFits == PageTypeOK /\ Summed => PublishedFits
<1> SUFFICES ASSUME PageTypeOK, Summed, outcome = "published"
             PROVE  Len(safe) = Len(page) /\ PublishedBytes <= MaxPageDiagnosticBytes
  BY DEF PublishedFits
<1> DEFINE upTo == CHOOSE upTo :
                     upTo = [n \in 0 .. Len(safe) |->
                               IF n = 0 THEN 0 ELSE upTo[n - 1] + Weight(safe[n])]
<1>1. PublishedBytes = upTo[Len(safe)]
  BY DEF PublishedBytes
<1>2. PICK f : SumsUp(f, safe) /\ f[Len(safe)] = total
  BY DEF Summed
<1>3. SumsUp(upTo, safe)
  BY <1>2 DEF SumsUp
<1> HIDE DEF upTo
<1>4. upTo[Len(safe)] = total
  BY <1>2, <1>3, OneSum DEF PageTypeOK
<1>5. QED
  BY <1>1, <1>4 DEF Summed

(***************************************************************************)
(* Events.  First the arithmetic of whole seconds.                         *)
(***************************************************************************)

LEMMA SecondType ==
    ASSUME NEW t \in Int
    PROVE  /\ Second(t) \in Int /\ t - 1 <= Second(t) /\ Second(t) <= t
           /\ Second(Second(t)) = Second(t)
BY DEF Second

LEMMA SecondMonotone ==
    ASSUME NEW t \in Int, NEW u \in Int, t <= u
    PROVE  Second(t) <= Second(u)
BY DEF Second

LEMMA SecondWindow ==
    ASSUME NEW t \in Int, NEW w \in Nat
    PROVE  /\ Second(t - w) <= Second(t)
           /\ w = Second(w) => Second(t) - Second(t - w) = w
BY DEF Second

(* Which times an event has: all the later actions need of how it was
   written.                                                                 *)
Recorded(e) == e.event # None \/ (e.first # None /\ e.last # None)

LEMMA RecordedTimes ==
    ASSUME NEW e \in Events, Recorded(e)
    PROVE  e.name \in Names /\ e.name \in Nat /\ FirstTime(e) \in Int /\ LastTime(e) \in Int
<1>1. /\ e.name \in Names
      /\ e.first \in Times \cup {None} /\ e.event \in Times \cup {None}
      /\ e.last \in Times \cup {None} /\ e.observed \in Times \cup {None}
  BY DEF Events
<1>2. Times \subseteq Int /\ Names \subseteq Nat
  BY EventAssumption DEF Times, Second
<1>3. FirstTime(e) \in Int
  BY <1>1, <1>2 DEF FirstTime, Recorded
<1>4. LastTime(e) \in Int
  BY <1>1, <1>2 DEF LastTime, Recorded
<1>5. QED
  BY <1>1, <1>2, <1>3, <1>4

(* A query for a finding of that time.                                      *)
QueryOf(q, end) ==
    /\ q.start = Second(end - window) /\ q.end = Second(end) /\ q.seconds = window \div 2

LEMMA SignalTimes ==
    ASSUME NEW e \in Events, Recorded(e), NEW q, NEW end \in Int, QueryOf(q, end),
           window \in Nat, Overlaps(e, q)
    PROVE  /\ Signal(e, q) \in SignalType
           /\ q.start <= Signal(e, q).first /\ Signal(e, q).last <= q.end
           /\ FirstTime(e) <= LastTime(e) => SafeSignal(Signal(e, q))
<1> DEFINE F == FirstTime(e)
           L == LastTime(e)
<1>1. e.name \in Names /\ F \in Int /\ L \in Int
  BY RecordedTimes
<1>2. /\ q.start \in Int /\ q.end \in Int /\ q.start <= q.end
      /\ Second(q.start) = q.start /\ Second(q.end) = q.end
  <2>1. end - window \in Int
    OBVIOUS
  <2>2. /\ Second(end - window) \in Int /\ Second(end) \in Int
        /\ Second(Second(end - window)) = Second(end - window)
        /\ Second(Second(end)) = Second(end)
    BY <2>1, SecondType
  <2>3. Second(end - window) <= Second(end)
    BY SecondWindow
  <2>4. QED
    BY <2>2, <2>3 DEF QueryOf
<1>3. L >= q.start /\ F <= q.end
  BY DEF Overlaps
<1>4. /\ Signal(e, q).id = e.name
      /\ Signal(e, q).first = IF F < q.start THEN q.start ELSE Second(F)
      /\ Signal(e, q).last = IF L > q.end THEN q.end ELSE Second(L)
  BY DEF Signal
<1>5. Signal(e, q) = [id |-> e.name,
                      first |-> IF F < q.start THEN q.start ELSE Second(F),
                      last |-> IF L > q.end THEN q.end ELSE Second(L)]
  BY DEF Signal
<1> HIDE DEF F, L
<1>6. Second(F) \in Int /\ Second(L) \in Int /\ Second(F) <= F /\ Second(L) <= L
  BY <1>1, SecondType
<1>7. q.start <= Second(L) /\ Second(F) <= q.end
  BY <1>1, <1>2, <1>3, SecondMonotone
<1>8. F >= q.start => q.start <= Second(F)
  BY <1>1, <1>2, SecondMonotone
<1>9. F <= L => Second(F) <= Second(L)
  BY <1>1, SecondMonotone
<1>10. Signal(e, q) \in SignalType
  BY <1>1, <1>2, <1>5, <1>6 DEF SignalType
<1>11. q.start <= Signal(e, q).first /\ Signal(e, q).last <= q.end
  BY <1>1, <1>2, <1>4, <1>6, <1>8
<1>12. F <= L => ~(Signal(e, q).last < Signal(e, q).first)
  BY <1>1, <1>2, <1>4, <1>6, <1>7, <1>9
<1>13. QED
  BY <1>10, <1>11, <1>12 DEF SafeSignal, F, L

-----------------------------------------------------------------------------
(* The order of the signals of a bundle.                                    *)

Named(es) == \A a, b \in es : a.name = b.name => a = b
OwnId(ss) == \A a, b \in ss : a.id = b.id => a = b

LEMMA NewerIsOrder ==
    ASSUME NEW a \in SignalType, NEW b \in SignalType, NEW c \in SignalType
    PROVE  /\ ~Newer(a, a)
           /\ Newer(a, b) /\ Newer(b, c) => Newer(a, c)
           /\ a.id # b.id => Newer(a, b) \/ Newer(b, a)
<1>1. \A x \in {a, b, c} : x.id \in Nat /\ x.last \in Int
  BY EventAssumption DEF SignalType
<1>2. QED
  BY <1>1 DEF Newer

LEMMA OwnIdFinite ==
    ASSUME NEW ss, ss \subseteq SignalType, OwnId(ss)
    PROVE  IsFiniteSet(ss)
<1> DEFINE id == [signal \in ss |-> signal.id]
<1>1. id \in [ss -> Names] /\ \A a, b \in ss : id[a] = id[b] => a = b
  BY DEF SignalType, OwnId
<1> HIDE DEF id
<1>2. id \in Injection(ss, Names)
  BY <1>1 DEF Injection, IsInjective
<1>3. QED
  BY <1>2, FS_Injection, EventAssumption

(* There is one order of the signals of a bundle, found by the number of
   those that are newer than each.                                          *)
LEMMA OrderExists ==
    ASSUME NEW ss, ss \subseteq SignalType, OwnId(ss)
    PROVE  \E s \in [1 .. Cardinality(ss) -> ss] :
              \A i, j \in DOMAIN s : i < j => Newer(s[i], s[j])
<1> DEFINE n == Cardinality(ss)
           Ahead(x) == {y \in ss : Newer(y, x)}
           rank == [x \in ss |-> Cardinality(Ahead(x)) + 1]
<1>1. IsFiniteSet(ss) /\ n \in Nat
  BY OwnIdFinite, FS_CardinalityType
<1>2. ASSUME NEW x \in ss
      PROVE  /\ IsFiniteSet(Ahead(x)) /\ Cardinality(Ahead(x)) \in Nat
             /\ Cardinality(Ahead(x)) < n
  <2>1. x \notin Ahead(x) /\ Ahead(x) \in SUBSET ss
    BY NewerIsOrder
  <2>2. /\ IsFiniteSet(Ahead(x)) /\ Cardinality(Ahead(x)) <= n
        /\ Cardinality(ss) = Cardinality(Ahead(x)) => ss = Ahead(x)
    BY <1>1, <2>1, FS_Subset
  <2>3. Cardinality(Ahead(x)) \in Nat
    BY <2>2, FS_CardinalityType
  <2>4. QED
    BY <1>1, <2>1, <2>2, <2>3
<1>3. ASSUME NEW a \in ss, NEW b \in ss, Newer(a, b)
      PROVE  Cardinality(Ahead(a)) < Cardinality(Ahead(b))
  <2>1. Ahead(a) \in SUBSET Ahead(b)
    BY <1>3, NewerIsOrder
  <2>2. a \in Ahead(b) /\ a \notin Ahead(a)
    BY <1>3, NewerIsOrder
  <2>3. /\ Cardinality(Ahead(a)) <= Cardinality(Ahead(b))
        /\ Cardinality(Ahead(b)) = Cardinality(Ahead(a)) => Ahead(b) = Ahead(a)
    BY <1>2, <2>1, FS_Subset
  <2>4. QED
    BY <1>2, <2>2, <2>3
<1>4. ASSUME NEW a \in ss, NEW b \in ss, a # b PROVE Newer(a, b) \/ Newer(b, a)
  BY <1>4, NewerIsOrder DEF OwnId
<1>5. rank \in [ss -> 1 .. n]
  BY <1>1, <1>2
<1>6. ASSUME NEW a \in ss, NEW b \in ss, Newer(a, b) PROVE rank[a] < rank[b]
  <2>1. Cardinality(Ahead(a)) < Cardinality(Ahead(b))
    BY <1>3, <1>6
  <2>2. Cardinality(Ahead(a)) \in Nat /\ Cardinality(Ahead(b)) \in Nat
    BY <1>2
  <2>3. rank[a] = Cardinality(Ahead(a)) + 1 /\ rank[b] = Cardinality(Ahead(b)) + 1
    OBVIOUS
  <2> HIDE DEF Ahead, rank
  <2>4. QED
    BY <2>1, <2>2, <2>3
<1> HIDE DEF rank
<1>7. \A a, b \in ss : rank[a] = rank[b] => a = b
  BY <1>1, <1>4, <1>5, <1>6
<1>8. \A i \in 1 .. n : \E x \in ss : rank[x] = i
  <2>1. rank \in Injection(ss, 1 .. n)
    BY <1>5, <1>7 DEF Injection, IsInjective
  <2>2. IsFiniteSet(1 .. n) /\ Cardinality(1 .. n) = n
    BY <1>1, FS_Interval
  <2>3. rank \in Surjection(ss, 1 .. n)
    BY <2>1, <2>2, FS_Injection
  <2>4. QED
    BY <2>3 DEF Surjection
<1> DEFINE s == [i \in 1 .. n |-> CHOOSE x \in ss : rank[x] = i]
<1>9. s \in [1 .. n -> ss] /\ \A i \in 1 .. n : rank[s[i]] = i
  BY <1>8
<1> HIDE DEF s
<1>10. \A i, j \in DOMAIN s : i < j => Newer(s[i], s[j])
  BY <1>1, <1>4, <1>6, <1>9
<1>11. QED
  BY <1>9, <1>10

(* The order holds every signal of the bundle.                              *)
LEMMA Ordered ==
    ASSUME NEW ss, ss \subseteq SignalType, OwnId(ss)
    PROVE  /\ NewestFirst(ss) \in Seq(ss)
           /\ \A i, j \in 1 .. Len(NewestFirst(ss)) :
                 i < j => Newer(NewestFirst(ss)[i], NewestFirst(ss)[j])
           /\ \A x \in ss : \E i \in 1 .. Len(NewestFirst(ss)) : NewestFirst(ss)[i] = x
<1> DEFINE n == Cardinality(ss)
           s == NewestFirst(ss)
<1>1. IsFiniteSet(ss) /\ n \in Nat
  BY OwnIdFinite, FS_CardinalityType
<1>2. s \in [1 .. n -> ss] /\ \A i, j \in DOMAIN s : i < j => Newer(s[i], s[j])
  BY OrderExists DEF NewestFirst
<1> HIDE DEF s
<1>3. s \in Seq(ss) /\ Len(s) = n
  BY <1>1, <1>2
<1>4. ASSUME NEW i \in 1 .. n, NEW j \in 1 .. n, s[i] = s[j] PROVE i = j
  BY <1>1, <1>2, <1>4, NewerIsOrder
<1>5. s \in Surjection(1 .. n, ss)
  <2>1. s \in Injection(1 .. n, ss)
    BY <1>2, <1>4 DEF Injection, IsInjective
  <2>2. IsFiniteSet(1 .. n) /\ Cardinality(1 .. n) = n
    BY <1>1, FS_Interval
  <2>3. QED
    BY <1>1, <2>1, <2>2, FS_Injection
<1>6. QED
  BY <1>2, <1>3, <1>5 DEF Surjection, s

-----------------------------------------------------------------------------
(* What a bundle holds: the newest signals of the window, and all of them
   unless it is full.                                                       *)

Bundle(es, q) == {Signal(e, q) : e \in {x \in es : Overlaps(x, q)}}

LEMMA BundleType ==
    ASSUME NEW es, es \subseteq Events, Named(es), \A e \in es : Recorded(e),
           NEW q, NEW end \in Int, QueryOf(q, end), window \in Nat
    PROVE  Bundle(es, q) \subseteq SignalType /\ OwnId(Bundle(es, q))
<1>1. ASSUME NEW e \in {x \in es : Overlaps(x, q)}
      PROVE  Signal(e, q) \in SignalType /\ Signal(e, q).id = e.name
  <2>1. Signal(e, q) \in SignalType
    BY SignalTimes
  <2>2. Signal(e, q).id = e.name
    BY DEF Signal
  <2>3. QED
    BY <2>1, <2>2
<1>2. Bundle(es, q) \subseteq SignalType
  BY <1>1 DEF Bundle
<1>3. ASSUME NEW a \in Bundle(es, q), NEW b \in Bundle(es, q), a.id = b.id PROVE a = b
  <2>1. PICK e \in {x \in es : Overlaps(x, q)} : a = Signal(e, q)
    BY DEF Bundle
  <2>2. PICK f \in {x \in es : Overlaps(x, q)} : b = Signal(f, q)
    BY DEF Bundle
  <2>3. e.name = f.name
    BY <1>1, <1>3, <2>1, <2>2
  <2>4. e = f
    BY <2>3 DEF Named
  <2>5. QED
    BY <2>1, <2>2, <2>4
<1>4. QED
  BY <1>2, <1>3 DEF OwnId

LEMMA SignalsServed ==
    ASSUME NEW es, NEW q, Bundle(es, q) \subseteq SignalType, OwnId(Bundle(es, q))
    PROVE  /\ Signals(es, q) \in Seq(Bundle(es, q))
           /\ Len(Signals(es, q)) <= MaxSignals
           /\ \A i, j \in 1 .. Len(Signals(es, q)) :
                 i < j => Newer(Signals(es, q)[i], Signals(es, q)[j])
           /\ \A x \in Bundle(es, q) :
                 \/ \E i \in 1 .. Len(Signals(es, q)) : Signals(es, q)[i] = x
                 \/ /\ Len(Signals(es, q)) = MaxSignals
                    /\ \A i \in 1 .. Len(Signals(es, q)) : Newer(Signals(es, q)[i], x)
<1> DEFINE all == Bundle(es, q)
           n == Cardinality(all)
           m == IF n > MaxSignals THEN MaxSignals ELSE n
           s == NewestFirst(all)
           r == Signals(es, q)
<1>1. r = SubSeq(s, 1, m)
  BY DEF Signals, Bundle
<1>2. /\ s \in Seq(all)
      /\ \A i, j \in 1 .. Len(s) : i < j => Newer(s[i], s[j])
      /\ \A x \in all : \E i \in 1 .. Len(s) : s[i] = x
  BY Ordered
<1>3. n \in Nat /\ Len(s) = n
  <2>1. n \in Nat
    BY OwnIdFinite, FS_CardinalityType
  <2>2. s \in [1 .. n -> all]
    BY OrderExists DEF NewestFirst
  <2> HIDE DEF s
  <2>3. QED
    BY <1>2, <2>1, <2>2
<1> HIDE DEF s, n, all, r
<1>4. m \in Nat /\ m <= n /\ m <= MaxSignals /\ (m # n => m = MaxSignals)
  BY <1>3, EventAssumption
<1> HIDE DEF m
<1>5. /\ r \in Seq(all) /\ Len(r) = m
      /\ \A i \in 1 .. m : r[i] = s[i]
  <2>1. \A i \in 1 .. m : s[i] \in all
    BY <1>2, <1>3, <1>4
  <2>2. /\ SubSeq(s, 1, m) \in Seq(all)
        /\ Len(SubSeq(s, 1, m)) = IF 1 <= m THEN m - 1 + 1 ELSE 0
        /\ \A i \in 1 .. m - 1 + 1 : SubSeq(s, 1, m)[i] = s[1 + i - 1]
    <3>1. 1 \in Int /\ m \in Int
      BY <1>4
    <3>2. QED
      BY <2>1, <3>1, SubSeqProperties
  <2>3. \A i \in 1 .. m : i \in 1 .. m - 1 + 1 /\ 1 + i - 1 = i
    BY <1>4
  <2>4. Len(SubSeq(s, 1, m)) = m
    BY <1>4, <2>2
  <2>5. QED
    BY <1>1, <2>2, <2>3, <2>4
<1>6. \A i, j \in 1 .. m : i < j => Newer(r[i], r[j])
  BY <1>2, <1>3, <1>4, <1>5
<1>7. ASSUME NEW x \in all, \A i \in 1 .. m : r[i] # x
      PROVE  m = MaxSignals /\ \A i \in 1 .. m : Newer(r[i], x)
  <2>1. PICK k \in 1 .. n : s[k] = x
    BY <1>2, <1>3
  <2>2. m < k /\ k <= n
    BY <1>3, <1>4, <1>5, <1>7, <2>1
  <2>3. ASSUME NEW i \in 1 .. m PROVE Newer(r[i], x)
    <3>1. i \in 1 .. n /\ i < k
      BY <1>3, <1>4, <2>2
    <3>2. QED
      BY <1>2, <1>3, <1>5, <2>1, <3>1
  <2>4. m = MaxSignals
    BY <1>3, <1>4, <2>2
  <2>5. QED
    BY <2>3, <2>4
<1>8. QED
  BY <1>4, <1>5, <1>6, <1>7 DEF all, r

-----------------------------------------------------------------------------
(* A limited list of events with names of their own.                        *)

LEMMA NamedFinite ==
    ASSUME NEW es, es \subseteq Events, Named(es)
    PROVE  IsFiniteSet(es)
<1> DEFINE name == [e \in es |-> e.name]
<1>1. name \in [es -> Names] /\ \A a, b \in es : name[a] = name[b] => a = b
  BY DEF Events, Named
<1> HIDE DEF name
<1>2. name \in Injection(es, Names)
  BY <1>1 DEF Injection, IsInjective
<1>3. QED
  BY <1>2, FS_Injection, EventAssumption

LEMMA LimitType == CandidateLimit \in Nat
BY EventAssumption DEF CandidateLimit

LEMMA FetchedWithin ==
    ASSUME NEW es, es \subseteq Events, Named(es)
    PROVE  /\ Fetched(es) \subseteq es
           /\ Cardinality(Fetched(es)) <= CandidateLimit
           /\ Cardinality(es) <= CandidateLimit => Fetched(es) = es
<1> DEFINE limit == CandidateLimit
           Earlier(e) == {f \in es : f.name < e.name}
           got == Fetched(es)
           rank == [e \in got |-> Cardinality(Earlier(e))]
<1>1. IsFiniteSet(es) /\ Cardinality(es) \in Nat /\ limit \in Nat
  BY NamedFinite, FS_CardinalityType, LimitType
<1>2. got \subseteq es /\ \A e \in es : e \in got <=> Cardinality(Earlier(e)) < limit
  BY DEF Fetched
<1>3. \A e \in es : e.name \in Nat
  BY EventAssumption DEF Events
<1>4. ASSUME NEW e \in es
      PROVE  /\ IsFiniteSet(Earlier(e)) /\ Cardinality(Earlier(e)) \in Nat
             /\ Cardinality(Earlier(e)) < Cardinality(es)
  <2>1. e \notin Earlier(e) /\ Earlier(e) \in SUBSET es
    BY <1>3
  <2>2. /\ IsFiniteSet(Earlier(e)) /\ Cardinality(Earlier(e)) <= Cardinality(es)
        /\ Cardinality(es) = Cardinality(Earlier(e)) => es = Earlier(e)
    BY <1>1, <2>1, FS_Subset
  <2>3. Cardinality(Earlier(e)) \in Nat
    BY <2>2, FS_CardinalityType
  <2>4. QED
    BY <1>1, <2>1, <2>2, <2>3
<1>5. ASSUME NEW a \in es, NEW b \in es, a.name < b.name
      PROVE  Cardinality(Earlier(a)) < Cardinality(Earlier(b))
  <2>1. Earlier(a) \in SUBSET Earlier(b)
    BY <1>3, <1>5
  <2>2. a \in Earlier(b) /\ a \notin Earlier(a)
    BY <1>3, <1>5
  <2>3. /\ Cardinality(Earlier(a)) <= Cardinality(Earlier(b))
        /\ Cardinality(Earlier(b)) = Cardinality(Earlier(a)) => Earlier(b) = Earlier(a)
    BY <1>4, <2>1, FS_Subset
  <2>4. Earlier(b) # Earlier(a)
    BY <2>2
  <2>5. Cardinality(Earlier(a)) \in Nat /\ Cardinality(Earlier(b)) \in Nat
    BY <1>4
  <2> HIDE DEF Earlier
  <2>6. QED
    BY <2>3, <2>4, <2>5
<1>6. ASSUME Cardinality(es) <= limit PROVE got = es
  <2>1. ASSUME NEW e \in es PROVE Cardinality(Earlier(e)) < limit
    <3>1. Cardinality(Earlier(e)) \in Nat /\ Cardinality(Earlier(e)) < Cardinality(es)
      BY <1>4
    <3> HIDE DEF Earlier, limit
    <3>2. QED
      BY <1>1, <1>6, <3>1
  <2>2. QED
    BY <1>2, <2>1
<1> HIDE DEF got
<1>7. rank \in [got -> 0 .. limit - 1]
  <2>1. ASSUME NEW e \in got PROVE Cardinality(Earlier(e)) \in 0 .. limit - 1
    <3>1. Cardinality(Earlier(e)) \in Nat /\ Cardinality(Earlier(e)) < limit
      BY <1>2, <1>4
    <3> HIDE DEF Earlier, limit
    <3>2. QED
      BY <1>1, <3>1
  <2>2. QED
    BY <2>1
<1>8. ASSUME NEW a \in got, NEW b \in got, rank[a] = rank[b] PROVE a = b
  <2>1. rank[a] = Cardinality(Earlier(a)) /\ rank[b] = Cardinality(Earlier(b))
    OBVIOUS
  <2> HIDE DEF rank
  <2>2. ~(a.name < b.name) /\ ~(b.name < a.name)
    <3>1. Cardinality(Earlier(a)) \in Nat /\ Cardinality(Earlier(b)) \in Nat
      BY <1>2, <1>4
    <3> HIDE DEF Earlier
    <3>2. Cardinality(Earlier(a)) = Cardinality(Earlier(b))
      BY <1>8, <2>1
    <3>3. QED
      BY <1>2, <1>5, <3>1, <3>2
  <2>3. a.name = b.name
    BY <1>2, <1>3, <2>2
  <2>4. QED
    BY <1>2, <2>3 DEF Named
<1> HIDE DEF rank
<1>9. rank \in Injection(got, 0 .. limit - 1)
  BY <1>7, <1>8 DEF Injection, IsInjective
<1>10. IsFiniteSet(0 .. limit - 1) /\ Cardinality(0 .. limit - 1) = limit
  <2> HIDE DEF limit
  <2>1. 0 \in Int /\ limit - 1 \in Int
    BY <1>1
  <2>2. /\ IsFiniteSet(0 .. limit - 1)
        /\ Cardinality(0 .. limit - 1) = IF 0 > limit - 1 THEN 0 ELSE limit - 1 - 0 + 1
    BY <2>1, FS_Interval
  <2>3. QED
    BY <1>1, <2>2
<1>11. Cardinality(got) <= limit
  BY <1>9, <1>10, FS_Injection
<1>12. QED
  BY <1>2, <1>6, <1>11 DEF got

-----------------------------------------------------------------------------
(* The invariant.  The query and what was fetched are those the answer was
   made of, whatever happens to the events afterwards.                      *)

Asked == query # None => \E end \in Int : QueryOf(query, end)

Taken == fetched # None => query # None /\ fetched = Fetched(stored)

Settled ==
    reply # None =>
        /\ reply.status = 200 =>
              /\ fetched # None /\ reply.signals = Signals(fetched, query)
              /\ Safe(query, reply.signals)
        /\ fetched # None /\ reply.status # 200 => ~Safe(query, Signals(fetched, query))

Stored(es) == es \subseteq Events /\ Named(es) /\ \A e \in es : Recorded(e)

EventInv ==
    /\ EventTypeOK
    /\ Stored(events) /\ Stored(stored)
    /\ Asked /\ Taken /\ Settled

LEMMA EventStart == EventInit => EventInv
<1> SUFFICES ASSUME EventInit PROVE EventInv
  OBVIOUS
<1>1. 0 \in 0 .. MaxClock
  BY EventAssumption
<1>2. EventTypeOK
  BY <1>1 DEF EventInit, EventTypeOK
<1>3. Stored(events) /\ Stored(stored)
  BY DEF EventInit, Stored, Named
<1>4. Asked /\ Taken /\ Settled
  BY DEF EventInit, Asked, Taken, Settled
<1>5. QED
  BY <1>2, <1>3, <1>4 DEF EventInv

LEMMA WindowType == window \in Windows => window \in Nat /\ window >= 1 /\ window <= MaxWindow
BY EventAssumption

(* The cluster only changes its own events.                                 *)
LEMMA StoreStep ==
    ASSUME EventInv, NEW es, Stored(es), Store(es)
    PROVE  EventInv'
<1>1. events' = es /\ UNCHANGED <<clock, window, query, fetched, stored, reply>>
  BY DEF Store
<1>2. EventTypeOK'
  BY <1>1 DEF EventInv, EventTypeOK, Stored, Named
<1>3. Stored(events)' /\ Stored(stored)'
  BY <1>1 DEF EventInv, Stored, Named
<1>4. Asked' /\ Taken' /\ Settled'
  <2>1. Asked'
    BY <1>1 DEF EventInv, Asked, QueryOf
  <2>2. Taken'
    BY <1>1 DEF EventInv, Taken
  <2>3. Settled'
    BY <1>1 DEF EventInv, Settled
  <2>4. QED
    BY <2>1, <2>2, <2>3
<1>5. QED
  BY <1>2, <1>3, <1>4 DEF EventInv

LEMMA RecorderTimesType ==
    ASSUME clock \in 0 .. MaxClock, NEW t \in RecorderTimes
    PROVE  t \in Times /\ Second(t) \in Times /\ t # None /\ Second(t) # None
<1>1. t \in Int /\ -Skew \in Int /\ -Skew <= t /\ t <= MaxClock
  BY EventAssumption DEF RecorderTimes
<1>2. /\ Second(-Skew) \in Int /\ Second(-Skew) <= -Skew
      /\ Second(t) \in Int /\ Second(t) <= t
  BY <1>1, SecondType
<1>3. Second(-Skew) <= Second(t)
  BY <1>1, SecondMonotone
<1>4. MaxClock \in Int
  BY EventAssumption
<1>5. t \in Times /\ Second(t) \in Times
  BY <1>1, <1>2, <1>3, <1>4 DEF Times
<1>6. QED
  BY <1>1, <1>2, <1>5, EventAssumption

LEMMA ClusterStep ==
    ASSUME EventInv, Cluster
    PROVE  EventInv'
<1>1. clock \in 0 .. MaxClock /\ Stored(events)
  BY DEF EventInv, EventTypeOK
<1>2. CASE Emit
  <2>1. PICK n \in Names, t \in RecorderTimes, core \in BOOLEAN :
        /\ \A e \in events : e.name # n
        /\ Store(events \cup
             {IF core
              THEN [name |-> n, first |-> Second(t), event |-> None,
                    last |-> Second(t), observed |-> None]
              ELSE [name |-> n, first |-> None, event |-> t,
                    last |-> None, observed |-> None]})
    BY <1>2 DEF Emit
  <2>2. t \in Times /\ Second(t) \in Times /\ t # None /\ Second(t) # None
    BY <1>1, RecorderTimesType
  <2>3. ASSUME NEW new, new.name = n, new \in Events, Recorded(new)
        PROVE  Stored(events \cup {new})
    BY <1>1, <2>1, <2>3 DEF Stored, Named
  <2> DEFINE asCore == [name |-> n, first |-> Second(t), event |-> None,
                        last |-> Second(t), observed |-> None]
             asEvent == [name |-> n, first |-> None, event |-> t,
                         last |-> None, observed |-> None]
  <2>4. asCore.name = n /\ asCore \in Events /\ Recorded(asCore)
    BY <2>2 DEF Events, Recorded
  <2>5. asEvent.name = n /\ asEvent \in Events /\ Recorded(asEvent)
    BY <2>2 DEF Events, Recorded
  <2>6. Store(events \cup {asCore}) \/ Store(events \cup {asEvent})
    BY <2>1
  <2> HIDE DEF asCore, asEvent
  <2>7. Stored(events \cup {asCore}) /\ Stored(events \cup {asEvent})
    BY <2>3, <2>4, <2>5
  <2>8. QED
    BY <2>6, <2>7, StoreStep
<1>3. CASE Repeat
  <2>1. PICK e \in events, t \in RecorderTimes :
        Store((events \ {e}) \cup
              {IF e.event = None THEN [e EXCEPT !.last = Second(t)]
                                 ELSE [e EXCEPT !.observed = t]})
    BY <1>3 DEF Repeat
  <2>2. t \in Times /\ Second(t) \in Times /\ t # None /\ Second(t) # None
    BY <1>1, RecorderTimesType
  <2>3. e \in Events /\ Recorded(e)
    BY <1>1 DEF Stored
  <2> DEFINE new == IF e.event = None THEN [e EXCEPT !.last = Second(t)]
                                      ELSE [e EXCEPT !.observed = t]
  <2>4. new.name = e.name
    BY <2>3 DEF Events
  <2>5. new \in Events /\ Recorded(new)
    <3>1. CASE e.event = None
      BY <2>2, <2>3, <3>1 DEF Events, Recorded
    <3>2. CASE e.event # None
      BY <2>2, <2>3, <3>2 DEF Events, Recorded
    <3>3. QED
      BY <3>1, <3>2
  <2>6. Store((events \ {e}) \cup {new})
    BY <2>1
  <2> HIDE DEF new
  <2>7. Stored((events \ {e}) \cup {new})
    BY <1>1, <2>4, <2>5 DEF Stored, Named
  <2>8. QED
    BY <2>6, <2>7, StoreStep
<1>4. CASE Expires
  <2>1. PICK e \in events : Store(events \ {e})
    BY <1>4 DEF Expires
  <2>2. Stored(events \ {e})
    BY <1>1 DEF Stored, Named
  <2>3. QED
    BY <2>1, <2>2, StoreStep
<1>5. CASE Tick
  <2>1. /\ clock < MaxClock /\ clock' = clock + 1
        /\ UNCHANGED <<events, window, query, fetched, stored, reply>>
    BY <1>5 DEF Tick
  <2>2. clock' \in 0 .. MaxClock
    BY <1>1, <2>1, EventAssumption
  <2>3. EventTypeOK'
    BY <2>1, <2>2 DEF EventInv, EventTypeOK
  <2>4. Stored(events)' /\ Stored(stored)'
    BY <2>1 DEF EventInv, Stored, Named
  <2>5. Asked' /\ Taken' /\ Settled'
    <3>1. Asked'
      BY <2>1 DEF EventInv, Asked, QueryOf
    <3>2. Taken'
      BY <2>1 DEF EventInv, Taken
    <3>3. Settled'
      BY <2>1 DEF EventInv, Settled
    <3>4. QED
      BY <3>1, <3>2, <3>3
  <2>6. QED
    BY <2>3, <2>4, <2>5 DEF EventInv
<1>6. QED
  BY <1>2, <1>3, <1>4, <1>5 DEF Cluster

LEMMA AskStep ==
    ASSUME EventInv, Ask
    PROVE  EventInv'
<1>1. /\ query = None /\ fetched = None
      /\ UNCHANGED <<clock, events, window, fetched, stored, reply>>
  BY DEF Ask, EventInv, Taken
<1>2. PICK end \in Anchors, target \in Targets : query' = Query(end, target)
  BY DEF Ask
<1>3. end \in Int /\ window \in Nat
  BY EventAssumption DEF Anchors, EventInv, EventTypeOK
<1>4. query' \in [start : Int, end : Int, seconds : Nat, target : Targets]
  <2>1. /\ Second(end - window) \in Int /\ Second(end) \in Int /\ window \div 2 \in Nat
    BY <1>3, SecondType
  <2>2. QED
    BY <1>2, <2>1 DEF Query
<1>5. QueryOf(query, end)'
  BY <1>1, <1>2 DEF Query, QueryOf
<1>6. EventTypeOK'
  BY <1>1, <1>4 DEF EventInv, EventTypeOK
<1>7. Stored(events)' /\ Stored(stored)'
  BY <1>1 DEF EventInv, Stored, Named
<1>8. Asked'
  BY <1>3, <1>5 DEF Asked
<1>9. Taken' /\ Settled'
  BY <1>1 DEF EventInv, Taken, Settled
<1>10. QED
  BY <1>6, <1>7, <1>8, <1>9 DEF EventInv

LEMMA ListStep ==
    ASSUME EventInv, List
    PROVE  EventInv'
<1>1. /\ query # None /\ reply = None
      /\ stored' = events \/ stored' = {}
      /\ fetched' = Fetched(stored')
      /\ UNCHANGED <<clock, events, window, query, reply>>
  BY DEF List
<1>2. Stored(events) /\ Stored({})
  BY DEF EventInv, Stored, Named
<1>3. Stored(stored')
  BY <1>1, <1>2
<1>4. fetched' \subseteq stored' /\ Cardinality(fetched') <= CandidateLimit
  BY <1>1, <1>3, FetchedWithin DEF Stored
<1>5. EventTypeOK'
  BY <1>1, <1>3, <1>4 DEF EventInv, EventTypeOK, Stored, CandidateLimit
<1>6. Stored(events)' /\ Stored(stored)'
  BY <1>1, <1>3 DEF EventInv, Stored, Named
<1>7. Asked'
  BY <1>1 DEF EventInv, Asked, QueryOf
<1>8. Taken'
  BY <1>1 DEF Taken
<1>9. Settled'
  BY <1>1 DEF EventInv, Settled
<1>10. QED
  BY <1>5, <1>6, <1>7, <1>8, <1>9 DEF EventInv

LEMMA ListFailsStep ==
    ASSUME EventInv, ListFails
    PROVE  EventInv'
<1>1. /\ query # None /\ fetched = None
      /\ reply' = [status |-> 503, state |-> "unavailable", signals |-> <<>>]
      /\ UNCHANGED <<clock, events, window, query, fetched, stored>>
  BY DEF ListFails
<1>2. EventTypeOK'
  <2>1. reply'.status = 503 /\ reply'.signals \in Seq(SignalType) /\ Len(reply'.signals) <= MaxSignals
    BY <1>1, EventAssumption
  <2>2. SignalType' = SignalType /\ CandidateLimit' = CandidateLimit
    BY DEF SignalType, CandidateLimit
  <2>3. QED
    BY <1>1, <2>1, <2>2 DEF EventInv, EventTypeOK
<1>3. Stored(events)' /\ Stored(stored)'
  BY <1>1 DEF EventInv, Stored, Named
<1>4. Asked'
  BY <1>1 DEF EventInv, Asked, QueryOf
<1>5. Taken'
  BY <1>1 DEF EventInv, Taken
<1>6. Settled'
  BY <1>1 DEF EventInv, Settled
<1>7. QED
  BY <1>2, <1>3, <1>4, <1>5, <1>6 DEF EventInv

(* What Signals returns for what was fetched.                               *)
LEMMA FetchedBundle ==
    ASSUME EventInv, fetched # None
    PROVE  /\ fetched \subseteq stored /\ fetched \subseteq Events
           /\ \E end \in Int : QueryOf(query, end)
           /\ window \in Nat /\ window >= 1 /\ window <= MaxWindow
           /\ Bundle(fetched, query) \subseteq SignalType /\ OwnId(Bundle(fetched, query))
<1>1. query # None /\ fetched = Fetched(stored) /\ Stored(stored)
  BY DEF EventInv, Taken
<1>2. Stored(fetched) /\ fetched \subseteq stored
  BY <1>1, FetchedWithin DEF Stored, Named
<1>3. PICK end \in Int : QueryOf(query, end)
  BY <1>1 DEF EventInv, Asked
<1>4. window \in Nat /\ window >= 1 /\ window <= MaxWindow
  BY WindowType DEF EventInv, EventTypeOK
<1>5. Bundle(fetched, query) \subseteq SignalType /\ OwnId(Bundle(fetched, query))
  BY <1>2, <1>3, <1>4, BundleType DEF Stored
<1>6. QED
  BY <1>2, <1>3, <1>4, <1>5 DEF Stored

LEMMA ReplyStep ==
    ASSUME EventInv, Reply
    PROVE  EventInv'
<1> DEFINE signals == Signals(fetched, query)
<1>1. /\ fetched # None /\ reply = None
      /\ reply' = IF Safe(query, signals)
                  THEN [status |-> 200, state |-> "available", signals |-> signals]
                  ELSE [status |-> 502, state |-> "available", signals |-> <<>>]
      /\ UNCHANGED <<clock, events, window, query, fetched, stored>>
  BY DEF Reply
<1>2. signals \in Seq(SignalType) /\ Len(signals) <= MaxSignals
  <2>1. Bundle(fetched, query) \subseteq SignalType /\ OwnId(Bundle(fetched, query))
    BY <1>1, FetchedBundle
  <2>2. signals \in Seq(Bundle(fetched, query)) /\ Len(signals) <= MaxSignals
    BY <2>1, SignalsServed
  <2> HIDE DEF signals
  <2>3. QED
    BY <2>1, <2>2
<1>3. EventTypeOK'
  <2> HIDE DEF signals
  <2>1. /\ reply'.status \in {200, 502, 503} /\ reply'.signals \in Seq(SignalType)
        /\ Len(reply'.signals) <= MaxSignals
    BY <1>1, <1>2, EventAssumption
  <2>2. SignalType' = SignalType /\ CandidateLimit' = CandidateLimit
    BY DEF SignalType, CandidateLimit
  <2>3. QED
    BY <1>1, <2>1, <2>2 DEF EventInv, EventTypeOK
<1>4. Stored(events)' /\ Stored(stored)'
  BY <1>1 DEF EventInv, Stored, Named
<1>5. Asked'
  BY <1>1 DEF EventInv, Asked, QueryOf
<1>6. Taken'
  BY <1>1 DEF EventInv, Taken
<1>7. Settled'
  <2>1. CASE Safe(query, signals)
    <3>1. reply'.status = 200 /\ reply'.signals = Signals(fetched, query)
      BY <1>1, <2>1
    <3>2. QED
      BY <1>1, <2>1, <3>1 DEF Settled
  <2>2. CASE ~Safe(query, signals)
    <3>1. reply'.status = 502
      BY <1>1, <2>2
    <3>2. QED
      BY <1>1, <2>2, <3>1 DEF Settled
  <2>3. QED
    BY <2>1, <2>2
<1>8. QED
  BY <1>3, <1>4, <1>5, <1>6, <1>7 DEF EventInv

LEMMA AlwaysEvents == EventSpec => []EventInv
<1>1. EventInv /\ [EventNext]_eventVars => EventInv'
  <2>1. ASSUME EventInv, UNCHANGED eventVars PROVE EventInv'
    <3>1. UNCHANGED <<clock, events, window, query, fetched, stored, reply>>
      BY <2>1 DEF eventVars
    <3>2. EventTypeOK'
      BY <2>1, <3>1 DEF EventInv, EventTypeOK
    <3>3. Stored(events)' /\ Stored(stored)'
      BY <2>1, <3>1 DEF EventInv, Stored, Named
    <3>4. Asked'
      BY <2>1, <3>1 DEF EventInv, Asked, QueryOf
    <3>5. Taken'
      BY <2>1, <3>1 DEF EventInv, Taken
    <3>6. Settled'
      BY <2>1, <3>1 DEF EventInv, Settled
    <3>7. QED
      BY <3>2, <3>3, <3>4, <3>5, <3>6 DEF EventInv
  <2>2. QED
    BY <2>1, ClusterStep, AskStep, ListStep, ListFailsStep, ReplyStep DEF EventNext
<1>2. QED
  BY <1>1, EventStart, PTL DEF EventSpec

-----------------------------------------------------------------------------
(* The answers.                                                             *)

LEMMA ServesNewest == EventInv => NewestServed
<1> SUFFICES ASSUME EventInv, Answered, Cardinality(stored) <= CandidateLimit,
                    NEW e \in Relevant, e.name \notin Shown
             PROVE  /\ Len(reply.signals) = MaxSignals
                    /\ \A i \in DOMAIN reply.signals :
                           reply.signals[i].last >= Signal(e, query).last
  BY DEF NewestServed
<1>1. fetched # None /\ reply.signals = Signals(fetched, query)
  BY DEF EventInv, Settled, Answered
<1>2. fetched = stored
  BY <1>1, FetchedWithin DEF EventInv, Stored, Taken
<1>3. Bundle(fetched, query) \subseteq SignalType /\ OwnId(Bundle(fetched, query))
  BY <1>1, FetchedBundle
<1> DEFINE r == reply.signals
           x == Signal(e, query)
           all == Bundle(fetched, query)
<1>4. x \in all /\ x.id = e.name
  BY <1>2 DEF Relevant, Bundle, Signal
<1>5. /\ r \in Seq(all)
      /\ \A y \in all :
            \/ \E i \in 1 .. Len(r) : r[i] = y
            \/ Len(r) = MaxSignals /\ \A i \in 1 .. Len(r) : Newer(r[i], y)
  BY <1>1, <1>3, SignalsServed
<1>6. \A i \in 1 .. Len(r) : r[i].id # x.id
  BY <1>4, <1>5 DEF Shown
<1> HIDE DEF x, all
<1>7. Len(r) = MaxSignals /\ \A i \in 1 .. Len(r) : Newer(r[i], x)
  BY <1>4, <1>5, <1>6
<1>8. ASSUME NEW i \in DOMAIN r PROVE r[i].last >= x.last
  <2>1. i \in 1 .. Len(r) /\ r[i] \in SignalType /\ x \in SignalType
    BY <1>3, <1>4, <1>5 DEF all
  <2>2. r[i].last \in Int /\ x.last \in Int
    BY <2>1 DEF SignalType
  <2>3. Newer(r[i], x)
    BY <1>7, <2>1
  <2>4. QED
    BY <2>2, <2>3 DEF Newer
<1>9. QED
  BY <1>7, <1>8 DEF x

LEMMA StaysWithinWindow == EventInv => WithinWindow
<1> SUFFICES ASSUME EventInv, Answered
             PROVE  /\ Shown \subseteq {e.name : e \in Relevant}
                    /\ Cardinality(Shown) = Len(reply.signals)
                    /\ \A i \in DOMAIN reply.signals :
                           /\ query.start <= reply.signals[i].first
                           /\ reply.signals[i].first <= reply.signals[i].last
                           /\ reply.signals[i].last <= query.end
  BY DEF WithinWindow
<1> DEFINE r == reply.signals
           all == Bundle(fetched, query)
           n == Len(r)
<1>1. fetched # None /\ r = Signals(fetched, query) /\ Safe(query, r)
  BY DEF EventInv, Settled, Answered
<1>2. /\ fetched \subseteq stored /\ fetched \subseteq Events
      /\ all \subseteq SignalType /\ OwnId(all) /\ window \in Nat
  BY <1>1, FetchedBundle
<1>3. PICK end \in Int : QueryOf(query, end)
  BY <1>1, FetchedBundle
<1>4. r \in Seq(all) /\ \A i, j \in 1 .. n : i < j => Newer(r[i], r[j])
  BY <1>1, <1>2, SignalsServed
<1>5. n \in Nat /\ DOMAIN r = 1 .. n /\ \A i \in 1 .. n : r[i] \in all
  BY <1>4
<1> HIDE DEF r, n
<1>6. ASSUME NEW i \in 1 .. n
      PROVE  \E e \in fetched : Overlaps(e, query) /\ r[i] = Signal(e, query)
  BY <1>5 DEF Bundle
<1>7. Shown \subseteq {e.name : e \in Relevant}
  <2>1. ASSUME NEW i \in 1 .. n PROVE r[i].id \in {e.name : e \in Relevant}
    <3>1. PICK e \in fetched : Overlaps(e, query) /\ r[i] = Signal(e, query)
      BY <1>6
    <3>2. e \in Relevant /\ r[i].id = e.name
      BY <1>2, <3>1 DEF Relevant, Signal
    <3>3. QED
      BY <3>2
  <2>2. QED
    BY <1>5, <2>1 DEF Shown, r
<1>8. Cardinality(Shown) = n
  <2> DEFINE id == [i \in 1 .. n |-> r[i].id]
  <2>1. Shown = {r[i].id : i \in 1 .. n}
    BY <1>5 DEF Shown, r
  <2>2. id \in Surjection(1 .. n, Shown)
    BY <2>1 DEF Surjection
  <2>3. ASSUME NEW i \in 1 .. n, NEW j \in 1 .. n, r[i].id = r[j].id PROVE i = j
    <3>1. r[i] = r[j] /\ r[i] \in SignalType
      BY <1>2, <1>5, <2>3 DEF OwnId
    <3>2. ~(i < j) /\ ~(j < i)
      BY <1>4, <3>1, NewerIsOrder
    <3>3. QED
      BY <1>5, <3>2
  <2>4. \A i, j \in 1 .. n : id[i] = id[j] => i = j
    BY <2>3
  <2> HIDE DEF id
  <2>5. id \in Injection(1 .. n, Shown)
    BY <2>2, <2>4 DEF Injection, Surjection, IsInjective
  <2>6. IsFiniteSet(1 .. n) /\ Cardinality(1 .. n) = n
    BY <1>5, FS_Interval
  <2>7. QED
    BY <2>2, <2>5, <2>6, FS_Surjection
<1>9. ASSUME NEW i \in 1 .. n
      PROVE  /\ query.start <= r[i].first
             /\ r[i].first <= r[i].last
             /\ r[i].last <= query.end
  <2>1. PICK e \in fetched : Overlaps(e, query) /\ r[i] = Signal(e, query)
    BY <1>6
  <2>2. e \in Events /\ Recorded(e)
    BY <1>2, <2>1 DEF EventInv, Stored
  <2>3. query.start <= r[i].first /\ r[i].last <= query.end /\ r[i] \in SignalType
    BY <1>2, <1>3, <2>1, <2>2, SignalTimes
  <2>4. ~(r[i].last < r[i].first)
    BY <1>1, <1>5 DEF Safe, SafeSignal
  <2>5. r[i].last \in Int /\ r[i].first \in Int
    BY <2>3 DEF SignalType
  <2>6. QED
    BY <2>3, <2>4, <2>5
<1>10. QED
  BY <1>5, <1>7, <1>8, <1>9 DEF r, n

LEMMA ServesGoodEvents == EventInv => GoodEventsServed
<1> SUFFICES ASSUME EventInv, fetched # None, reply # None, window = Second(window),
                    \A e \in stored : FirstTime(e) <= LastTime(e)
             PROVE  Answered
  BY DEF GoodEventsServed
<1> DEFINE r == Signals(fetched, query)
           all == Bundle(fetched, query)
<1>1. /\ fetched \subseteq stored /\ fetched \subseteq Events
      /\ all \subseteq SignalType /\ OwnId(all)
      /\ window \in Nat /\ window >= 1 /\ window <= MaxWindow
  BY FetchedBundle
<1>2. PICK end \in Int : QueryOf(query, end)
  BY FetchedBundle
<1>3. r \in Seq(all) /\ Len(r) <= MaxSignals
  BY <1>1, SignalsServed
<1> HIDE DEF r
<1>4. ASSUME NEW i \in DOMAIN r PROVE SafeSignal(r[i])
  <2>1. r[i] \in all
    BY <1>3
  <2>2. PICK e \in fetched : Overlaps(e, query) /\ r[i] = Signal(e, query)
    BY <2>1 DEF Bundle
  <2>3. e \in Events /\ Recorded(e) /\ FirstTime(e) <= LastTime(e)
    BY <1>1, <2>2 DEF EventInv, Stored
  <2>4. QED
    BY <1>1, <1>2, <2>2, <2>3, SignalTimes
<1>5. SafeWindow(query)
  <2>1. /\ query.start \in Int /\ query.end \in Int
        /\ query.end - query.start = window /\ query.seconds = window \div 2
    <3>1. end - window \in Int
      BY <1>1, <1>2
    <3>2. Second(end - window) \in Int /\ Second(end) \in Int
      BY <1>2, <3>1, SecondType
    <3>3. Second(end) - Second(end - window) = window
      BY <1>1, <1>2, SecondWindow
    <3>4. QED
      BY <1>2, <3>2, <3>3 DEF QueryOf
  <2>2. window % 2 = 0
    BY <1>1 DEF Second
  <2>3. window \div 2 \in 1 .. MaxWindow \div 2
    BY <1>1, <2>2, EventAssumption
  <2>4. query.end >= query.start /\ query.end - query.start <= MaxWindow
    BY <1>1, <2>1, EventAssumption
  <2>5. QED
    BY <2>1, <2>3, <2>4 DEF SafeWindow
<1>6. Safe(query, r)
  BY <1>3, <1>4, <1>5 DEF Safe
<1>7. QED
  BY <1>6 DEF EventInv, Settled, Answered, r

(***************************************************************************)
(* Both: a request takes one route and leaves the state of the other as it *)
(* is.                                                                     *)
(***************************************************************************)

LEMMA PageAlone == Spec => PageSpec
<1>1. Init => PageInit
  BY DEF Init
<1>2. [Next]_vars => [PageNext]_pageVars
  BY DEF Next, vars, FindingsRoute, CorrelationRoute
<1>3. QED
  BY <1>1, <1>2, PTL DEF Spec, PageSpec

LEMMA EventAlone == Spec => EventSpec
<1>1. Init => EventInit
  BY DEF Init
<1>2. [Next]_vars => [EventNext]_eventVars
  BY DEF Next, vars, FindingsRoute, CorrelationRoute
<1>3. QED
  BY <1>1, <1>2, PTL DEF Spec, EventSpec

(* Every variable keeps its type: a scan fetches no more events than its limit,
   an answer holds no more signals than the budget and no text of a finding
   is longer than its bound (eventListRequest, Client.Events,
   sanitizeDiagnosticText).                                                 *)
THEOREM TypeCorrect == Spec => []TypeOK
<1>1. EventInv => EventTypeOK
  BY DEF EventInv
<1>2. QED
  BY <1>1, AlwaysEvents, EventAlone, PageTypeCorrect, PageAlone, PTL DEF TypeOK

(* A page of no more findings than fit at their full bounds is never refused
   for its size, however long their texts are (FindingPage, Finding).       *)
THEOREM SmallPagesAlwaysPass == Spec => []SmallPagesPass
<1>1. QED
  BY SharesPass, AlwaysShare, PageTypeCorrect, PageAlone, PTL

(* A published page has all its findings, and the bytes of its texts stay
   within the bound of a page (FindingPage's totalDiagnosticBytes).         *)
THEOREM PublishedPagesFit == Spec => []PublishedFits
<1>1. QED
  BY SummedFits, AlwaysSummed, PageTypeCorrect, PageAlone, PTL

(* An answer holds only signals of its window, each once and in order, and
   what was cut from it is no newer than what it holds (Client.Events).     *)
THEOREM AnswersAreBest == Spec => []BestOfWindow
<1>1. EventInv => BestOfWindow
  BY ServesNewest, StaysWithinWindow DEF BestOfWindow
<1>2. QED
  BY <1>1, AlwaysEvents, EventAlone, PTL

(* Clamping and cutting to seconds never turn good events into a bundle that
   the sanitizer refuses (eventSignal, Client.Events, Correlate).           *)
THEOREM GoodEventsAreServed == Spec => []GoodEventsServed
<1>1. QED
  BY ServesGoodEvents, AlwaysEvents, EventAlone, PTL
=============================================================================
