-------------------------- MODULE CorrelationProofs --------------------------
(***************************************************************************)
(* Theorems about Correlation for every number of sources, every signal    *)
(* budget and every set of adapter answers: the bookkeeping of channel and *)
(* slice, the refinement of CorrelationPromise, and what a correlation     *)
(* hands to its caller (results that are final and exactly one for each    *)
(* source, no failure dressed up as an empty success, a bundle that the    *)
(* response sanitizer accepts).                                            *)
(***************************************************************************)
EXTENDS Correlation, FiniteSetTheorems, TLAPS

(* The slots of the caller's slice that a receive has filled.               *)
Filed == {s \in Sources : ordered[s] # NoResult}

(* How channel, slice and collectors fit together: a result is in exactly
   one place, belongs to a finished collector, and the receive counter
   counts the filled slots.                                                 *)
InChannel ==
    /\ \A r \in results : collector[r.index] = "done" /\ r.index \notin Filed
    /\ \A r, q \in results : r.index = q.index => r = q

InSlice ==
    /\ \A s \in Filed : ordered[s].index = s /\ collector[s] = "done"
    /\ received = Cardinality(Filed)

NothingLost ==
    \A s \in Sources : collector[s] = "done" =>
        s \in Filed \/ \E r \in results : r.index = s

Bookkeeping == InChannel /\ InSlice /\ NothingLost

(* A result says whether its source has an adapter, and a source without one
   contributes no signal.                                                   *)
Labelled ==
    /\ \A r \in results :
        /\ r.configured <=> r.index \in configured
        /\ r.configured \/ r.signals = <<>>
    /\ \A s \in Filed :
        /\ ordered[s].configured <=> s \in configured
        /\ ordered[s].configured \/ ordered[s].signals = <<>>

(* Only a source with an adapter is waited for, and an answer is there as
   soon as, and only when, the adapter call has returned.                   *)
AdapterFacts ==
    \A s \in Sources :
        /\ collector[s] = "start" => adapter[s] = "none"
        /\ collector[s] = "waiting" => s \in configured
        /\ buffered[s] => adapter[s] = "exited"
        /\ adapter[s] \in {"sending", "exited"} => answer[s] \in Answers
        /\ adapter[s] \in {"none", "running"} => answer[s] = NoAnswer

(* The inductive invariant.                                                 *)
IInv == TypeOK /\ Bookkeeping /\ Labelled /\ AdapterFacts

-----------------------------------------------------------------------------
(* Truncating a slice yields a slice within the budget.                     *)
LEMMA KeptLength ==
    ASSUME NEW labels \in Seq(Sources)
    PROVE  /\ Kept(labels) \in Seq(Sources)
           /\ Len(Kept(labels)) <= MaxSignals
           /\ Len(Kept(labels)) <= Len(labels)
           /\ labels # <<>> => Kept(labels) # <<>>
           /\ Len(labels) <= MaxSignals => Len(Kept(labels)) = Len(labels)
           /\ Len(labels) > MaxSignals => Len(Kept(labels)) = MaxSignals
<1>1. Len(labels) \in Nat /\ MaxSignals \in Nat \ {0}
  BY CorrelationAssumption
<1>2. CASE Len(labels) > MaxSignals
  <2>1. Kept(labels) = SubSeq(labels, 1, MaxSignals)
    BY <1>2 DEF Kept
  <2>2. /\ SubSeq(labels, 1, MaxSignals) \in Seq(Sources)
        /\ Len(SubSeq(labels, 1, MaxSignals)) = MaxSignals
    BY <1>1, <1>2
  <2>3. Kept(labels) # <<>>
    <3>1. Len(Kept(labels)) # 0
      BY <2>1, <2>2, <1>1
    <3>2. Len(<<>>) = 0
      OBVIOUS
    <3> QED
      BY <3>1, <3>2
  <2> QED
    BY <1>1, <1>2, <2>1, <2>2, <2>3
<1>3. CASE ~(Len(labels) > MaxSignals)
  <2>1. Kept(labels) = labels
    BY <1>3 DEF Kept
  <2> QED
    BY <1>1, <1>3, <2>1
<1> QED
  BY <1>2, <1>3

(* Relabelling keeps the length and yields signals of the called source.    *)
LEMMA NormalizedType ==
    ASSUME NEW s \in Sources, NEW labels \in Seq(Sources), NEW err \in ErrorKinds
    PROVE  /\ Normalized(s, labels, err) \in SignalSeqs
           /\ err = "disabled" => Normalized(s, labels, err) = <<>>
           /\ err # "disabled" =>
                Len(Normalized(s, labels, err)) = Len(Kept(labels))
<1> DEFINE n == Len(Kept(labels))
<1>1. Kept(labels) \in Seq(Sources) /\ n \in Nat /\ n <= MaxSignals
  BY KeptLength
<1>2. DOMAIN Kept(labels) = 1 .. n
  BY <1>1
<1>3. CASE err = "disabled"
  <2>1. Normalized(s, labels, err) = <<>>
    BY <1>3 DEF Normalized
  <2> QED
    BY <2>1, <1>3, CorrelationAssumption DEF SignalSeqs
<1>4. CASE err # "disabled"
  <2>1. Normalized(s, labels, err) = [i \in 1 .. n |-> s]
    BY <1>2, <1>4 DEF Normalized
  <2>2. [i \in 1 .. n |-> s] \in Seq(Sources) /\ Len([i \in 1 .. n |-> s]) = n
    BY <1>1
  <2> QED
    BY <2>1, <2>2, <1>1, <1>4 DEF SignalSeqs
<1> QED
  BY <1>3, <1>4

(* What a collector sends is a well-formed result of its own source.        *)
LEMMA SourceResultType ==
    ASSUME NEW s \in Sources, NEW labels \in Seq(Sources), NEW err \in ErrorKinds
    PROVE  /\ SourceResult(s, labels, err) \in Results
           /\ SourceResult(s, labels, err).index = s
           /\ SourceResult(s, labels, err).configured = TRUE
           /\ SourceResult(s, labels, err).state = StateOf(labels, err)
           /\ SourceResult(s, labels, err).signals = Normalized(s, labels, err)
<1>1. StateOf(labels, err) \in SourceStates
  BY DEF StateOf, SourceStates
<1>2. Normalized(s, labels, err) \in SignalSeqs
  BY NormalizedType
<1> QED
  BY <1>1, <1>2 DEF SourceResult, Results

LEMMA DisabledResultType ==
    ASSUME NEW s \in Sources
    PROVE  /\ DisabledResult(s) \in Results
           /\ DisabledResult(s).index = s
           /\ DisabledResult(s).configured = FALSE
           /\ DisabledResult(s).state = "disabled"
           /\ DisabledResult(s).signals = <<>>
<1>1. <<>> \in SignalSeqs
  BY CorrelationAssumption DEF SignalSeqs
<1> QED
  BY <1>1 DEF DisabledResult, Results, SourceStates

(* A result is never the zero value of the caller's slice.                  *)
LEMMA ResultIsNotZero ==
    ASSUME NEW r \in Results
    PROVE  r # NoResult /\ r.index \in Sources
<1>1. r.index \in Sources
  BY DEF Results
<1>2. NoResult.index \notin Sources
  BY CorrelationAssumption DEF NoResult, Sources
<1> QED
  BY <1>1, <1>2

(* An answer handed to a collector is one of Answers.                       *)
LEMMA AnswerType ==
    ASSUME NEW a \in Answers
    PROVE  a.labels \in Seq(Sources) /\ a.err \in ErrorKinds
  BY CorrelationAssumption

(* The caller has filed every slot once it has received SourceCount times.  *)
LEMMA AllFiled ==
    ASSUME received = Cardinality(Filed), received = SourceCount
    PROVE  Filed = Sources
<1>1. IsFiniteSet(Sources) /\ Cardinality(Sources) = SourceCount
  BY CorrelationAssumption, FS_Interval DEF Sources
<1>2. Filed \subseteq Sources
  BY DEF Filed
<1> QED
  BY <1>1, <1>2, FS_Subset

-----------------------------------------------------------------------------
(* The steps that leave the channel, the slice and the counter alone.       *)
LEMMA QuietStep ==
    ASSUME IInv,
           UNCHANGED <<configured, results, ordered, received>>,
           \A s \in Sources : (collector[s] = "done") <=> (collector'[s] = "done")
    PROVE  Bookkeeping' /\ Labelled'
<1>1. Filed' = Filed
  BY DEF Filed
<1>2. \A r \in results : r.index \in Sources
  BY ResultIsNotZero DEF IInv, TypeOK
<1>3. \A s \in Filed : s \in Sources
  BY DEF Filed
<1>4. InChannel'
  BY <1>1, <1>2 DEF IInv, Bookkeeping, InChannel
<1>5. InSlice'
  BY <1>1, <1>3 DEF IInv, Bookkeeping, InSlice
<1>6. NothingLost'
  BY <1>1 DEF IInv, Bookkeeping, NothingLost
<1>7. Labelled'
  BY <1>1, <1>3 DEF IInv, Labelled
<1> QED
  BY <1>4, <1>5, <1>6, <1>7 DEF Bookkeeping

(* A collector that sends its result and finishes.                          *)
LEMMA SettleStep ==
    ASSUME IInv, NEW s \in Sources, NEW res \in Results,
           res.index = s, res.configured <=> s \in configured,
           res.configured \/ res.signals = <<>>,
           collector[s] # "done",
           Settle(s, res),
           UNCHANGED <<configured, ordered, received>>
    PROVE  /\ Bookkeeping' /\ Labelled'
           /\ \A r \in results' : r \in Results
           /\ collector' \in [Sources -> CollectorStates]
<1>1. Filed' = Filed
  BY DEF Filed
<1>2. \A r \in results : r \in Results /\ r.index \in Sources
  BY ResultIsNotZero DEF IInv, TypeOK
<1>3. \A i \in Filed : i \in Sources
  BY DEF Filed
<1>4. results' = results \cup {res} /\ collector' = [collector EXCEPT ![s] = "done"]
  BY DEF Settle
<1>5. /\ collector \in [Sources -> CollectorStates]
      /\ collector'[s] = "done"
      /\ \A i \in Sources \ {s} : collector'[i] = collector[i]
  BY <1>4 DEF IInv, TypeOK
<1>6. s \notin Filed /\ \A r \in results : r.index # s
  BY <1>2 DEF IInv, Bookkeeping, InSlice, InChannel
<1>7. InChannel'
  BY <1>1, <1>2, <1>4, <1>5, <1>6 DEF IInv, Bookkeeping, InChannel
<1>8. InSlice'
  BY <1>1, <1>3, <1>5, <1>6 DEF IInv, Bookkeeping, InSlice
<1>9. NothingLost'
  BY <1>1, <1>4, <1>5 DEF IInv, Bookkeeping, NothingLost
<1>10. Labelled'
  BY <1>1, <1>3, <1>4 DEF IInv, Labelled
<1>11. collector' \in [Sources -> CollectorStates]
  BY <1>4, <1>5 DEF CollectorStates
<1> QED
  BY <1>2, <1>4, <1>7, <1>8, <1>9, <1>10, <1>11 DEF Bookkeeping

(* The caller moves one result from the channel into its slot.              *)
LEMMA ReceiveStep ==
    ASSUME IInv, ReceiveResult
    PROVE  IInv'
<1>1. PICK r \in results :
        /\ results' = results \ {r}
        /\ ordered' = [ordered EXCEPT ![r.index] = r]
  BY DEF ReceiveResult, Slot
<1> DEFINE i == r.index
<1>2. r \in Results /\ r # NoResult /\ i \in Sources
  BY ResultIsNotZero DEF IInv, TypeOK
<1>3. /\ received < SourceCount
      /\ received' = received + 1
      /\ UNCHANGED <<configured, parentDone, expired, collector, adapter,
                     answer, buffered, reply>>
  BY DEF ReceiveResult
<1>4. i \notin Filed /\ collector[i] = "done"
  BY DEF IInv, Bookkeeping, InChannel
<1>5. DOMAIN ordered = Sources
  BY DEF IInv, TypeOK
<1>6. /\ DOMAIN ordered' = Sources
      /\ ordered'[i] = r
      /\ \A s \in Sources \ {i} : ordered'[s] = ordered[s]
  BY <1>1, <1>2, <1>5
<1>7. Filed' = Filed \cup {i}
  BY <1>2, <1>6 DEF Filed
<1>8. Cardinality(Filed') = Cardinality(Filed) + 1
  <2>1. IsFiniteSet(Sources) /\ Filed \subseteq Sources
    BY CorrelationAssumption, FS_Interval DEF Sources, Filed
  <2>2. IsFiniteSet(Filed)
    BY <2>1, FS_Subset
  <2> QED
    BY <2>2, <1>4, <1>7, FS_AddElement
<1>9. \A q \in results' : q \in results /\ q # r
  BY <1>1
<1>10. InChannel'
  <2>1. \A q \in results' : q.index # i
    BY <1>9 DEF IInv, Bookkeeping, InChannel
  <2> QED
    BY <1>3, <1>7, <1>9, <2>1 DEF IInv, Bookkeeping, InChannel
<1>11. InSlice'
  <2>1. received' = Cardinality(Filed')
    BY <1>3, <1>8 DEF IInv, Bookkeeping, InSlice
  <2>2. \A s \in Filed : s \in Sources /\ s # i
    BY <1>4 DEF Filed
  <2> QED
    BY <1>3, <1>4, <1>6, <1>7, <2>1, <2>2 DEF IInv, Bookkeeping, InSlice
<1>12. NothingLost'
  BY <1>1, <1>3, <1>7 DEF IInv, Bookkeeping, NothingLost
<1>13. Labelled'
  <2>1. \A s \in Filed : s \in Sources /\ s # i
    BY <1>4 DEF Filed
  <2> QED
    BY <1>3, <1>6, <1>7, <1>9, <2>1 DEF IInv, Labelled
<1>14. TypeOK'
  <2>1. \A s \in Sources : ordered'[s] \in Results \cup {NoResult}
    BY <1>2, <1>6 DEF IInv, TypeOK
  <2>2. received' \in 0 .. SourceCount
    BY <1>3, CorrelationAssumption DEF IInv, TypeOK
  <2>3. \A q \in results' : q \in Results
    BY <1>9 DEF IInv, TypeOK
  <2> QED
    BY <1>3, <1>6, <2>1, <2>2, <2>3 DEF IInv, TypeOK
<1>15. AdapterFacts'
  BY <1>3 DEF IInv, AdapterFacts
<1> QED
  BY <1>10, <1>11, <1>12, <1>13, <1>14, <1>15 DEF IInv, Bookkeeping

(* The bundle is well typed because every slot was filled.                  *)
LEMMA ReplyStep ==
    ASSUME IInv, ReturnReply
    PROVE  IInv'
<1>1. Filed = Sources
  BY AllFiled DEF IInv, Bookkeeping, InSlice, ReturnReply
<1>2. \A s \in Sources : ordered[s] \in Results
  BY <1>1 DEF IInv, TypeOK, Filed
<1>3. \A s \in Sources :
        ordered[s].state \in SourceStates /\ ordered[s].signals \in SignalSeqs
  BY <1>2 DEF Results
<1>4. Assemble \in Bundles \cup {NoReply, UnavailableReply}
  <2>1. CASE NothingUsable
    BY <2>1 DEF Assemble
  <2>2. CASE ~NothingUsable
    <3>1. [s \in Sources |-> ordered[s].state] \in [Sources -> SourceStates]
      BY <1>3
    <3>2. [s \in Sources |-> ordered[s].signals] \in [Sources -> SignalSeqs]
      BY <1>3
    <3> QED
      BY <2>2, <3>1, <3>2 DEF Assemble, Bundles
  <2> QED
    BY <2>1, <2>2
<1>5. TypeOK'
  BY <1>4 DEF ReturnReply, IInv, TypeOK
<1>6. Bookkeeping' /\ Labelled'
  BY QuietStep DEF ReturnReply
<1>7. AdapterFacts'
  BY DEF ReturnReply, IInv, AdapterFacts
<1> QED
  BY <1>5, <1>6, <1>7 DEF IInv

-----------------------------------------------------------------------------
LEMMA InitIInv == Init => IInv
<1> SUFFICES ASSUME Init PROVE IInv
  OBVIOUS
<1>1. Filed = {}
  BY DEF Init, Filed
<1>2. Cardinality({}) = 0
  BY FS_EmptySet
<1>3. TypeOK
  BY CorrelationAssumption
     DEF Init, TypeOK, CollectorStates, AdapterStates
<1>4. Bookkeeping /\ Labelled
  BY <1>1, <1>2
     DEF Init, Bookkeeping, InChannel, InSlice, NothingLost, Labelled
<1>5. AdapterFacts
  BY DEF Init, AdapterFacts
<1> QED
  BY <1>3, <1>4, <1>5 DEF IInv

LEMMA NextIInv == IInv /\ [Next]_vars => IInv'
<1> SUFFICES ASSUME IInv, [Next]_vars PROVE IInv'
  OBVIOUS
<1> USE DEF IInv
<1>1. ASSUME NEW s \in Sources, CollectDisabled(s) PROVE IInv'
  <2>1. DisabledResult(s) \in Results /\ DisabledResult(s).index = s
        /\ DisabledResult(s).configured = FALSE
        /\ DisabledResult(s).signals = <<>>
    BY DisabledResultType
  <2>2. /\ s \notin configured
        /\ collector[s] # "done"
        /\ Settle(s, DisabledResult(s))
        /\ UNCHANGED <<configured, parentDone, expired, adapter, answer,
                       buffered, ordered, received, reply>>
    BY <1>1 DEF CollectDisabled
  <2>3. /\ Bookkeeping' /\ Labelled'
        /\ \A r \in results' : r \in Results
        /\ collector' \in [Sources -> CollectorStates]
    BY <2>1, <2>2, SettleStep
  <2>4. AdapterFacts'
    BY <2>2 DEF AdapterFacts, Settle, TypeOK
  <2> QED
    BY <2>2, <2>3, <2>4 DEF TypeOK
<1>2. ASSUME NEW s \in Sources, StartCall(s) PROVE IInv'
  <2>1. TypeOK'
    BY <1>2 DEF StartCall, TypeOK, CollectorStates, AdapterStates
  <2>2. \A i \in Sources : (collector[i] = "done") <=> (collector'[i] = "done")
    BY <1>2 DEF StartCall, TypeOK
  <2>3. Bookkeeping' /\ Labelled'
    BY <1>2, <2>2, QuietStep DEF StartCall
  <2>4. AdapterFacts'
    BY <1>2 DEF StartCall, AdapterFacts, TypeOK
  <2> QED
    BY <2>1, <2>3, <2>4
<1>3. ASSUME NEW s \in Sources, AdapterReturns(s) PROVE IInv'
  <2>1. TypeOK'
    BY <1>3 DEF AdapterReturns, TypeOK, AdapterStates
  <2>2. Bookkeeping' /\ Labelled'
    BY <1>3, QuietStep DEF AdapterReturns
  <2>3. AdapterFacts'
    BY <1>3 DEF AdapterReturns, AdapterFacts, TypeOK
  <2> QED
    BY <2>1, <2>2, <2>3
<1>4. ASSUME NEW s \in Sources, AdapterSends(s) PROVE IInv'
  <2>1. TypeOK'
    BY <1>4 DEF AdapterSends, TypeOK, AdapterStates
  <2>2. Bookkeeping' /\ Labelled'
    BY <1>4, QuietStep DEF AdapterSends
  <2>3. AdapterFacts'
    BY <1>4 DEF AdapterSends, AdapterFacts, TypeOK
  <2> QED
    BY <2>1, <2>2, <2>3
<1>5. ASSUME NEW s \in Sources, TakeAnswer(s) PROVE IInv'
  <2> DEFINE res == SourceResult(s, answer[s].labels, answer[s].err)
  <2>1. s \in configured /\ answer[s] \in Answers
    BY <1>5 DEF TakeAnswer, AdapterFacts
  <2>2. res \in Results /\ res.index = s /\ res.configured = TRUE
    BY <2>1, AnswerType, SourceResultType
  <2>3. /\ collector[s] # "done"
        /\ Settle(s, res)
        /\ buffered' = [buffered EXCEPT ![s] = FALSE]
        /\ UNCHANGED <<configured, parentDone, expired, adapter, answer,
                       ordered, received, reply>>
    BY <1>5 DEF TakeAnswer
  <2> HIDE DEF res
  <2>4. /\ Bookkeeping' /\ Labelled'
        /\ \A r \in results' : r \in Results
        /\ collector' \in [Sources -> CollectorStates]
    BY <2>1, <2>2, <2>3, SettleStep
  <2>5. AdapterFacts'
    BY <2>3 DEF AdapterFacts, Settle, TypeOK
  <2> QED
    BY <2>3, <2>4, <2>5 DEF TypeOK
<1>6. ASSUME NEW s \in Sources, TakeDeadline(s) PROVE IInv'
  <2> DEFINE res == SourceResult(s, <<>>, "failed")
  <2>1. s \in configured
    BY <1>6 DEF TakeDeadline, AdapterFacts
  <2>2. res \in Results /\ res.index = s /\ res.configured = TRUE
    <3>1. <<>> \in Seq(Sources) /\ "failed" \in ErrorKinds
      BY DEF ErrorKinds
    <3> QED
      BY <3>1, SourceResultType
  <2>3. /\ collector[s] # "done"
        /\ Settle(s, res)
        /\ UNCHANGED <<configured, parentDone, expired, adapter, answer,
                       buffered, ordered, received, reply>>
    BY <1>6 DEF TakeDeadline
  <2> HIDE DEF res
  <2>4. /\ Bookkeeping' /\ Labelled'
        /\ \A r \in results' : r \in Results
        /\ collector' \in [Sources -> CollectorStates]
    BY <2>1, <2>2, <2>3, SettleStep
  <2>5. AdapterFacts'
    BY <2>3 DEF AdapterFacts, Settle, TypeOK
  <2> QED
    BY <2>3, <2>4, <2>5 DEF TypeOK
<1>7. ASSUME NEW s \in Sources, Expire(s) PROVE IInv'
  <2>1. TypeOK' /\ AdapterFacts'
    BY <1>7 DEF Expire, TypeOK, AdapterFacts
  <2> QED
    BY <1>7, <2>1, QuietStep DEF Expire
<1>8. CASE CancelParent
  <2>1. TypeOK' /\ AdapterFacts'
    BY <1>8 DEF CancelParent, TypeOK, AdapterFacts
  <2> QED
    BY <1>8, <2>1, QuietStep DEF CancelParent
<1>9. CASE UNCHANGED vars
  <2>1. TypeOK' /\ AdapterFacts'
    BY <1>9 DEF vars, TypeOK, AdapterFacts
  <2> QED
    BY <1>9, <2>1, QuietStep DEF vars
<1> QED
  BY <1>1, <1>2, <1>3, <1>4, <1>5, <1>6, <1>7, <1>8, <1>9, ReceiveStep, ReplyStep
     DEF Next, AllExited

(* Type correctness, for every number of sources and every budget: no slice
   longer than the budget and no unset slot ever reaches the reply.         *)
THEOREM TypeCorrect == Spec => []TypeOK
<1>1. IInv => TypeOK
  BY DEF IInv
<1> QED
  BY <1>1, InitIInv, NextIInv, PTL DEF Spec, SafeSpec

LEMMA Inductive == SafeSpec => []IInv
  BY InitIInv, NextIInv, PTL DEF SafeSpec

-----------------------------------------------------------------------------
(* The results that exist, in the channel or in the caller's slice.         *)
Known == results \cup {ordered[i] : i \in Filed}

(* Every result tells the truth about its adapter.                          *)
AllTruthful == \A r \in Results : r \in Known => TruthfulResult(r)

(* What a collector makes of an answer it took is true of that answer.      *)
LEMMA AnswerTruth ==
    ASSUME NEW s \in Sources, NEW labels \in Seq(Sources), NEW err \in ErrorKinds,
           NEW r, r = SourceResult(s, labels, err)
    PROVE  /\ r.state = "available" =>
                err = "none" /\ Len(r.signals) = Len(labels)
           /\ r.state = "partial" =>
                /\ err \in {"none", "failed"}
                /\ r.signals # <<>>
                /\ err = "none" => Len(r.signals) < Len(labels)
           /\ r.state = "unavailable" =>
                r.signals = <<>> /\ err = "failed" /\ labels = <<>>
           /\ r.state = "disabled" => r.signals = <<>> /\ err = "disabled"
<1>1. labels \in Seq(Sources) /\ err \in ErrorKinds
  OBVIOUS
<1>2. r.state = StateOf(labels, err) /\ r.signals = Normalized(s, labels, err)
  BY SourceResultType
<1>3. Len(labels) \in Nat /\ MaxSignals \in Nat \ {0}
  BY <1>1, CorrelationAssumption
<1>4. /\ Len(Kept(labels)) <= Len(labels)
      /\ labels # <<>> => Kept(labels) # <<>>
      /\ Len(labels) <= MaxSignals => Len(Kept(labels)) = Len(labels)
      /\ Len(labels) > MaxSignals => Len(Kept(labels)) = MaxSignals
      /\ Kept(labels) \in Seq(Sources)
  BY <1>1, KeptLength
<1>5. /\ Normalized(s, labels, err) \in Seq(Sources)
      /\ err = "disabled" => Normalized(s, labels, err) = <<>>
      /\ err # "disabled" => Len(Normalized(s, labels, err)) = Len(Kept(labels))
  BY <1>1, NormalizedType DEF SignalSeqs
<1>6. Len(<<>>) = 0 /\ (labels = <<>> => Len(labels) = 0)
  OBVIOUS
<1>7. labels # <<>> => Len(Kept(labels)) # 0
  <2>1. Kept(labels) # <<>> => Len(Kept(labels)) # 0
    BY <1>4
  <2> QED
    BY <1>4, <2>1
<1>8. CASE err = "disabled"
  <2>1. r.state = "disabled" /\ r.signals = <<>>
    BY <1>2, <1>5, <1>8 DEF StateOf
  <2> QED
    BY <2>1, <1>8
<1>9. CASE err = "failed" /\ labels # <<>>
  <2>1. r.state = "partial"
    BY <1>2, <1>9 DEF StateOf
  <2>2. r.signals # <<>>
    BY <1>2, <1>5, <1>6, <1>7, <1>9
  <2> QED
    BY <2>1, <2>2, <1>9
<1>10. CASE err = "failed" /\ labels = <<>>
  <2>1. r.state = "unavailable"
    BY <1>2, <1>10 DEF StateOf
  <2>2. Len(r.signals) = 0 /\ r.signals \in Seq(Sources)
    BY <1>2, <1>3, <1>4, <1>5, <1>6, <1>10
  <2>3. r.signals = <<>>
    BY <2>2
  <2> QED
    BY <2>1, <2>3, <1>10
<1>11. CASE err = "none" /\ Len(labels) > MaxSignals
  <2>1. r.state = "partial"
    BY <1>2, <1>11 DEF StateOf
  <2>2. Len(r.signals) = MaxSignals
    BY <1>2, <1>4, <1>5, <1>11
  <2>3. r.signals # <<>> /\ Len(r.signals) < Len(labels)
    BY <2>2, <1>3, <1>6, <1>11
  <2> QED
    BY <2>1, <2>3, <1>11
<1>12. CASE err = "none" /\ ~(Len(labels) > MaxSignals)
  <2>1. r.state = "available"
    BY <1>2, <1>12 DEF StateOf
  <2>2. Len(r.signals) = Len(labels)
    BY <1>2, <1>3, <1>4, <1>5, <1>12
  <2> QED
    BY <2>1, <2>2, <1>12
<1> QED
  BY <1>1, <1>8, <1>9, <1>10, <1>11, <1>12 DEF ErrorKinds

(* A truthful result stays truthful: its answer changes only from none to
   some, and contexts only expire.                                          *)
LEMMA TruthStable ==
    ASSUME NEW r \in Results, TruthfulResult(r),
           UNCHANGED configured,
           \/ answer'[r.index] = answer[r.index]
           \/ answer[r.index] = NoAnswer,
           ContextDone(r.index) => ContextDone(r.index)'
    PROVE  TruthfulResult(r)'
<1>1. NoAnswer.err = "pending"
  BY DEF NoAnswer
<1>2. r.state \in SourceStates /\ r.index \in Sources
  BY DEF Results
<1> QED
  BY <1>1, <1>2 DEF TruthfulResult

(* The facts about a step under which the results it keeps stay truthful.   *)
HarmlessStep ==
    /\ UNCHANGED configured
    /\ \A i \in Sources : answer'[i] = answer[i] \/ answer[i] = NoAnswer
    /\ \A i \in Sources : ContextDone(i) => ContextDone(i)'

LEMMA NextHarmless == IInv /\ [Next]_vars => HarmlessStep
<1> SUFFICES ASSUME IInv, [Next]_vars PROVE HarmlessStep
  OBVIOUS
<1>1. UNCHANGED configured
  BY DEF Next, vars, CollectDisabled, StartCall, AdapterReturns, AdapterSends,
         TakeAnswer, TakeDeadline, Expire, CancelParent, ReceiveResult,
         ReturnReply, AllExited
<1>2. \A i \in Sources : answer'[i] = answer[i] \/ answer[i] = NoAnswer
  <2>1. ASSUME NEW s \in Sources, AdapterReturns(s)
        PROVE  \A i \in Sources : answer'[i] = answer[i] \/ answer[i] = NoAnswer
    BY <2>1 DEF AdapterReturns, IInv, TypeOK, AdapterFacts
  <2>2. CASE UNCHANGED answer
    BY <2>2
  <2> QED
    BY <2>1, <2>2
       DEF Next, vars, CollectDisabled, StartCall, AdapterSends, TakeAnswer,
           TakeDeadline, Expire, CancelParent, ReceiveResult, ReturnReply, AllExited
<1>3. \A i \in Sources : ContextDone(i) => ContextDone(i)'
  <2>1. ASSUME NEW s \in Sources, Expire(s)
        PROVE  \A i \in Sources : ContextDone(i) => ContextDone(i)'
    BY <2>1 DEF Expire, IInv, TypeOK, ContextDone
  <2>2. CASE CancelParent
    BY <2>2 DEF CancelParent, ContextDone
  <2>3. CASE UNCHANGED <<parentDone, expired>>
    BY <2>3 DEF ContextDone
  <2> QED
    BY <2>1, <2>2, <2>3
       DEF Next, vars, CollectDisabled, StartCall, AdapterReturns, AdapterSends,
           TakeAnswer, TakeDeadline, ReceiveResult, ReturnReply, AllExited
<1> QED
  BY <1>1, <1>2, <1>3 DEF HarmlessStep

LEMMA NextTruthful == IInv /\ AllTruthful /\ [Next]_vars => AllTruthful'
<1> SUFFICES ASSUME IInv, AllTruthful, [Next]_vars,
                    NEW r \in Results, r \in Known'
             PROVE  TruthfulResult(r)'
  BY DEF AllTruthful
<1>1. HarmlessStep
  BY NextHarmless
<1>2. r.index \in Sources
  BY ResultIsNotZero
<1>3. CASE r \in Known
  BY <1>1, <1>2, <1>3, TruthStable DEF AllTruthful, HarmlessStep
(* A result that is new was sent by this very step.                         *)
<1>4. ASSUME NEW s \in Sources, CollectDisabled(s), r \notin Known
      PROVE  TruthfulResult(r)'
  <2>1. r = DisabledResult(s)
    BY <1>4 DEF CollectDisabled, Settle, Known, Filed
  <2>2. r.state = "disabled" /\ r.signals = <<>> /\ r.index = s
    BY <2>1, DisabledResultType
  <2>3. s \notin configured'
    BY <1>4 DEF CollectDisabled
  <2> QED
    BY <2>2, <2>3 DEF TruthfulResult
<1>5. ASSUME NEW s \in Sources, TakeAnswer(s), r \notin Known
      PROVE  TruthfulResult(r)'
  <2>1. r = SourceResult(s, answer[s].labels, answer[s].err)
    BY <1>5 DEF TakeAnswer, Settle, Known, Filed
  <2>2. answer[s] \in Answers /\ answer' = answer
    BY <1>5 DEF TakeAnswer, IInv, AdapterFacts
  <2>3. answer[s].labels \in Seq(Sources) /\ answer[s].err \in ErrorKinds
    BY <2>2, AnswerType
  <2>4. r.index = s
    BY <2>1, <2>3, SourceResultType
  <2>5. /\ r.state = "available" =>
             answer[s].err = "none" /\ Len(r.signals) = Len(answer[s].labels)
        /\ r.state = "partial" =>
             /\ answer[s].err \in {"none", "failed"}
             /\ r.signals # <<>>
             /\ answer[s].err = "none" => Len(r.signals) < Len(answer[s].labels)
        /\ r.state = "unavailable" =>
             r.signals = <<>> /\ answer[s].err = "failed" /\ answer[s].labels = <<>>
        /\ r.state = "disabled" => r.signals = <<>> /\ answer[s].err = "disabled"
    BY <2>1, <2>3, AnswerTruth
  <2> QED
    BY <2>2, <2>4, <2>5 DEF TruthfulResult
<1>6. ASSUME NEW s \in Sources, TakeDeadline(s), r \notin Known
      PROVE  TruthfulResult(r)'
  <2>1. r = SourceResult(s, <<>>, "failed")
    BY <1>6 DEF TakeDeadline, Settle, Known, Filed
  <2>2. <<>> \in Seq(Sources) /\ "failed" \in ErrorKinds
    BY DEF ErrorKinds
  <2>3. r.index = s /\ r.state = StateOf(<<>>, "failed")
    BY <2>1, <2>2, SourceResultType
  <2>4. r.state = "unavailable"
    BY <2>3 DEF StateOf
  <2>5. r.signals = <<>>
    BY <2>1, <2>2, <2>4, AnswerTruth
  <2>6. ContextDone(s)'
    BY <1>1, <1>6 DEF TakeDeadline, HarmlessStep
  <2> QED
    BY <2>3, <2>4, <2>5, <2>6 DEF TruthfulResult
<1>7. ASSUME ReceiveResult PROVE r \in Known
  <2>1. PICK q \in results :
          /\ results' = results \ {q}
          /\ ordered' = [ordered EXCEPT ![q.index] = q]
    BY <1>7 DEF ReceiveResult, Slot
  <2>2. DOMAIN ordered = Sources
    BY DEF IInv, TypeOK
  <2>3. \A i \in Sources : ordered'[i] = q \/ ordered'[i] = ordered[i]
    BY <2>1, <2>2
  <2>4. q # NoResult
    BY ResultIsNotZero DEF IInv, TypeOK
  <2> QED
    BY <2>1, <2>3, <2>4 DEF Known, Filed
<1>8. CASE UNCHANGED <<results, ordered>>
  BY <1>3, <1>8 DEF Known, Filed
<1> QED
  BY <1>3, <1>4, <1>5, <1>6, <1>7, <1>8
     DEF Next, vars, StartCall, AdapterReturns, AdapterSends, Expire,
         CancelParent, ReturnReply, AllExited

(* The state a source is reported with is the truth about its adapter, in
   every interleaving of answers, deadlines and cancellation, for every
   number of sources and every set of answers.                              *)
THEOREM Truthful == Spec => []TruthfulSources
<1>1. Init => AllTruthful
  BY DEF Init, AllTruthful, Known, Filed
<1>2. IInv /\ AllTruthful => TruthfulSources
  <2> SUFFICES ASSUME IInv, AllTruthful, NEW s \in Sources, NEW r \in ResultsOf(s)
               PROVE  TruthfulResult(r)
    BY DEF TruthfulSources
  <2>1. r \in results \cup {ordered[i] : i \in Sources} /\ r.index = s
    BY DEF ResultsOf
  <2>2. NoResult.index \notin Sources
    BY CorrelationAssumption DEF NoResult, Sources
  <2>3. r \in Known /\ r \in Results
    BY <2>1, <2>2 DEF Known, Filed, IInv, TypeOK
  <2> QED
    BY <2>3 DEF AllTruthful
<1> QED
  BY <1>1, <1>2, InitIInv, NextIInv, NextTruthful, PTL DEF Spec, SafeSpec

-----------------------------------------------------------------------------
(* The refinement of the promise.                                           *)

(* A source has at most one result, it has one iff its collector is done,
   and that result is what its verdict is read from.                        *)
ResultFacts(s) ==
    /\ \A r \in ResultsOf(s) :
        /\ r \in Known /\ r \in Results /\ r.index = s
        /\ r.configured <=> s \in configured
        /\ ResultsOf(s) = {r}
        /\ Verdict(s) = [state |-> r.state, count |-> Len(r.signals)]
    /\ ResultsOf(s) = {} => Verdict(s) = [state |-> "pending", count |-> 0]
    /\ collector[s] = "done" <=> ResultsOf(s) # {}
    /\ s \in Filed => ordered[s] \in ResultsOf(s)

AllResultFacts == \A s \in Sources : ResultFacts(s)

LEMMA UniqueResult == IInv => AllResultFacts
<1> SUFFICES ASSUME IInv, NEW s \in Sources PROVE ResultFacts(s)
  BY DEF AllResultFacts
<1>1. NoResult.index \notin Sources
  BY CorrelationAssumption DEF NoResult, Sources
<1>2. \A i \in Filed : i \in Sources /\ ordered[i] \in Results /\ ordered[i].index = i
  BY DEF Filed, IInv, TypeOK, Bookkeeping, InSlice
<1>3. \A i \in Sources \ Filed : ordered[i] = NoResult
  BY DEF Filed
<1>4. ASSUME NEW r \in ResultsOf(s)
      PROVE  /\ r \in Known /\ r \in Results /\ r.index = s
             /\ r \in results \/ (s \in Filed /\ r = ordered[s])
  <2>1. r.index = s /\ (r \in results \/ \E i \in Sources : r = ordered[i])
    BY DEF ResultsOf
  <2>2. r \in results \/ (s \in Filed /\ r = ordered[s])
    BY <1>1, <1>2, <1>3, <2>1
  <2> QED
    BY <1>2, <2>1, <2>2 DEF Known, IInv, TypeOK
<1>5. ASSUME NEW r \in ResultsOf(s), NEW q \in ResultsOf(s) PROVE r = q
  BY <1>4 DEF IInv, Bookkeeping, InChannel
<1>6. ASSUME NEW r \in ResultsOf(s) PROVE ResultsOf(s) = {r}
  BY <1>5
<1>7. ASSUME NEW r \in ResultsOf(s)
      PROVE  Verdict(s) = [state |-> r.state, count |-> Len(r.signals)]
  <2>1. (CHOOSE q \in ResultsOf(s) : TRUE) = r
    BY <1>6
  <2> QED
    BY <2>1, <1>6 DEF Verdict
<1>8. ASSUME NEW r \in ResultsOf(s) PROVE r.configured <=> s \in configured
  BY <1>4 DEF IInv, Labelled
<1>9. s \in Filed => ordered[s] \in ResultsOf(s)
  BY <1>2 DEF ResultsOf
<1>10. collector[s] = "done" <=> ResultsOf(s) # {}
  <2>1. ASSUME NEW r \in results, r.index = s PROVE r \in ResultsOf(s)
    BY <2>1 DEF ResultsOf
  <2>2. collector[s] = "done" => ResultsOf(s) # {}
    BY <1>9, <2>1 DEF IInv, Bookkeeping, NothingLost
  <2>3. ASSUME NEW r \in ResultsOf(s) PROVE collector[s] = "done"
    BY <1>4 DEF IInv, Bookkeeping, InChannel, InSlice
  <2> QED
    BY <2>2, <2>3
<1>11. ResultsOf(s) = {} => Verdict(s) = [state |-> "pending", count |-> 0]
  BY DEF Verdict
<1> QED
  BY <1>4, <1>6, <1>7, <1>8, <1>9, <1>10, <1>11 DEF ResultFacts

LEMMA UniqueResultNext == IInv' => AllResultFacts'
  BY UniqueResult, PTL

(* A result of a source with an adapter is a verdict the promise allows, and
   so is the result of a source without one.                                *)
LEMMA ActiveVerdictLegal ==
    ASSUME NEW s \in Sources, NEW labels \in Seq(Sources), NEW err \in ErrorKinds,
           NEW r, r = SourceResult(s, labels, err)
    PROVE  [state |-> r.state, count |-> Len(r.signals)] \in Promise!ActiveVerdicts
<1>1. /\ r \in Results /\ r.state = StateOf(labels, err)
      /\ r.signals = Normalized(s, labels, err)
  BY SourceResultType
<1>2. r.state \in SourceStates /\ r.signals \in SignalSeqs
  BY <1>1 DEF Results
<1>3. Len(r.signals) \in 0 .. MaxSignals
  BY <1>2, CorrelationAssumption DEF SignalSeqs
<1>4. r.signals # <<>> => Len(r.signals) # 0
  BY <1>2 DEF SignalSeqs
<1>5. Len(<<>>) = 0
  OBVIOUS
<1>6. /\ r.state = "partial" => r.signals # <<>>
      /\ r.state \in {"disabled", "unavailable"} => r.signals = <<>>
  BY AnswerTruth
<1>7. /\ r.state = "partial" => Len(r.signals) \in 1 .. MaxSignals
      /\ r.state \in {"disabled", "unavailable"} => Len(r.signals) \in {0}
  BY <1>3, <1>4, <1>5, <1>6, CorrelationAssumption
<1> QED
  BY <1>2, <1>3, <1>7 DEF Promise!ActiveVerdicts, SourceStates

(* The verdicts as the promise sees them.                                   *)
Verdicts == [s \in Sources |-> Verdict(s)]

LEMMA VerdictPending ==
    IInv => \A s \in Sources :
        ResultsOf(s) = {} <=> Verdicts[s] = Promise!Pending
<1> SUFFICES ASSUME IInv, NEW s \in Sources
             PROVE  ResultsOf(s) = {} <=> Verdicts[s] = Promise!Pending
  OBVIOUS
<1>1. ResultFacts(s)
  BY UniqueResult DEF AllResultFacts
<1>2. Verdicts[s] = Verdict(s)
  BY DEF Verdicts
<1>3. ASSUME NEW r \in ResultsOf(s) PROVE Verdict(s).state # "pending"
  BY <1>1 DEF ResultFacts, Results, SourceStates
<1> QED
  BY <1>1, <1>2, <1>3 DEF ResultFacts, Promise!Pending

(* A step that leaves every source's results alone leaves every verdict.    *)
LEMMA SameVerdicts ==
    ASSUME \A s \in Sources : ResultsOf(s)' = ResultsOf(s)
    PROVE  Verdicts' = Verdicts
  BY DEF Verdicts, Verdict

(* A collector that sends its result settles its source in the promise.     *)
LEMMA SettleRefines ==
    ASSUME IInv, IInv', NEW s \in Sources, NEW res \in Results,
           res.index = s, collector[s] # "done", Settle(s, res),
           UNCHANGED <<configured, ordered, reply>>,
           [state |-> res.state, count |-> Len(res.signals)]
                \in Promise!LegalVerdicts(s)
    PROVE  Promise!Settle(s)
<1>1. results' = results \cup {res}
  BY DEF Settle
<1>2. ResultsOf(s) = {}
  BY UniqueResult DEF AllResultFacts, ResultFacts
<1>3. ResultsOf(s)' = ResultsOf(s) \cup {res}
  BY <1>1 DEF ResultsOf
<1>4. \A i \in Sources \ {s} : ResultsOf(i)' = ResultsOf(i)
  BY <1>1 DEF ResultsOf
<1>5. \A i \in Sources \ {s} : Verdict(i)' = Verdict(i)
  BY <1>4 DEF Verdict
<1>6. Verdict(s)' = [state |-> res.state, count |-> Len(res.signals)]
  <2>1. ResultsOf(s)' = {res}
    BY <1>2, <1>3
  <2>2. (CHOOSE q \in ResultsOf(s)' : TRUE) = res
    BY <2>1
  <2> QED
    BY <2>1, <2>2 DEF Verdict
<1>7. Verdicts' = [Verdicts EXCEPT ![s] =
                     [state |-> res.state, count |-> Len(res.signals)]]
  BY <1>5, <1>6 DEF Verdicts
<1>8. Verdicts[s] = Promise!Pending
  BY <1>2, VerdictPending
<1>9. ReplyShown' = ReplyShown
  BY DEF ReplyShown
<1> QED
  BY <1>7, <1>8, <1>9 DEF Promise!Settle, Verdicts

(* A receive keeps the results of every source.                             *)
LEMMA ReceiveKeeps ==
    ASSUME IInv, ReceiveResult
    PROVE  \A s \in Sources : ResultsOf(s)' = ResultsOf(s)
<1>1. PICK r \in results :
        /\ results' = results \ {r}
        /\ ordered' = [ordered EXCEPT ![r.index] = r]
  BY DEF ReceiveResult, Slot
<1>2. r \in Results /\ r.index \in Sources
  BY ResultIsNotZero DEF IInv, TypeOK
<1>3. /\ ordered'[r.index] = r
      /\ ordered[r.index] = NoResult
      /\ \A i \in Sources \ {r.index} : ordered'[i] = ordered[i]
  BY <1>1, <1>2 DEF IInv, TypeOK, Bookkeeping, InChannel, Filed
<1>4. NoResult.index \notin Sources
  BY CorrelationAssumption DEF NoResult, Sources
<1> SUFFICES ASSUME NEW s \in Sources PROVE ResultsOf(s)' = ResultsOf(s)
  OBVIOUS
<1>5. ResultsOf(s)' = {q \in results' \cup {ordered'[i] : i \in Sources} : q.index = s}
  BY DEF ResultsOf
<1>6. ASSUME NEW q, q.index = s
      PROVE  q \in results' \cup {ordered'[i] : i \in Sources}
               <=> q \in results \cup {ordered[i] : i \in Sources}
  BY <1>1, <1>2, <1>3, <1>4, <1>6
<1> QED
  BY <1>5, <1>6 DEF ResultsOf

(* A receive is invisible in the promise: the result only moves.            *)
LEMMA ReceiveRefines ==
    ASSUME IInv, ReceiveResult
    PROVE  UNCHANGED <<configured, Verdicts, ReplyShown>>
<1>1. Verdicts' = Verdicts
  BY ReceiveKeeps, SameVerdicts
<1> QED
  BY <1>1 DEF ReceiveResult, ReplyShown

(* The caller's answer is the one the promise prescribes: its test on
   counters and on the concatenated signals amounts to NoEvidence.          *)
LEMMA ReplyRefines ==
    ASSUME IInv, AllTruthful, ReturnReply
    PROVE  Promise!Reply
<1>1. Filed = Sources
  BY AllFiled DEF IInv, Bookkeeping, InSlice, ReturnReply
<1>2. ASSUME NEW s \in Sources
      PROVE  /\ ordered[s] \in Results /\ ordered[s] \in ResultsOf(s)
             /\ Verdict(s) = [state |-> ordered[s].state,
                              count |-> Len(ordered[s].signals)]
             /\ ordered[s].configured <=> s \in configured
             /\ ordered[s].configured \/ ordered[s].signals = <<>>
             /\ ordered[s].state = "unavailable" => ordered[s].signals = <<>>
  <2>1. ResultFacts(s)
    BY UniqueResult DEF AllResultFacts
  <2>2. ordered[s] \in ResultsOf(s) /\ ordered[s] \in Results /\ ordered[s] \in Known
    BY <1>1, <2>1 DEF ResultFacts
  <2>3. TruthfulResult(ordered[s])
    BY <2>2 DEF AllTruthful
  <2> QED
    BY <1>1, <2>1, <2>2, <2>3 DEF ResultFacts, IInv, Labelled, TruthfulResult
<1>3. ConfiguredResults = configured
  <2>1. configured \subseteq Sources
    BY DEF IInv, TypeOK
  <2> QED
    BY <1>2, <2>1 DEF ConfiguredResults
<1>4. \A s \in Sources : Verdicts[s] = Verdict(s)
  BY DEF Verdicts
<1>5. NothingUsable <=> Promise!NoEvidence
  <2>1. configured \subseteq Sources
    BY DEF IInv, TypeOK
  <2>2. \A s \in configured : Verdicts[s].state = ordered[s].state
    BY <1>2, <1>4, <2>1
  <2>3. (\A s \in configured : ordered[s].state = "unavailable") =>
          \A s \in Sources : ordered[s].signals = <<>>
    BY <1>2
  <2> QED
    BY <1>3, <2>1, <2>2, <2>3 DEF NothingUsable, Promise!NoEvidence, Verdicts
<1>6. Promise!AllSettled
  BY <1>2, <1>4, VerdictPending DEF Promise!AllSettled, Verdicts, Promise!Sources, Sources
<1>7. reply = NoReply /\ reply' = Assemble
  BY DEF ReturnReply
<1>8. ReplyShown = Promise!NoReply
  BY <1>7 DEF ReplyShown, NoReply, Promise!NoReply
<1>9. ReplyShown' = IF Promise!NoEvidence THEN Promise!Unavailable ELSE Promise!Bundle
  <2>1. CASE NothingUsable
    BY <1>5, <1>7, <2>1
       DEF Assemble, ReplyShown, UnavailableReply, Promise!Unavailable
  <2>2. CASE ~NothingUsable
    <3> DEFINE b == [kind |-> "bundle",
                     sources |-> [s \in Sources |-> ordered[s].state],
                     signals |-> [s \in Sources |-> ordered[s].signals]]
    <3>1. reply' = b
      BY <1>7, <2>2 DEF Assemble
    <3>2. ReplyShown' =
            [kind |-> "bundle",
             sources |-> [s \in Sources |-> ordered[s].state],
             counts |-> [s \in Sources |-> Len(ordered[s].signals)]]
      BY <3>1 DEF ReplyShown
    <3>3. [s \in Sources |-> ordered[s].state] = [s \in Sources |-> Verdicts[s].state]
      BY <1>2, <1>4
    <3>4. [s \in Sources |-> Len(ordered[s].signals)]
            = [s \in Sources |-> Verdicts[s].count]
      BY <1>2, <1>4
    <3> QED
      BY <1>5, <2>2, <3>2, <3>3, <3>4
         DEF Promise!Bundle, Verdicts, Promise!Sources, Sources
  <2> QED
    BY <2>1, <2>2
<1>10. Verdicts' = Verdicts
  <2>1. \A s \in Sources : ResultsOf(s)' = ResultsOf(s)
    BY DEF ReturnReply, ResultsOf
  <2> QED
    BY <2>1, SameVerdicts
<1> QED
  BY <1>6, <1>8, <1>9, <1>10 DEF Promise!Reply, Verdicts, ReturnReply

LEMMA NextRefines ==
    IInv /\ AllTruthful /\ IInv' /\ [Next]_vars => [Promise!Next]_(Promise!promiseVars)
<1> SUFFICES ASSUME IInv, AllTruthful, IInv', [Next]_vars
             PROVE  Promise!Next \/ UNCHANGED <<configured, Verdicts, ReplyShown>>
  BY DEF Promise!promiseVars, Verdicts
<1>1. ASSUME NEW s \in Sources, CollectDisabled(s) PROVE Promise!Settle(s)
  <2>1. /\ DisabledResult(s) \in Results /\ DisabledResult(s).index = s
        /\ DisabledResult(s).state = "disabled" /\ DisabledResult(s).signals = <<>>
    BY DisabledResultType
  <2>2. [state |-> DisabledResult(s).state, count |-> Len(DisabledResult(s).signals)]
          \in Promise!LegalVerdicts(s)
    BY <1>1, <2>1 DEF CollectDisabled, Promise!LegalVerdicts
  <2> QED
    BY <1>1, <2>1, <2>2, SettleRefines DEF CollectDisabled
<1>2. ASSUME NEW s \in Sources, TakeAnswer(s) PROVE Promise!Settle(s)
  <2> DEFINE res == SourceResult(s, answer[s].labels, answer[s].err)
  <2>1. s \in configured /\ answer[s] \in Answers
    BY <1>2 DEF TakeAnswer, IInv, AdapterFacts
  <2>2. answer[s].labels \in Seq(Sources) /\ answer[s].err \in ErrorKinds
    BY <2>1, AnswerType
  <2>3. res \in Results /\ res.index = s
    BY <2>2, SourceResultType
  <2>4. [state |-> res.state, count |-> Len(res.signals)] \in Promise!LegalVerdicts(s)
    BY <2>1, <2>2, ActiveVerdictLegal DEF Promise!LegalVerdicts
  <2>5. /\ Settle(s, res)
        /\ collector[s] # "done"
        /\ UNCHANGED <<configured, ordered, reply>>
    BY <1>2 DEF TakeAnswer
  <2> HIDE DEF res
  <2> QED
    BY <2>3, <2>4, <2>5, SettleRefines
<1>3. ASSUME NEW s \in Sources, TakeDeadline(s) PROVE Promise!Settle(s)
  <2> DEFINE res == SourceResult(s, <<>>, "failed")
  <2>1. s \in configured
    BY <1>3 DEF TakeDeadline, IInv, AdapterFacts
  <2>2. <<>> \in Seq(Sources) /\ "failed" \in ErrorKinds
    BY DEF ErrorKinds
  <2>3. res \in Results /\ res.index = s
    BY <2>2, SourceResultType
  <2>4. [state |-> res.state, count |-> Len(res.signals)] \in Promise!LegalVerdicts(s)
    BY <2>1, <2>2, ActiveVerdictLegal DEF Promise!LegalVerdicts
  <2>5. /\ Settle(s, res)
        /\ collector[s] # "done"
        /\ UNCHANGED <<configured, ordered, reply>>
    BY <1>3 DEF TakeDeadline
  <2> HIDE DEF res
  <2> QED
    BY <2>3, <2>4, <2>5, SettleRefines
<1>4. CASE UNCHANGED <<configured, results, ordered, reply>>
  <2>1. \A s \in Sources : ResultsOf(s)' = ResultsOf(s)
    BY <1>4 DEF ResultsOf
  <2>2. Verdicts' = Verdicts /\ ReplyShown' = ReplyShown
    BY <1>4, <2>1, SameVerdicts DEF ReplyShown
  <2> QED
    BY <1>4, <2>2
<1> QED
  BY <1>1, <1>2, <1>3, <1>4, ReceiveRefines, ReplyRefines
     DEF Next, vars, StartCall, AdapterReturns, AdapterSends, Expire, CancelParent,
         AllExited, Promise!Next, Promise!Sources, Sources

LEMMA InitRefines == Init => Promise!Init
<1> SUFFICES ASSUME Init PROVE Promise!Init
  OBVIOUS
<1>1. NoResult.index \notin Sources
  BY CorrelationAssumption DEF NoResult, Sources
<1>2. \A s \in Sources : ResultsOf(s) = {}
  BY <1>1 DEF Init, ResultsOf
<1>3. \A s \in Sources : Verdict(s) = [state |-> "pending", count |-> 0]
  BY <1>2 DEF Verdict
<1> QED
  BY <1>3 DEF Init, Promise!Init, Promise!Pending, Promise!Sources, Sources,
              ReplyShown, NoReply, Promise!NoReply

(* The safety part of the promise is implemented: each source settles once
   with a legal verdict and the reply is the one its verdicts call for.     *)
THEOREM RefinesPromise == Spec => Promise!SafeSpec
<1>1. Init => AllTruthful
  BY DEF Init, AllTruthful, Known, Filed
<1> QED
  BY <1>1, InitRefines, NextRefines, InitIInv, NextIInv, NextTruthful, PTL
     DEF Spec, SafeSpec, Promise!SafeSpec

-----------------------------------------------------------------------------
(* What a correlation hands to its caller.                                  *)

(* Every signal a result keeps carries the name of the called source, and a
   source with an adapter that is not unavailable has really answered.      *)
Relabelled(r) == \A k \in DOMAIN r.signals : r.signals[k] = r.index

Heard(r) ==
    (r.configured /\ r.state # "unavailable") =>
        /\ adapter[r.index] = "exited"
        /\ answer[r.index].err # "failed" \/ answer[r.index].labels # <<>>

AllSourced == \A r \in Known : Relabelled(r) /\ Heard(r)

(* The caller answers last, with what its slice says, and the slice is left
   alone from then on.                                                      *)
RepliedLast == reply # NoReply => received = SourceCount /\ reply = Assemble

(* The invariant behind the theorems on replies.                            *)
ReplyInv == IInv /\ AllTruthful /\ AllSourced /\ RepliedLast

-----------------------------------------------------------------------------
(* Whatever is in the channel or in a filled slot is a result.              *)
LEMMA KnownType == IInv => \A r \in Known : r \in Results /\ r.index \in Sources
  BY ResultIsNotZero DEF Known, Filed, IInv, TypeOK

(* A receive moves a result and makes none.                                 *)
LEMMA ReceiveMakesNone ==
    ASSUME IInv, ReceiveResult
    PROVE  Known' \subseteq Known
<1>1. PICK q \in results :
        /\ results' = results \ {q}
        /\ ordered' = [ordered EXCEPT ![q.index] = q]
  BY DEF ReceiveResult, Slot
<1>2. DOMAIN ordered = Sources
  BY DEF IInv, TypeOK
<1>3. \A i \in Sources : ordered'[i] = q \/ ordered'[i] = ordered[i]
  BY <1>1, <1>2
<1>4. q # NoResult
  BY ResultIsNotZero DEF IInv, TypeOK
<1> QED
  BY <1>1, <1>3, <1>4 DEF Known, Filed

(* A result that was not there before was sent by a collector in this step. *)
LEMMA NewResult ==
    ASSUME IInv, [Next]_vars, NEW r \in Known', r \notin Known
    PROVE  \E s \in Sources :
             \/ CollectDisabled(s) /\ r = DisabledResult(s)
             \/ TakeAnswer(s) /\ r = SourceResult(s, answer[s].labels, answer[s].err)
             \/ TakeDeadline(s) /\ r = SourceResult(s, <<>>, "failed")
<1>1. ASSUME NEW s \in Sources, CollectDisabled(s) PROVE r = DisabledResult(s)
  BY <1>1 DEF CollectDisabled, Settle, Known, Filed
<1>2. ASSUME NEW s \in Sources, TakeAnswer(s)
      PROVE  r = SourceResult(s, answer[s].labels, answer[s].err)
  BY <1>2 DEF TakeAnswer, Settle, Known, Filed
<1>3. ASSUME NEW s \in Sources, TakeDeadline(s) PROVE r = SourceResult(s, <<>>, "failed")
  BY <1>3 DEF TakeDeadline, Settle, Known, Filed
<1>4. ~ReceiveResult
  BY ReceiveMakesNone
<1>5. ~UNCHANGED <<results, ordered>>
  BY DEF Known, Filed
<1> QED
  BY <1>1, <1>2, <1>3, <1>4, <1>5
     DEF Next, vars, StartCall, AdapterReturns, AdapterSends, Expire,
         CancelParent, ReturnReply, AllExited

(* Relabelling writes the called source on every signal.                    *)
LEMMA SourceResultRelabelled ==
    ASSUME NEW s \in Sources, NEW labels \in Seq(Sources), NEW err \in ErrorKinds
    PROVE  Relabelled(SourceResult(s, labels, err))
<1>1. /\ SourceResult(s, labels, err).index = s
      /\ SourceResult(s, labels, err).signals = Normalized(s, labels, err)
  BY SourceResultType
<1>2. \A k \in DOMAIN Normalized(s, labels, err) : Normalized(s, labels, err)[k] = s
  BY DEF Normalized
<1> QED
  BY <1>1, <1>2 DEF Relabelled

(* An adapter that has answered stays so, and its answer stays.             *)
LEMMA HeardStable ==
    ASSUME IInv, [Next]_vars, NEW r \in Results, Heard(r)
    PROVE  Heard(r)'
<1>1. r.index \in Sources
  BY ResultIsNotZero
<1>2. ASSUME NEW i \in Sources, adapter[i] = "exited"
      PROVE  adapter'[i] = "exited" /\ answer'[i] = answer[i]
  <2>1. ASSUME NEW s \in Sources, StartCall(s)
        PROVE  adapter'[i] = "exited" /\ answer'[i] = answer[i]
    BY <1>2, <2>1 DEF StartCall, IInv, TypeOK, AdapterFacts
  <2>2. ASSUME NEW s \in Sources, AdapterReturns(s)
        PROVE  adapter'[i] = "exited" /\ answer'[i] = answer[i]
    BY <1>2, <2>2 DEF AdapterReturns, IInv, TypeOK
  <2>3. ASSUME NEW s \in Sources, AdapterSends(s)
        PROVE  adapter'[i] = "exited" /\ answer'[i] = answer[i]
    BY <1>2, <2>3 DEF AdapterSends, IInv, TypeOK
  <2>4. CASE UNCHANGED <<adapter, answer>>
    BY <1>2, <2>4
  <2> QED
    BY <2>1, <2>2, <2>3, <2>4
       DEF Next, vars, CollectDisabled, TakeAnswer, TakeDeadline, Expire,
           CancelParent, ReceiveResult, ReturnReply, AllExited
<1> QED
  BY <1>1, <1>2 DEF Heard

LEMMA NextSourced == IInv /\ AllSourced /\ [Next]_vars => AllSourced'
<1> SUFFICES ASSUME IInv, AllSourced, [Next]_vars, NEW r \in Known'
             PROVE  Relabelled(r) /\ Heard(r)'
  BY DEF AllSourced, Relabelled
<1>1. CASE r \in Known
  BY <1>1, KnownType, HeardStable DEF AllSourced
<1>2. ASSUME NEW s \in Sources, CollectDisabled(s), r = DisabledResult(s)
      PROVE  Relabelled(r) /\ Heard(r)'
  <2>1. r.signals = <<>> /\ r.configured = FALSE
    BY <1>2, DisabledResultType
  <2> QED
    BY <2>1 DEF Relabelled, Heard
<1>3. ASSUME NEW s \in Sources, TakeAnswer(s),
             r = SourceResult(s, answer[s].labels, answer[s].err)
      PROVE  Relabelled(r) /\ Heard(r)'
  <2>1. /\ answer[s] \in Answers /\ adapter[s] = "exited"
        /\ UNCHANGED <<adapter, answer>>
    BY <1>3 DEF TakeAnswer, IInv, AdapterFacts
  <2>2. answer[s].labels \in Seq(Sources) /\ answer[s].err \in ErrorKinds
    BY <2>1, AnswerType
  <2>3. Relabelled(r)
    BY <1>3, <2>2, SourceResultRelabelled
  <2>4. r.index = s /\ r.state = StateOf(answer[s].labels, answer[s].err)
    <3> DEFINE sent == SourceResult(s, answer[s].labels, answer[s].err)
    <3>1. sent.index = s /\ sent.state = StateOf(answer[s].labels, answer[s].err)
      BY <2>2, SourceResultType
    <3> QED
      BY <1>3, <3>1
  <2>5. r.state # "unavailable" => answer[s].err # "failed" \/ answer[s].labels # <<>>
    BY <2>4 DEF StateOf
  <2> QED
    BY <2>1, <2>3, <2>4, <2>5 DEF Heard
<1>4. ASSUME NEW s \in Sources, TakeDeadline(s), r = SourceResult(s, <<>>, "failed")
      PROVE  Relabelled(r) /\ Heard(r)'
  <2>1. <<>> \in Seq(Sources) /\ "failed" \in ErrorKinds
    BY DEF ErrorKinds
  <2>2. r.state = StateOf(<<>>, "failed")
    BY <1>4, <2>1, SourceResultType
  <2>3. r.state = "unavailable"
    BY <2>2 DEF StateOf
  <2> QED
    BY <1>4, <2>1, <2>3, SourceResultRelabelled DEF Heard
<1> QED
  BY <1>1, <1>2, <1>3, <1>4, NewResult

LEMMA NextRepliedLast == IInv /\ RepliedLast /\ [Next]_vars => RepliedLast'
<1> SUFFICES ASSUME IInv, RepliedLast, [Next]_vars, reply' # NoReply
             PROVE  received' = SourceCount /\ reply' = Assemble'
  BY DEF RepliedLast
<1>1. CASE ReturnReply
  BY <1>1 DEF ReturnReply, Assemble, NothingUsable, ConfiguredResults
<1>2. CASE UNCHANGED <<ordered, received, reply>>
  BY <1>2 DEF RepliedLast, Assemble, NothingUsable, ConfiguredResults
<1>3. ASSUME ReceiveResult PROVE FALSE
  <2>1. reply' = reply /\ received < SourceCount
    BY <1>3 DEF ReceiveResult
  <2> QED
    BY <2>1, CorrelationAssumption DEF RepliedLast
<1> QED
  BY <1>1, <1>2, <1>3
     DEF Next, vars, CollectDisabled, StartCall, AdapterReturns, AdapterSends,
         TakeAnswer, TakeDeadline, Expire, CancelParent, AllExited

LEMMA ReplyInductive == SafeSpec => []ReplyInv
<1>1. Init => AllTruthful /\ AllSourced /\ RepliedLast
  BY DEF Init, AllTruthful, AllSourced, RepliedLast, Known, Filed
<1> QED
  BY <1>1, InitIInv, NextIInv, NextTruthful, NextSourced, NextRepliedLast, PTL
     DEF SafeSpec, ReplyInv

-----------------------------------------------------------------------------
(* A collector's send leaves the results of the other sources alone, and its
   own source had none.                                                     *)
LEMMA SettleKeeps ==
    ASSUME IInv, NEW s \in Sources, NEW res, res.index = s,
           collector[s] # "done", Settle(s, res), UNCHANGED ordered
    PROVE  \A i \in Sources : ResultsOf(i) # {} => ResultsOf(i)' = ResultsOf(i)
<1>1. results' = results \cup {res}
  BY DEF Settle
<1>2. ResultsOf(s) = {}
  BY UniqueResult DEF AllResultFacts, ResultFacts
<1>3. \A i \in Sources \ {s} : ResultsOf(i)' = ResultsOf(i)
  BY <1>1 DEF ResultsOf
<1> QED
  BY <1>2, <1>3

(* What one step may do to the results and to the reply.                    *)
FinalStep ==
    /\ \A s \in Sources : ResultsOf(s) # {} => ResultsOf(s)' = ResultsOf(s)
    /\ reply # NoReply => reply' = reply

LEMMA NextFinal == IInv /\ [Next]_vars => FinalStep
<1> SUFFICES ASSUME IInv, [Next]_vars PROVE FinalStep
  OBVIOUS
<1>1. ASSUME NEW s \in Sources, CollectDisabled(s) PROVE FinalStep
  <2>1. DisabledResult(s).index = s
    BY DisabledResultType
  <2> QED
    BY <1>1, <2>1, SettleKeeps DEF CollectDisabled, FinalStep
<1>2. ASSUME NEW s \in Sources, TakeAnswer(s) PROVE FinalStep
  <2> DEFINE res == SourceResult(s, answer[s].labels, answer[s].err)
  <2>1. res.index = s
    BY DEF SourceResult
  <2>2. Settle(s, res) /\ collector[s] # "done" /\ UNCHANGED <<ordered, reply>>
    BY <1>2 DEF TakeAnswer
  <2> HIDE DEF res
  <2> QED
    BY <2>1, <2>2, SettleKeeps DEF FinalStep
<1>3. ASSUME NEW s \in Sources, TakeDeadline(s) PROVE FinalStep
  <2> DEFINE res == SourceResult(s, <<>>, "failed")
  <2>1. res.index = s
    BY DEF SourceResult
  <2>2. Settle(s, res) /\ collector[s] # "done" /\ UNCHANGED <<ordered, reply>>
    BY <1>3 DEF TakeDeadline
  <2> HIDE DEF res
  <2> QED
    BY <2>1, <2>2, SettleKeeps DEF FinalStep
<1>4. CASE ReceiveResult
  BY <1>4, ReceiveKeeps DEF ReceiveResult, FinalStep
<1>5. CASE UNCHANGED <<results, ordered>> /\ (reply # NoReply => reply' = reply)
  BY <1>5 DEF ResultsOf, FinalStep
<1> QED
  BY <1>1, <1>2, <1>3, <1>4, <1>5
     DEF Next, vars, StartCall, AdapterReturns, AdapterSends, Expire,
         CancelParent, ReturnReply, AllExited

(* A source settles once and the reply is given once: no late answer and no
   further deadline ever revises either (collectSource and Correlate).      *)
THEOREM SettledForGood == Spec => SettledIsFinal
<1>1. SafeSpec => [][FinalStep]_vars
  BY Inductive, NextFinal, PTL DEF SafeSpec
<1> QED
  BY <1>1, PTL DEF Spec, SettledIsFinal, FinalStep

-----------------------------------------------------------------------------
(* When the caller has answered, every slot is filled and the channel empty. *)
LEMMA AnsweredFacts ==
    ASSUME ReplyInv, reply # NoReply
    PROVE  /\ Filed = Sources /\ results = {}
           /\ \A s \in Sources :
                /\ collector[s] = "done"
                /\ ordered[s] \in Known /\ ordered[s] \in Results
                /\ ordered[s].index = s
                /\ ordered[s].configured <=> s \in configured
<1> USE DEF ReplyInv
<1>1. Filed = Sources
  BY AllFiled DEF RepliedLast, IInv, Bookkeeping, InSlice
<1>2. \A r \in results : r.index \in Sources /\ r.index \notin Filed
  BY ResultIsNotZero DEF IInv, TypeOK, Bookkeeping, InChannel
<1>3. results = {}
  BY <1>1, <1>2
<1>4. \A s \in Sources : ordered[s] \in Known /\ ordered[s] \in Results
  BY <1>1, KnownType DEF Known
<1> QED
  BY <1>1, <1>3, <1>4 DEF IInv, Bookkeeping, InSlice, Labelled

(* Every source has exactly one result once its collector is done and none
   before, and a caller that has answered leaves no collector running and no
   result unread (the channel of results and the slice of Correlate).       *)
THEOREM OneResult == Spec => []OneResultEach
<1>1. ReplyInv => OneResultEach
  <2> SUFFICES ASSUME ReplyInv PROVE OneResultEach
    OBVIOUS
  <2>1. ASSUME NEW s \in Sources
        PROVE  Cardinality(ResultsOf(s)) = IF collector[s] = "done" THEN 1 ELSE 0
    <3>1. ResultFacts(s)
      BY UniqueResult DEF ReplyInv, AllResultFacts
    <3>2. CASE collector[s] = "done"
      <4>1. PICK r : ResultsOf(s) = {r}
        BY <3>1, <3>2 DEF ResultFacts
      <4> QED
        BY <3>2, <4>1, FS_Singleton
    <3>3. CASE collector[s] # "done"
      <4>1. ResultsOf(s) = {}
        BY <3>1, <3>3 DEF ResultFacts
      <4> QED
        BY <3>3, <4>1, FS_EmptySet
    <3> QED
      BY <3>2, <3>3
  <2> QED
    BY <2>1, AnsweredFacts DEF OneResultEach
<1> QED
  BY <1>1, ReplyInductive, PTL DEF Spec

-----------------------------------------------------------------------------
(* A reply is what the slice says, and each slot is truthful, relabelled and
   heard from.                                                              *)
LEMMA AnsweredTruth ==
    ASSUME ReplyInv, reply # NoReply
    PROVE  /\ reply = Assemble /\ ConfiguredResults = configured
           /\ \A s \in Sources :
                /\ TruthfulResult(ordered[s]) /\ Heard(ordered[s])
                /\ Relabelled(ordered[s])
                /\ s \notin configured => ordered[s].signals = <<>>
<1>1. \A s \in Sources : ordered[s].configured <=> s \in configured
  BY AnsweredFacts
<1>2. configured \subseteq Sources
  BY DEF ReplyInv, IInv, TypeOK
<1>3. ConfiguredResults = configured
  BY <1>1, <1>2 DEF ConfiguredResults
<1>4. ASSUME NEW s \in Sources
      PROVE  /\ TruthfulResult(ordered[s]) /\ Heard(ordered[s]) /\ Relabelled(ordered[s])
             /\ s \notin configured => ordered[s].signals = <<>>
  <2>1. ordered[s] \in Known /\ ordered[s] \in Results /\ s \in Filed
    BY AnsweredFacts
  <2> QED
    BY <1>1, <2>1 DEF ReplyInv, AllTruthful, AllSourced, IInv, Labelled
<1> QED
  BY <1>3, <1>4 DEF ReplyInv, RepliedLast

(* The kinds of an assembled reply.                                         *)
LEMMA AssembleKinds ==
    /\ Assemble.kind = "bundle" => ~NothingUsable
    /\ Assemble.kind = "unavailable" => NothingUsable
    /\ Assemble.kind = "bundle" =>
         \A s \in Sources : /\ Assemble.sources[s] = ordered[s].state
                            /\ Assemble.signals[s] = ordered[s].signals
<1>1. CASE NothingUsable
  <2>1. Assemble.kind = "unavailable"
    BY <1>1 DEF Assemble, UnavailableReply
  <2> QED
    BY <1>1, <2>1
<1>2. CASE ~NothingUsable
  <2>1. Assemble = [kind |-> "bundle",
                    sources |-> [s \in Sources |-> ordered[s].state],
                    signals |-> [s \in Sources |-> ordered[s].signals]]
    BY <1>2 DEF Assemble
  <2> QED
    BY <1>2, <2>1
<1> QED
  BY <1>1, <1>2

(* A failure never becomes an empty success: with any source configured, a
   bundle means that an adapter really answered, and ErrUnavailable that no
   answer was usable in time (the last test of Correlate).                  *)
THEOREM NoEmptySuccess == Spec => []NoFakeEmptySuccess
<1>1. ReplyInv => NoFakeEmptySuccess
  <2> SUFFICES ASSUME ReplyInv PROVE NoFakeEmptySuccess
    OBVIOUS
  <2>1. NoReply.kind = "none"
    BY DEF NoReply
  <2>2. configured \subseteq Sources
    BY DEF ReplyInv, IInv, TypeOK
  <2>3. ASSUME reply.kind = "bundle", configured # {}
        PROVE  \E s \in configured :
                 /\ reply.sources[s] # "unavailable"
                 /\ adapter[s] = "exited"
                 /\ answer[s].err # "failed" \/ answer[s].labels # <<>>
    <3>1. reply = Assemble /\ ConfiguredResults = configured
      BY <2>1, <2>3, AnsweredTruth
    <3>2. ~NothingUsable /\ \A s \in Sources : reply.sources[s] = ordered[s].state
      BY <2>3, <3>1, AssembleKinds
    <3>3. PICK s \in Sources :
            \/ s \in configured /\ ordered[s].state # "unavailable"
            \/ ordered[s].signals # <<>>
      BY <2>2, <2>3, <3>1, <3>2 DEF NothingUsable
    <3>4. /\ TruthfulResult(ordered[s]) /\ Heard(ordered[s])
          /\ s \notin configured => ordered[s].signals = <<>>
          /\ ordered[s].index = s
          /\ ordered[s].configured <=> s \in configured
      BY <2>1, <2>3, AnsweredTruth, AnsweredFacts
    <3>5. s \in configured /\ ordered[s].state # "unavailable"
      BY <3>3, <3>4 DEF TruthfulResult
    <3> QED
      BY <3>2, <3>4, <3>5 DEF Heard
  <2>4. ASSUME reply.kind = "unavailable"
        PROVE  /\ configured # {}
               /\ \A s \in configured :
                    ContextDone(s) \/ (answer[s].err = "failed" /\ answer[s].labels = <<>>)
    <3>1. reply = Assemble /\ ConfiguredResults = configured
      BY <2>1, <2>4, AnsweredTruth
    <3>2. NothingUsable
      BY <2>4, <3>1, AssembleKinds
    <3>3. \A s \in configured :
            /\ ordered[s].state = "unavailable"
            /\ TruthfulResult(ordered[s]) /\ ordered[s].index = s
      BY <2>1, <2>2, <2>4, <3>1, <3>2, AnsweredTruth, AnsweredFacts DEF NothingUsable
    <3> QED
      BY <3>1, <3>2, <3>3 DEF NothingUsable, TruthfulResult
  <2> QED
    BY <2>3, <2>4 DEF NoFakeEmptySuccess
<1> QED
  BY <1>1, ReplyInductive, PTL DEF Spec

(* The service never assembles a bundle that the structural checks of the
   response sanitizer refuse (SanitizeCorrelationBundle), whatever labels,
   lengths and errors its adapters return.                                  *)
THEOREM AcceptedBySanitizer == Spec => []BundlePassesSanitizer
<1>1. ReplyInv => BundlePassesSanitizer
  <2> SUFFICES ASSUME ReplyInv, reply.kind = "bundle" PROVE SanitizerAccepts(reply)
    BY DEF BundlePassesSanitizer
  <2>1. reply # NoReply /\ reply \in Bundles
    BY DEF NoReply, UnavailableReply, ReplyInv, IInv, TypeOK
  <2>2. \A s \in Sources : /\ reply.sources[s] = ordered[s].state
                           /\ reply.signals[s] = ordered[s].signals
    BY <2>1, AnsweredTruth, AssembleKinds
  <2>3. \A s \in Sources :
          /\ TruthfulResult(ordered[s]) /\ Relabelled(ordered[s])
          /\ ordered[s].index = s /\ ordered[s] \in Results
    BY <2>1, AnsweredTruth, AnsweredFacts
  <2>4. /\ DOMAIN reply.sources = Sources
        /\ \A s \in Sources : reply.sources[s] \in SourceStates
    BY <2>1 DEF Bundles
  <2>5. \A s \in Sources : \A k \in DOMAIN reply.signals[s] : reply.signals[s][k] = s
    BY <2>2, <2>3 DEF Relabelled
  <2>6. \A s \in Sources : \A k \in DOMAIN reply.signals[s] :
          reply.sources[s] \notin {"disabled", "unavailable"}
    BY <2>2, <2>3 DEF TruthfulResult
  <2>7. ASSUME NEW s \in Sources PROVE CountLabel(reply, s) <= MaxSignals
    <3> DEFINE carriers == {p \in Sources \X (1 .. MaxSignals + 1) :
                             p[2] \in DOMAIN reply.signals[p[1]]
                               /\ reply.signals[p[1]][p[2]] = s}
    <3>1. \A i \in Sources : DOMAIN reply.signals[i] \subseteq 1 .. MaxSignals
      BY <2>1, CorrelationAssumption DEF Bundles, SignalSeqs
    <3>2. carriers \subseteq {s} \X (1 .. MaxSignals)
      BY <2>5, <3>1
    <3>3. IsFiniteSet({s}) /\ Cardinality({s}) = 1
      BY FS_Singleton
    <3>4. IsFiniteSet(1 .. MaxSignals) /\ Cardinality(1 .. MaxSignals) = MaxSignals
      BY FS_Interval, CorrelationAssumption
    <3> DEFINE places == 1 .. MaxSignals
               pairs == {s} \X places
    <3>5. /\ IsFiniteSet(pairs)
          /\ Cardinality(pairs) = Cardinality({s}) * Cardinality(places)
      <4>1. IsFiniteSet({s}) /\ IsFiniteSet(places)
        BY <3>3, <3>4
      <4> DEFINE single == {s}
      <4> HIDE DEF places, single
      <4>2. IsFiniteSet(single) /\ IsFiniteSet(places)
        BY <4>1 DEF single
      <4>3. /\ IsFiniteSet(single \X places)
            /\ Cardinality(single \X places) = Cardinality(single) * Cardinality(places)
        BY <4>2, FS_Product, Zenon
      <4> QED
        BY <4>3 DEF single
    <3>6. /\ Cardinality(carriers) <= Cardinality(pairs)
          /\ Cardinality(carriers) \in Nat
      <4>1. carriers \subseteq pairs
        BY <3>2
      <4> HIDE DEF carriers, pairs
      <4>2. IsFiniteSet(carriers) /\ Cardinality(carriers) <= Cardinality(pairs)
        BY <4>1, <3>5, FS_Subset, Zenon
      <4> QED
        BY <4>2, FS_CardinalityType
    <3>7. Cardinality(pairs) = MaxSignals
      <4>1. 1 * MaxSignals = MaxSignals
        BY CorrelationAssumption
      <4> QED
        BY <3>3, <3>4, <3>5, <4>1
    <3> QED
      BY <3>6, <3>7 DEF CountLabel
  <2> QED
    BY <2>4, <2>5, <2>6, <2>7 DEF SanitizerAccepts
<1> QED
  BY <1>1, ReplyInductive, PTL DEF Spec
=============================================================================
