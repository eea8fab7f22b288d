----------------------------- MODULE Correlation -----------------------------
(***************************************************************************)
(* One call of Service.Correlate (internal/correlation/service.go): a      *)
(* collector goroutine per evidence source, an adapter goroutine under     *)
(* each collector that has an adapter, one deadline per source, the        *)
(* client's own cancellation, and a caller that assembles the bundle from  *)
(* a shared results channel.                                               *)
(*                                                                         *)
(* Sources are the indices of the `calls` slice.  A signal is abstracted   *)
(* to the source it is labelled with: the rest of it is payload.  The      *)
(* concatenation of the per-source signal slices is kept as the function   *)
(* from index to slice it is built from.                                   *)
(***************************************************************************)
EXTENDS Naturals, Sequences, FiniteSets

CONSTANTS SourceCount,   \* len(calls), correlation.SourceCount
          MaxSignals,    \* Service.maxSignals
          Answers        \* what an adapter may return: labels and an error kind

Sources == 1 .. SourceCount

(* No error, errors.Is(err, ErrSourceDisabled), or any other error.         *)
ErrorKinds == {"none", "disabled", "failed"}

ASSUME CorrelationAssumption ==
    /\ SourceCount \in Nat \ {0}
    /\ MaxSignals \in Nat \ {0}
    /\ Answers \subseteq [labels : Seq(Sources), err : ErrorKinds]
    /\ Answers # {}

VARIABLES
    configured,   \* sources whose adapter is not nil
    parentDone,   \* the request context is cancelled
    expired,      \* [Sources -> BOOLEAN], the per-source timer has fired
    collector,    \* [Sources -> CollectorStates]
    adapter,      \* [Sources -> AdapterStates]
    answer,       \* what the adapter returned (NoAnswer before it did)
    buffered,     \* [Sources -> BOOLEAN], callResults holds the answer
    results,      \* the results channel
    ordered,      \* the caller's slice, filled by index
    received,     \* how many receives the caller has done
    reply         \* what Correlate returned

vars == <<configured, parentDone, expired, collector, adapter, answer,
          buffered, results, ordered, received, reply>>

CollectorStates == {"start", "waiting", "done"}
AdapterStates == {"none", "running", "sending", "exited"}
SourceStates == {"available", "partial", "disabled", "unavailable"}

NoAnswer == [labels |-> <<>>, err |-> "pending"]

(* The zero value of sourceResult, which ordered holds before it is filled. *)
NoResult == [index |-> 0, configured |-> FALSE, state |-> "", signals |-> <<>>]

NoReply == [kind |-> "none", sources |-> <<>>, signals |-> <<>>]
UnavailableReply == [kind |-> "unavailable", sources |-> <<>>, signals |-> <<>>]

-----------------------------------------------------------------------------
(* The classification of a source's outcome.                                *)

(* Fault: the budget is advertised but the slice is never cut.              *)
KeptAll(labels) == labels

Kept(labels) ==
    IF Len(labels) > MaxSignals THEN SubSeq(labels, 1, MaxSignals) ELSE labels

(* Fault: signals that came with an error are reported as complete.         *)
StateIgnoringErrors(labels, err) ==
    CASE err = "disabled" -> "disabled"
      [] err = "failed" /\ labels = <<>> -> "unavailable"
      [] Len(labels) > MaxSignals -> "partial"
      [] OTHER -> "available"

StateOf(labels, err) ==
    CASE err = "disabled" -> "disabled"
      [] err = "failed" /\ labels # <<>> -> "partial"
      [] err = "failed" /\ labels = <<>> -> "unavailable"
      [] err = "none" /\ Len(labels) > MaxSignals -> "partial"
      [] OTHER -> "available"

(* Fault: the signals that came with ErrSourceDisabled are not dropped.      *)
NormalizedEvenDisabled(s, labels, err) == [i \in DOMAIN Kept(labels) |-> s]

(* Every kept signal is relabelled with the source that was called.         *)
Normalized(s, labels, err) ==
    IF err = "disabled" THEN <<>> ELSE [i \in DOMAIN Kept(labels) |-> s]

SourceResult(s, labels, err) ==
    [index |-> s, configured |-> TRUE, state |-> StateOf(labels, err),
     signals |-> Normalized(s, labels, err)]

DisabledResult(s) ==
    [index |-> s, configured |-> FALSE, state |-> "disabled", signals |-> <<>>]

(* The context a collector hands to its adapter: the parent's, with a timer. *)
ContextDone(s) == parentDone \/ expired[s]

-----------------------------------------------------------------------------
(* Correlate has started its collectors; none of them has run yet.  The
   client may already have gone.                                            *)
Init ==
    /\ configured \in SUBSET Sources
    /\ parentDone \in BOOLEAN
    /\ expired = [s \in Sources |-> FALSE]
    /\ collector = [s \in Sources |-> "start"]
    /\ adapter = [s \in Sources |-> "none"]
    /\ answer = [s \in Sources |-> NoAnswer]
    /\ buffered = [s \in Sources |-> FALSE]
    /\ results = {}
    /\ ordered = [s \in Sources |-> NoResult]
    /\ received = 0
    /\ reply = NoReply

(* Fault: the early return of a collector without adapter is missing.       *)
SettleWithoutReturn(s, result) ==
    /\ Cardinality(results) < SourceCount
    /\ results' = results \cup {result}
    /\ collector' = collector

(* The collector's last step: its result goes to the buffered channel, and
   the deferred cancel ends the context of an adapter still at work.        *)
Settle(s, result) ==
    /\ Cardinality(results) < SourceCount
    /\ results' = results \cup {result}
    /\ collector' = [collector EXCEPT ![s] = "done"]

CollectDisabled(s) ==
    /\ collector[s] = "start"
    /\ s \notin configured
    /\ Settle(s, DisabledResult(s))
    /\ UNCHANGED <<configured, parentDone, expired, adapter, answer, buffered,
                   ordered, received, reply>>

StartCall(s) ==
    /\ collector[s] = "start"
    /\ s \in configured
    /\ collector' = [collector EXCEPT ![s] = "waiting"]
    /\ adapter' = [adapter EXCEPT ![s] = "running"]
    /\ UNCHANGED <<configured, parentDone, expired, answer, buffered, results,
                   ordered, received, reply>>

(* The adapter call returns, whenever it likes, possibly never: a late or
   uncooperative adapter is one that returns after the collector settled.   *)
AdapterReturns(s) ==
    /\ adapter[s] = "running"
    /\ \E a \in Answers : answer' = [answer EXCEPT ![s] = a]
    /\ adapter' = [adapter EXCEPT ![s] = "sending"]
    /\ UNCHANGED <<configured, parentDone, expired, collector, buffered,
                   results, ordered, received, reply>>

(* Fault: callResults without its buffer, so that an adapter can hand over
   its answer only while the collector waits for it.                        *)
CanSendUnbuffered(s) == ~buffered[s] /\ collector[s] = "waiting"

(* callResults has room for one answer whether or not anybody will read it. *)
CanSend(s) == ~buffered[s]

(* Fault: the adapter goroutine writes its result into the caller's slice.   *)
AdapterSendsShared(s) ==
    /\ adapter[s] = "sending"
    /\ CanSend(s)
    /\ buffered' = [buffered EXCEPT ![s] = TRUE]
    /\ adapter' = [adapter EXCEPT ![s] = "exited"]
    /\ ordered' = [ordered EXCEPT ![s] =
                      SourceResult(s, answer[s].labels, answer[s].err)]
    /\ UNCHANGED <<configured, parentDone, expired, collector, answer, results,
                   received, reply>>

AdapterSends(s) ==
    /\ adapter[s] = "sending"
    /\ CanSend(s)
    /\ buffered' = [buffered EXCEPT ![s] = TRUE]
    /\ adapter' = [adapter EXCEPT ![s] = "exited"]
    /\ UNCHANGED <<configured, parentDone, expired, collector, answer, results,
                   ordered, received, reply>>

(* The two branches of the collector's select; when both are ready either
   may be taken.                                                            *)
TakeAnswer(s) ==
    /\ collector[s] = "waiting"
    /\ buffered[s]
    /\ buffered' = [buffered EXCEPT ![s] = FALSE]
    /\ Settle(s, SourceResult(s, answer[s].labels, answer[s].err))
    /\ UNCHANGED <<configured, parentDone, expired, adapter, answer, ordered,
                   received, reply>>

(* Fault: the collector trusts the adapter to honour the deadline.           *)
TakeDeadlineNever(s) ==
    /\ collector[s] = "waiting"
    /\ ContextDone(s) /\ FALSE
    /\ UNCHANGED vars

TakeDeadline(s) ==
    /\ collector[s] = "waiting"
    /\ ContextDone(s)
    /\ Settle(s, SourceResult(s, <<>>, "failed"))
    /\ UNCHANGED <<configured, parentDone, expired, adapter, answer, buffered,
                   ordered, received, reply>>

(* The per-source timer, stopped by the deferred cancel.                    *)
Expire(s) ==
    /\ collector[s] = "waiting"
    /\ ~expired[s]
    /\ expired' = [expired EXCEPT ![s] = TRUE]
    /\ UNCHANGED <<configured, parentDone, collector, adapter, answer, buffered,
                   results, ordered, received, reply>>

(* The client disconnects.                                                  *)
CancelParent ==
    /\ ~parentDone
    /\ reply = NoReply
    /\ parentDone' = TRUE
    /\ UNCHANGED <<configured, expired, collector, adapter, answer, buffered,
                   results, ordered, received, reply>>

(* Fault: results are filed in the order they arrive.                        *)
ArrivalSlot(result) == received + 1

(* Where the caller files a received result.                                *)
Slot(result) == result.index

ReceiveResult ==
    /\ received < SourceCount
    /\ \E r \in results :
        /\ results' = results \ {r}
        /\ ordered' = [ordered EXCEPT ![Slot(r)] = r]
    /\ received' = received + 1
    /\ UNCHANGED <<configured, parentDone, expired, collector, adapter, answer,
                   buffered, reply>>

ConfiguredResults == {s \in Sources : ordered[s].configured}

(* Fault: unavailable sources are compared with all sources.                *)
NothingUsableAnywhere ==
    /\ ConfiguredResults # {}
    /\ \A s \in Sources : ordered[s].state = "unavailable"
    /\ \A s \in Sources : ordered[s].signals = <<>>

NothingUsable ==
    /\ ConfiguredResults # {}
    /\ \A s \in ConfiguredResults : ordered[s].state = "unavailable"
    /\ \A s \in Sources : ordered[s].signals = <<>>

Assemble ==
    IF NothingUsable THEN UnavailableReply
    ELSE [kind |-> "bundle",
          sources |-> [s \in Sources |-> ordered[s].state],
          signals |-> [s \in Sources |-> ordered[s].signals]]

ReturnReply ==
    /\ received = SourceCount
    /\ reply = NoReply
    /\ reply' = Assemble
    /\ UNCHANGED <<configured, parentDone, expired, collector, adapter, answer,
                   buffered, results, ordered, received>>

(* The request is answered and every goroutine it started is gone.          *)
AllExited ==
    /\ reply # NoReply
    /\ \A s \in Sources : adapter[s] \in {"none", "exited"}
    /\ UNCHANGED vars

Next ==
    \/ \E s \in Sources :
        \/ CollectDisabled(s) \/ StartCall(s)
        \/ AdapterReturns(s) \/ AdapterSends(s)
        \/ TakeAnswer(s) \/ TakeDeadline(s) \/ Expire(s)
    \/ CancelParent
    \/ ReceiveResult
    \/ ReturnReply
    \/ AllExited

(* The Go scheduler runs every runnable goroutine and timers fire.  Nothing
   is assumed of the adapters and nothing of the client.                    *)
Fairness ==
    /\ \A s \in Sources :
        /\ WF_vars(CollectDisabled(s))
        /\ WF_vars(StartCall(s))
        /\ WF_vars(AdapterSends(s))
        /\ WF_vars(TakeAnswer(s) \/ TakeDeadline(s))
        /\ WF_vars(Expire(s))
    /\ WF_vars(ReceiveResult)
    /\ WF_vars(ReturnReply)

SafeSpec == Init /\ [][Next]_vars
Spec == SafeSpec /\ Fairness

-----------------------------------------------------------------------------
SignalSeqs == {q \in Seq(Sources) : Len(q) <= MaxSignals}

Results == [index : Sources, configured : BOOLEAN, state : SourceStates,
            signals : SignalSeqs]

Bundles == [kind : {"bundle"}, sources : [Sources -> SourceStates],
            signals : [Sources -> SignalSeqs]]

(* Every variable keeps its type.  The content is in the signal slices: none
   longer than the budget ever leaves a collector (truncation in
   collectSource).                                                          *)
TypeOK ==
    /\ configured \in SUBSET Sources
    /\ parentDone \in BOOLEAN
    /\ expired \in [Sources -> BOOLEAN]
    /\ collector \in [Sources -> CollectorStates]
    /\ adapter \in [Sources -> AdapterStates]
    /\ answer \in [Sources -> Answers \cup {NoAnswer}]
    /\ buffered \in [Sources -> BOOLEAN]
    /\ \A r \in results : r \in Results
    /\ \A s \in Sources : ordered[s] \in Results \cup {NoResult}
    /\ DOMAIN ordered = Sources
    /\ received \in 0 .. SourceCount
    /\ reply \in Bundles \cup {NoReply, UnavailableReply}

(* The result source s has settled with, whether it is still in the channel
   or already filed.                                                        *)
ResultsOf(s) == {r \in results \cup {ordered[i] : i \in Sources} : r.index = s}

(* What the state reported for a source says about the adapter behind it.    *)
TruthfulResult(r) ==
    LET a == answer[r.index] IN
    /\ r.state = "available" =>
        /\ a.err = "none"
        /\ Len(r.signals) = Len(a.labels)
    /\ r.state = "partial" =>
        /\ a.err \in {"none", "failed"}
        /\ r.signals # <<>>
        /\ a.err = "none" => Len(r.signals) < Len(a.labels)
    /\ r.state = "unavailable" =>
        /\ r.signals = <<>>
        /\ ContextDone(r.index) \/ (a.err = "failed" /\ a.labels = <<>>)
    /\ r.state = "disabled" =>
        /\ r.signals = <<>>
        /\ r.index \notin configured \/ a.err = "disabled"

(* Whatever the interleaving of answers, deadlines and cancellation, the
   state a source is reported with is the truth about its adapter: available
   only after an error-free complete answer, partial only when signals were
   kept and others lost, unavailable only when nothing usable came in time
   (collectSource, internal/correlation/service.go).                        *)
TruthfulSources ==
    \A s \in Sources : \A r \in ResultsOf(s) : TruthfulResult(r)

(* Nothing is lost or doubled between the collectors and the caller: a
   collector that is done has exactly one result, a caller that has answered
   left no collector running and no result unread.                          *)
OneResultEach ==
    /\ \A s \in Sources :
        Cardinality(ResultsOf(s)) = IF collector[s] = "done" THEN 1 ELSE 0
    /\ reply # NoReply =>
        /\ \A s \in Sources : collector[s] = "done"
        /\ results = {}

(* A source failure never becomes an empty success: the caller gets an empty
   bundle only when some source that was asked really answered, or none is
   configured, and gets ErrUnavailable only when no adapter's answer was
   usable in time (the partial failure model; Correlate's final test).      *)
NoFakeEmptySuccess ==
    /\ (reply.kind = "bundle" /\ configured # {}) =>
        \E s \in configured :
            /\ reply.sources[s] # "unavailable"
            /\ adapter[s] = "exited"
            /\ answer[s].err # "failed" \/ answer[s].labels # <<>>
    /\ reply.kind = "unavailable" =>
        /\ configured # {}
        /\ \A s \in configured :
            ContextDone(s) \/ (answer[s].err = "failed" /\ answer[s].labels = <<>>)

(* The structural checks of typedSanitizer.CorrelationBundle
   (internal/sanitizer/correlation.go), read on the per-source slices.      *)
CountLabel(bundle, s) ==
    Cardinality({p \in Sources \X (1 .. MaxSignals + 1) :
        p[2] \in DOMAIN bundle.signals[p[1]] /\ bundle.signals[p[1]][p[2]] = s})

SanitizerAccepts(bundle) ==
    /\ DOMAIN bundle.sources = Sources
    /\ \A s \in Sources : bundle.sources[s] \in SourceStates
    /\ \A i \in Sources : \A k \in DOMAIN bundle.signals[i] :
        bundle.sources[bundle.signals[i][k]] \notin {"disabled", "unavailable"}
    /\ \A s \in Sources : CountLabel(bundle, s) <= MaxSignals

(* Whatever labels and errors the adapters return, the service assembles a
   bundle that passes the structural checks of the sanitizer behind it: an
   adapter that overruns its budget, mislabels its signals or disables
   itself while handing some over cannot make the whole reply fail.         *)
BundlePassesSanitizer ==
    reply.kind = "bundle" => SanitizerAccepts(reply)

(* A source settles once: no late answer and no further deadline changes the
   result after the collector sent it, and the reply is never revised.      *)
SettledIsFinal ==
    [][/\ \A s \in Sources : ResultsOf(s) # {} => ResultsOf(s)' = ResultsOf(s)
       /\ reply # NoReply => reply' = reply]_vars

(* The caller is answered although adapters may hang for ever: the service's
   own deadline bounds every source (comment above callResults).            *)
ReplyEventually == <>(reply # NoReply)

(* An adapter call that ends, even long after the reply, leaves no goroutine
   behind: its send never blocks (callResults has capacity one).            *)
AdaptersDrain ==
    \A s \in Sources : adapter[s] = "sending" ~> adapter[s] = "exited"

-----------------------------------------------------------------------------
(* The refinement mapping onto CorrelationPromise.                          *)
Verdict(s) ==
    IF ResultsOf(s) = {} THEN [state |-> "pending", count |-> 0]
    ELSE LET r == CHOOSE r \in ResultsOf(s) : TRUE
         IN  [state |-> r.state, count |-> Len(r.signals)]

ReplyShown ==
    [kind |-> reply.kind, sources |-> reply.sources,
     counts |-> IF reply.kind = "bundle"
                THEN [s \in Sources |-> Len(reply.signals[s])] ELSE <<>>]

Promise == INSTANCE CorrelationPromise WITH
    verdict <- [s \in Sources |-> Verdict(s)],
    reply <- ReplyShown

(* The goroutines, channels and deadlines implement the promise, its
   liveness included.                                                       *)
ImplementsPromise == Promise!Spec
=============================================================================
