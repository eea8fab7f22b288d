------------------------- MODULE CorrelationPromise -------------------------
(***************************************************************************)
(* What one correlation request promises its caller, without goroutines,   *)
(* channels or timers: every evidence source settles exactly once with a   *)
(* state that fits the number of signals it contributes, and the reply is  *)
(* built from those settled verdicts and from nothing else.  Translated    *)
(* from the result type and the assembly loop of                           *)
(* internal/correlation/service.go; Correlation.tla implements it.         *)
(***************************************************************************)
EXTENDS Naturals

CONSTANTS SourceCount,   \* correlation.SourceCount
          MaxSignals     \* Service.maxSignals, the budget of one source

VARIABLES configured,    \* the sources that have an adapter
          verdict,       \* [Sources -> Verdict \cup {Pending}]
          reply          \* nothing yet, ErrUnavailable, or the bundle

promiseVars == <<configured, verdict, reply>>

Sources == 1 .. SourceCount

Pending == [state |-> "pending", count |-> 0]

(* The verdicts a source that has an adapter may settle with.               *)
ActiveVerdicts ==
    [state : {"available"}, count : 0 .. MaxSignals]
    \cup [state : {"partial"}, count : 1 .. MaxSignals]
    \cup [state : {"disabled", "unavailable"}, count : {0}]

LegalVerdicts(s) ==
    IF s \in configured THEN ActiveVerdicts
    ELSE {[state |-> "disabled", count |-> 0]}

AllSettled == \A s \in Sources : verdict[s] # Pending

(* "If every configured source is unavailable and no safe evidence can be
   produced": the one situation in which the caller gets no bundle.         *)
NoEvidence ==
    /\ configured # {}
    /\ \A s \in configured : verdict[s].state = "unavailable"

NoReply == [kind |-> "none", sources |-> <<>>, counts |-> <<>>]
Unavailable == [kind |-> "unavailable", sources |-> <<>>, counts |-> <<>>]
Bundle == [kind |-> "bundle",
           sources |-> [s \in Sources |-> verdict[s].state],
           counts |-> [s \in Sources |-> verdict[s].count]]

Init ==
    /\ configured \in SUBSET Sources
    /\ verdict = [s \in Sources |-> Pending]
    /\ reply = NoReply

Settle(s) ==
    /\ verdict[s] = Pending
    /\ \E v \in LegalVerdicts(s) : verdict' = [verdict EXCEPT ![s] = v]
    /\ UNCHANGED <<configured, reply>>

Reply ==
    /\ reply = NoReply
    /\ AllSettled
    /\ reply' = IF NoEvidence THEN Unavailable ELSE Bundle
    /\ UNCHANGED <<configured, verdict>>

Next == Reply \/ \E s \in Sources : Settle(s)

(* The part of the promise that is about safety.                            *)
SafeSpec == Init /\ [][Next]_promiseVars

(* The whole promise: each source settles and the caller is answered.       *)
Spec ==
    /\ SafeSpec
    /\ \A s \in Sources : WF_promiseVars(Settle(s))
    /\ WF_promiseVars(Reply)
=============================================================================
