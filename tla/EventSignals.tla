---------------------------- MODULE EventSignals ----------------------------
(***************************************************************************)
(* The correlation the API server ships with: Kubernetes events are its    *)
(* only source (cmd/api/main.go).  The window is computed from the finding *)
(* (Correlate), the events are fetched, clamped to the window, sorted and  *)
(* cut (Client.Events), and the bundle has to pass the sanitizer, which    *)
(* refuses it as a whole.  The events change all the time.                 *)
(*                                                                         *)
(* Time is counted in half seconds, because the three parts disagree about *)
(* fractions: the window is configured in nanoseconds, RFC 3339 texts are  *)
(* cut to seconds, and only some event times have fractions.  An event is  *)
(* its name and its times.  The race of the source with its deadline and   *)
(* the other sources are in Correlation; here the source answers in time.  *)
(***************************************************************************)
EXTENDS Integers, FiniteSets, Sequences, SequencesExt

CONSTANTS Names,         \* names of events, numbers for their order
          Windows,       \* windows NewService may be given, half seconds
          MaxWindow,     \* correlation.MaxWindow
          MaxSignals,    \* the budget MaxSignalsPerSource
          CandidateCap,  \* maxEventCandidateCount
          Skew,          \* how far a recorder's clock may be behind
          MaxClock,      \* bound on time
          None

ASSUME EventAssumption ==
    /\ Names \subseteq Nat /\ IsFiniteSet(Names)
    /\ Windows \subseteq 1 .. MaxWindow
    /\ MaxWindow \in Nat /\ MaxWindow % 2 = 0
    /\ MaxSignals \in Nat \ {0} /\ CandidateCap \in Nat
    /\ Skew \in Nat /\ MaxClock \in Nat
    /\ None \notin Int

VARIABLES
    clock,      \* true time
    events,     \* the events about the finding's target, as stored
    window,     \* Service.window
    query,      \* window and budget of the running call, None before it
    fetched,    \* what the list returned, None before it
    stored,     \* all the events there were when it was made
    reply       \* the HTTP answer, None before it

eventVars == <<clock, events, window, query, fetched, stored, reply>>

(* Format(time.RFC3339) drops the fraction.                                 *)
Second(t) == t - (t % 2)

Times == Second(-Skew) .. MaxClock

Events == [name : Names, first : Times \cup {None}, event : Times \cup {None},
           last : Times \cup {None}, observed : Times \cup {None}]

EventInit ==
    /\ clock = 0
    /\ events = {}
    /\ window \in Windows
    /\ query = None /\ fetched = None /\ stored = {} /\ reply = None

-----------------------------------------------------------------------------
(* The cluster.  A recorder writes either core/v1 times, in whole seconds,
   or an event time and, from the first repetition on, a series.  Another
   replica with another clock may go on with it.                            *)
RecorderTimes == clock - Skew .. clock

Store(es) ==
    /\ events' = es
    /\ UNCHANGED <<clock, window, query, fetched, stored, reply>>

Emit ==
    \E n \in Names, t \in RecorderTimes, core \in BOOLEAN :
        /\ \A e \in events : e.name # n
        /\ Store(events \cup
             {IF core
              THEN [name |-> n, first |-> Second(t), event |-> None,
                    last |-> Second(t), observed |-> None]
              ELSE [name |-> n, first |-> None, event |-> t,
                    last |-> None, observed |-> None]})

Repeat ==
    \E e \in events, t \in RecorderTimes :
        Store((events \ {e}) \cup
              {IF e.event = None THEN [e EXCEPT !.last = Second(t)]
                                 ELSE [e EXCEPT !.observed = t]})

Expires == \E e \in events : Store(events \ {e})

Tick ==
    /\ clock < MaxClock
    /\ clock' = clock + 1
    /\ UNCHANGED <<events, window, query, fetched, stored, reply>>

-----------------------------------------------------------------------------
(* The query: the window ends when the finding was created, in whole
   seconds, or now if that cannot be read.                                  *)
Anchors == {t \in 0 .. clock : t = Second(t)} \cup {clock}

Query(end, target) ==
    [start |-> Second(end - window), end |-> Second(end),
     seconds |-> window \div 2, target |-> target]

(* eventListRequest calls nothing when the target has no kind or no name,
   and refuses one that cannot be a field selector or is not local.         *)
Targets == {"named", "unnamed", "refused"}

Ask ==
    /\ query = None
    /\ \E end \in Anchors, target \in Targets : query' = Query(end, target)
    /\ UNCHANGED <<clock, events, window, fetched, stored, reply>>

CandidateLimit ==
    LET four == IF 4 * MaxSignals > CandidateCap THEN CandidateCap ELSE 4 * MaxSignals IN
    IF four < MaxSignals THEN MaxSignals ELSE four

(* Fault: the list has no limit.                                            *)
FetchedAll(es) == es

(* A list with a limit returns the first objects in the order of their
   names; its continue token is not followed.                               *)
Fetched(es) == {e \in es : Cardinality({f \in es : f.name < e.name}) < CandidateLimit}

List ==
    /\ query # None /\ fetched = None /\ reply = None
    /\ query.target # "refused"
    /\ stored' = IF query.target = "named" THEN events ELSE {}
    /\ fetched' = Fetched(stored')
    /\ UNCHANGED <<clock, events, window, query, reply>>

(* The only configured source fails: correlation.ErrUnavailable.            *)
ListFails ==
    /\ query # None /\ fetched = None /\ reply = None
    /\ query.target # "unnamed"
    /\ reply' = [status |-> 503, state |-> "unavailable", signals |-> <<>>]
    /\ UNCHANGED <<clock, events, window, query, fetched, stored>>

-----------------------------------------------------------------------------
FirstTime(e) == IF e.first # None THEN e.first ELSE e.event
LastTime(e) ==
    CASE e.observed # None -> e.observed
      [] e.observed = None /\ e.last # None -> e.last
      [] OTHER -> e.event

Overlaps(e, q) == LastTime(e) >= q.start /\ FirstTime(e) <= q.end

(* Fault: only the end that is past the window is clamped.                  *)
SignalHalfClamped(e, q) ==
    [id |-> e.name, first |-> Second(FirstTime(e)),
     last |-> IF LastTime(e) > q.end THEN q.end ELSE Second(LastTime(e))]

Signal(e, q) ==
    [id |-> e.name,
     first |-> IF FirstTime(e) < q.start THEN q.start ELSE Second(FirstTime(e)),
     last |-> IF LastTime(e) > q.end THEN q.end ELSE Second(LastTime(e))]

Newer(a, b) == a.last > b.last \/ (a.last = b.last /\ a.id < b.id)

NewestFirst(signals) ==
    CHOOSE s \in [1 .. Cardinality(signals) -> signals] :
        \A i, j \in DOMAIN s : i < j => Newer(s[i], s[j])

(* Fault: the list's own order is kept and the end of it cut off.           *)
SignalsAsListed(es, q) ==
    LET all == {Signal(e, q) : e \in {x \in es : Overlaps(x, q)}}
        listed(a, b) == a.id < b.id IN
    SubSeq(SetToSortSeq(all, listed), 1,
           IF Cardinality(all) > MaxSignals THEN MaxSignals ELSE Cardinality(all))

(* Fault: the adapter leaves the cut to the core.                           *)
SignalsUncut(es, q) ==
    NewestFirst({Signal(e, q) : e \in {x \in es : Overlaps(x, q)}})

Signals(es, q) ==
    LET all == {Signal(e, q) : e \in {x \in es : Overlaps(x, q)}} IN
    SubSeq(NewestFirst(all), 1,
           IF Cardinality(all) > MaxSignals THEN MaxSignals ELSE Cardinality(all))

(* The sanitizer of a bundle recomputes the length of the window,           *)
SafeWindow(q) ==
    /\ q.end >= q.start /\ q.end - q.start <= MaxWindow
    /\ q.seconds \in 1 .. MaxWindow \div 2
    /\ (q.end - q.start) \div 2 = q.seconds

(* looks at the times of every signal,                                      *)
SafeSignal(signal) == ~(signal.last < signal.first)

(* and refuses the whole bundle for one that is not in order.               *)
Safe(q, signals) ==
    /\ SafeWindow(q)
    /\ Len(signals) <= MaxSignals
    /\ \A i \in DOMAIN signals : SafeSignal(signals[i])

Reply ==
    /\ fetched # None /\ reply = None
    /\ LET signals == Signals(fetched, query) IN
       reply' = IF Safe(query, signals)
                THEN [status |-> 200, state |-> "available", signals |-> signals]
                ELSE [status |-> 502, state |-> "available", signals |-> <<>>]
    /\ UNCHANGED <<clock, events, window, query, fetched, stored>>

Cluster == Emit \/ Repeat \/ Expires \/ Tick

(* Nothing looks at the events once they were fetched.                      *)
EventNext == (fetched = None /\ reply = None /\ Cluster) \/ Ask \/ List \/ ListFails \/ Reply

EventSpec == EventInit /\ [][EventNext]_eventVars

-----------------------------------------------------------------------------
SignalType == [id : Names, first : Int, last : Int]

(* Every variable keeps its type, and an answer holds no more than
   the budget allows, out of no more events than the scan may fetch.        *)
EventTypeOK ==
    /\ clock \in 0 .. MaxClock
    /\ events \subseteq Events
    /\ \A a, b \in events : a.name = b.name => a = b
    /\ window \in Windows
    /\ query = None \/ query \in [start : Int, end : Int, seconds : Nat, target : Targets]
    /\ fetched = None \/
         /\ fetched \subseteq stored
         /\ Cardinality(fetched) <= CandidateLimit
    /\ stored \subseteq Events
    /\ reply = None \/
         /\ reply.status \in {200, 502, 503}
         /\ reply.signals \in Seq(SignalType)
         /\ Len(reply.signals) <= MaxSignals

Answered == reply # None /\ reply.status = 200
Shown == {reply.signals[i].id : i \in DOMAIN reply.signals}
Relevant == {e \in stored : Overlaps(e, query)}

(* As long as the target has no more events than are fetched, an answer that
   leaves one of the window out is full, and everything in it was seen at
   least as late: what is cut is the oldest, though the times compared are
   clamped and cut to seconds.                                              *)
NewestServed ==
    Answered /\ Cardinality(stored) <= CandidateLimit =>
        \A e \in Relevant :
            e.name \notin Shown =>
                /\ Len(reply.signals) = MaxSignals
                /\ \A i \in DOMAIN reply.signals :
                       reply.signals[i].last >= Signal(e, query).last

(* Everything in an answer is an event that was stored and lies within the
   window the answer names, first time before last, once.                   *)
WithinWindow ==
    Answered =>
        /\ Shown \subseteq {e.name : e \in Relevant}
        /\ Cardinality(Shown) = Len(reply.signals)
        /\ \A i \in DOMAIN reply.signals :
               /\ query.start <= reply.signals[i].first
               /\ reply.signals[i].first <= reply.signals[i].last
               /\ reply.signals[i].last <= query.end

(* An answer is the best there is of its window, and of nothing else.       *)
BestOfWindow == NewestServed /\ WithinWindow

(* With a window of whole seconds, and events none of which ended before it
   began, what was fetched is always served: clamping and cutting to seconds
   never turn good events into a bundle the sanitizer refuses.              *)
GoodEventsServed ==
    fetched # None /\ reply # None /\ window = Second(window)
            /\ (\A e \in stored : FirstTime(e) <= LastTime(e)) =>
        Answered
=============================================================================
