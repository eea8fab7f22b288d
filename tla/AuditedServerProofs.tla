------------------------ MODULE AuditedServerProofs ------------------------
(***************************************************************************)
(* The server with its audit events, for any connections, any deadline     *)
(* shorter than the grace period, and all bounds that agree.               *)
(***************************************************************************)
EXTENDS AuditedServer, TLAPS

(* AuditEvent for all bounds that agree, all texts and all latencies.       *)

LEMMA TextFields ==
    \A t \in Texts : t.length \in Nat /\ (t.length = 0 => t.kind = "clean")
BY AuditAssumption DEF Texts

LEMMA EmptyText == Empty \in Texts
BY AuditAssumption DEF Texts, Empty

LEMMA UsableIDs ==
    \A id \in IDs : id.length \in Nat /\ (id.length > 0 => Bounded(id, EventIDLength))
BY TextFields, EmptyText, AuditAssumption, BoundsAgree
   DEF IDs, ValidID, Bounded, Empty, Generated

LEMMA EmptyIsUsable == \A max \in Nat : Empty \in CleanTexts(max)
BY EmptyText DEF CleanTexts, Empty

LEMMA RequiredIsUsable ==
    ASSUME NEW t \in Texts, NEW max \in Nat, Required(t, max)
    PROVE  t \in CleanTexts(max) /\ t.length > 0
BY DEF Required, CleanTexts

LEMMA UsableIsBounded ==
    ASSUME NEW max \in Nat, NEW bound \in Nat, max <= bound, NEW t \in CleanTexts(max)
    PROVE  Bounded(t, bound)
<1>1. t \in Texts /\ t.kind # "dirty" /\ t.length <= max BY DEF CleanTexts
<1>2. t.length \in Nat BY <1>1, TextFields
<1>3. t.length <= bound BY <1>1, <1>2
<1> QED BY <1>1, <1>3 DEF Bounded

(* Every variable keeps its type, and the recorder holds clean and bounded
   texts only, whatever the client and the identity provider supply.        *)
THEOREM TypeCorrect == AuditSpec => []AuditTypeOK
<1>1. AuditInit => AuditTypeOK
  <2> SUFFICES ASSUME AuditInit PROVE AuditTypeOK OBVIOUS
  <2>1. PrincipalOK /\ ScopeOK
    <3>1. /\ subject = Empty /\ provider = Empty /\ cluster = Empty /\ namespace = Empty
      BY DEF AuditInit
    <3>2. Empty.length = 0 BY DEF Empty
    <3>3. /\ MaxSubjectLength \in Nat /\ MaxProviderLength \in Nat
          /\ MaxScopeLength \in Nat
      BY AuditAssumption
    <3>4. PrincipalOK BY <3>1, <3>3, EmptyIsUsable DEF PrincipalOK
    <3>5. ~(namespace.length > 0) BY <3>1, <3>2
    <3>6. ScopeOK BY <3>1, <3>3, <3>5, EmptyIsUsable DEF ScopeOK
    <3> QED BY <3>4, <3>6
  <2>2. IDsGiven BY DEF AuditInit, IDsGiven
  <2>3. requestID \in IDs /\ correlationID \in IDs BY DEF AuditInit, IDs
  <2> QED BY <2>1, <2>2, <2>3 DEF AuditInit, AuditTypeOK, Outcomes, Statuses
<1>2. AuditTypeOK /\ [AuditNext]_auditVars => AuditTypeOK'
  <2> SUFFICES ASSUME AuditTypeOK, [AuditNext]_auditVars PROVE AuditTypeOK' OBVIOUS
  <2>1. CASE Metadata
    <3>1. PICK id \in Texts, correlation \in Texts :
            /\ requestID' = IF ValidID(id) THEN id ELSE Generated
            /\ correlationID' = IF ValidID(correlation) THEN correlation ELSE requestID'
      BY <2>1 DEF Metadata
    <3>2. requestID' \in IDs /\ requestID'.length > 0
      BY <3>1, AuditAssumption DEF IDs, ValidID, Generated
    <3>3. correlationID' \in IDs /\ correlationID'.length > 0
      BY <3>1, <3>2 DEF IDs, ValidID
    <3>4. PrincipalOK' /\ ScopeOK'
      BY <2>1 DEF Metadata, AuditTypeOK, recorder, PrincipalOK, ScopeOK
    <3>5. IDsGiven' BY <3>2, <3>3 DEF IDsGiven
    <3> QED BY <2>1, <3>2, <3>3, <3>4, <3>5 DEF Metadata, AuditTypeOK, recorder
  <2>2. CASE Authenticate
    <3>1. /\ UNCHANGED <<requestID, correlationID, cluster, namespace, delivery>>
          /\ stage' \in {"authz", "record"}
          /\ stage = "authn"
      BY <2>2 DEF Authenticate, Refuse, recorder
    <3>2. outcome' = outcome \/ outcome' = "security_unavailable"
                             \/ outcome' = "unauthenticated"
      BY <2>2 DEF Authenticate, Refuse, recorder
    <3>3. status' = status \/ status' = 401 \/ status' = 503
      BY <2>2 DEF Authenticate, Refuse, recorder
    <3>4. PrincipalOK'
      <4>1. CASE UNCHANGED <<subject, provider>> BY <4>1 DEF AuditTypeOK, PrincipalOK
      <4>2. CASE ~UNCHANGED <<subject, provider>>
        <5>1. PICK s \in Texts, p \in Texts :
                ValidPrincipal(s, p) /\ subject' = s /\ provider' = p
          BY <2>2, <4>2 DEF Authenticate, Refuse, recorder
        <5>2. s \in CleanTexts(MaxSubjectLength) /\ s.length > 0
          BY <5>1, RequiredIsUsable, AuditAssumption DEF ValidPrincipal
        <5>3. p \in CleanTexts(MaxProviderLength) /\ p.length > 0
          BY <5>1, RequiredIsUsable, AuditAssumption DEF ValidPrincipal
        <5>4. s.length # 0 /\ p.length # 0 BY <5>2, <5>3
        <5> QED BY <5>1, <5>2, <5>3, <5>4 DEF PrincipalOK
      <4> QED BY <4>1, <4>2
    <3>5. ScopeOK' /\ IDsGiven' BY <3>1 DEF AuditTypeOK, ScopeOK, IDsGiven
    <3>6. outcome' \in Outcomes BY <3>2 DEF AuditTypeOK, Outcomes
    <3>7. status' \in Statuses
      <4>1. status \in Statuses BY DEF AuditTypeOK
      <4> QED BY <3>3, <4>1 DEF Statuses
    <3> QED BY <3>1, <3>4, <3>5, <3>6, <3>7 DEF AuditTypeOK
  <2>3. CASE Authorize
    <3>1. /\ UNCHANGED <<requestID, correlationID, subject, provider, delivery>>
          /\ stage' \in {"handler", "record"}
          /\ stage = "authz"
      BY <2>3 DEF Authorize
    <3>2. \/ outcome' = outcome
          \/ outcome' = "denied" \/ outcome' = "security_unavailable"
      BY <2>3 DEF Authorize
    <3>3. status' = status \/ status' \in {403, 404, 502, 503}
      BY <2>3 DEF Authorize
    <3>4. ScopeOK'
      <4>1. CASE UNCHANGED <<cluster, namespace>> BY <4>1 DEF AuditTypeOK, ScopeOK
      <4>2. CASE ~UNCHANGED <<cluster, namespace>>
        <5>1. PICK c \in Texts, n \in Texts :
                ValidScope(c, n) /\ cluster' = c /\ namespace' = n
          BY <2>3, <4>2 DEF Authorize
        <5>2. c \in CleanTexts(MaxScopeLength) /\ c.length > 0
          BY <5>1, RequiredIsUsable, AuditAssumption DEF ValidScope
        <5>3. CASE n.length = 0
          <6>1. n.kind # "dirty" /\ n.length <= MaxScopeLength
            BY <5>3, TextFields, AuditAssumption
          <6>2. n \in CleanTexts(MaxScopeLength) BY <6>1 DEF CleanTexts
          <6> QED BY <5>1, <5>2, <6>2 DEF ScopeOK
        <5>4. CASE Required(n, MaxScopeLength)
          <6>1. n \in CleanTexts(MaxScopeLength)
            BY <5>4, RequiredIsUsable, AuditAssumption
          <6> QED BY <5>1, <5>2, <6>1 DEF ScopeOK
        <5> QED BY <5>1, <5>3, <5>4 DEF ValidScope
      <4> QED BY <4>1, <4>2
    <3>5. PrincipalOK' /\ IDsGiven' BY <3>1 DEF AuditTypeOK, PrincipalOK, IDsGiven
    <3>6. outcome' \in Outcomes BY <3>2 DEF AuditTypeOK, Outcomes
    <3>7. status' \in Statuses
      <4>1. status \in Statuses BY DEF AuditTypeOK
      <4> QED BY <3>3, <4>1 DEF Statuses
    <3> QED BY <3>1, <3>4, <3>5, <3>6, <3>7 DEF AuditTypeOK
  <2>4. CASE Handle
    <3>1. PrincipalOK' /\ ScopeOK' /\ IDsGiven'
      BY <2>4 DEF Handle, AuditTypeOK, recorder, PrincipalOK, ScopeOK, IDsGiven
    <3>2. status' \in Statuses BY <2>4 DEF Handle, Statuses
    <3> QED BY <2>4, <3>1, <3>2 DEF Handle, AuditTypeOK, recorder
  <2>7. CASE Redirect
    <3>1. PrincipalOK' /\ ScopeOK' /\ IDsGiven'
      BY <2>7 DEF Redirect, AuditTypeOK, recorder, PrincipalOK, ScopeOK, IDsGiven
    <3>2. status' \in Statuses BY <2>7 DEF Redirect, Statuses
    <3> QED BY <2>7, <3>1, <3>2 DEF Redirect, AuditTypeOK, recorder
  <2>5. CASE Record
    <3>1. outcome' \in Outcomes
      BY <2>5 DEF Record, AuditTypeOK, OutcomeForStatus, Outcomes
    <3>2. delivery' \in {"", "recorded", "invalid_event", "sink_error"}
      BY <2>5 DEF Record
    <3>3. PrincipalOK' /\ ScopeOK' /\ IDsGiven'
      BY <2>5 DEF Record, AuditTypeOK, PrincipalOK, ScopeOK, IDsGiven
    <3> QED BY <2>5, <3>1, <3>2, <3>3 DEF Record, AuditTypeOK
  <2>6. CASE UNCHANGED auditVars
    <3>1. PrincipalOK' /\ ScopeOK' /\ IDsGiven'
      BY <2>6 DEF auditVars, recorder, AuditTypeOK, PrincipalOK, ScopeOK, IDsGiven
    <3> QED BY <2>6, <3>1 DEF auditVars, recorder, AuditTypeOK
  <2> QED BY <2>1, <2>2, <2>3, <2>4, <2>5, <2>6, <2>7 DEF AuditNext
<1> QED BY <1>1, <1>2, PTL DEF AuditSpec

-----------------------------------------------------------------------------
LEMMA ClampedLatency ==
    ASSUME NEW latency \in Latencies
    PROVE  Clamped(latency) \in 0 .. EventLatency
BY AuditAssumption DEF Clamped

(* The event that the middleware builds always passes its validation.       *)
LEMMA BuiltEventValid ==
    ASSUME AuditTypeOK, Record, NEW latency \in Latencies
    PROVE  ValidEvent(Clamped(latency))
<1>1. requestID \in IDs /\ correlationID \in IDs /\ IDsGiven /\ stage # "metadata"
  BY DEF AuditTypeOK, Record
<1>2. /\ requestID.length > 0 /\ Bounded(requestID, EventIDLength)
      /\ correlationID.length > 0 /\ Bounded(correlationID, EventIDLength)
  BY <1>1, UsableIDs DEF IDsGiven
<1>3. outcome' \in Outcomes \ {""}
  BY DEF Record, AuditTypeOK, OutcomeForStatus, Outcomes
<1>4. /\ subject.length = 0 <=> provider.length = 0
      /\ Bounded(subject, EventPrincipalLength)
      /\ Bounded(provider, EventProviderLength)
  <2>1. PrincipalOK BY DEF AuditTypeOK
  <2> QED BY <2>1, UsableIsBounded, AuditAssumption, BoundsAgree DEF PrincipalOK
<1>5. /\ namespace.length > 0 => cluster.length > 0
      /\ Bounded(cluster, EventScopeLength) /\ Bounded(namespace, EventScopeLength)
  <2>1. ScopeOK BY DEF AuditTypeOK
  <2> QED BY <2>1, UsableIsBounded, AuditAssumption, BoundsAgree DEF ScopeOK
<1>6. status \in 100 .. 599
  <2>1. status \in Statuses BY DEF AuditTypeOK
  <2> QED BY <2>1 DEF Statuses
<1> QED BY <1>2, <1>3, <1>4, <1>5, <1>6, ClampedLatency DEF ValidEvent

(* No event is ever dropped for being invalid, for any bounds that agree.   *)
THEOREM EventsAreValid == AuditSpec => []NeverInvalid
<1>1. AuditInit => NeverInvalid BY DEF AuditInit, NeverInvalid
<1>2. AuditTypeOK /\ NeverInvalid /\ [AuditNext]_auditVars => NeverInvalid'
  <2> SUFFICES ASSUME AuditTypeOK, NeverInvalid, [AuditNext]_auditVars PROVE NeverInvalid' OBVIOUS
  <2>1. CASE Record
    <3>1. PICK latency \in Latencies :
            IF ValidEvent(Clamped(latency))
            THEN delivery' \in {"recorded", "sink_error"}
            ELSE delivery' = "invalid_event"
      BY <2>1 DEF Record
    <3> QED BY <2>1, <3>1, BuiltEventValid DEF NeverInvalid
  <2>2. CASE ~Record
    BY <2>2 DEF NeverInvalid, AuditNext, Metadata, Authenticate, Authorize, Redirect, Handle, auditVars
  <2> QED BY <2>1, <2>2
<1> QED BY <1>1, <1>2, TypeCorrect, PTL DEF AuditSpec

-----------------------------------------------------------------------------
(* Every step of the whole is a step of its audit event or leaves it alone. *)
LEMMA AuditStepOrStutter == [Next]_vars => [AuditNext]_auditVars
BY DEF Next, ServerStep, AuditStep, vars

(* No event is dropped for being invalid, whatever happens to the process.  *)
THEOREM ServerEventsAreValid == Spec => []NeverInvalid
<1>1. Init => AuditInit BY DEF Init
<1>2. Spec => AuditSpec BY <1>1, AuditStepOrStutter, PTL DEF Spec, AuditSpec
<1> QED BY <1>2, EventsAreValid, PTL

-----------------------------------------------------------------------------
(* What the composition at start-up establishes and nothing takes back.     *)
Composed ==
    \/ securityMode = "development"
    \/ pipeline = Components /\ Complete

(* Before it, nothing is accepted; only a running server accepts.           *)
Closed == ~listening /\ \A r \in Requests : request[r] = "none"

Guarded ==
    /\ request \in [Requests -> Fates]
    /\ securityMode \in {"", "development", "production", "other"}
    /\ phase \in Phases
    /\ phase \in {"load", "build"} => Closed
    /\ phase = "build" => Mode # "other"
    /\ phase \in {"run", "shutdown"} => Composed
    /\ phase = "exited" => ~listening /\ (Composed \/ Closed)

LEMMA CutKeepsNone ==
    ASSUME NEW r \in Requests
    PROVE  Cut[r] # "none" => request[r] # "none"
BY DEF Cut

LEMMA CutTyped == request \in [Requests -> Fates] => Cut \in [Requests -> Fates]
BY DEF Cut, Fates

LEMMA ExitGuarded ==
    ASSUME Guarded, NEW result, Exit(result)
    PROVE  Guarded'
<1>1. /\ phase' = "exited" /\ ~listening' /\ request' = Cut
      /\ UNCHANGED <<securityMode, bundle, pipeline>>
  BY DEF Exit, environment
<1>2. request' \in [Requests -> Fates] BY <1>1, CutTyped DEF Guarded
<1>3. Composed => Composed' BY <1>1 DEF Composed, Complete, Usable
<1>4. Closed => Closed'
  <2> SUFFICES ASSUME Closed PROVE \A r \in Requests : request'[r] = "none"
    BY <1>1 DEF Closed
  <2> TAKE r \in Requests
  <2>1. request[r] = "none" BY DEF Closed
  <2> QED BY <1>1, <2>1 DEF Cut
<1>5. Composed \/ Closed BY DEF Guarded, Phases
<1> QED BY <1>1, <1>2, <1>3, <1>4, <1>5 DEF Guarded, Phases

LEMMA NextGuarded == Guarded /\ [Next]_vars => Guarded'
<1> SUFFICES ASSUME Guarded, [Next]_vars PROVE Guarded' OBVIOUS
<1>0. ASSUME UNCHANGED environment
      PROVE  Complete' = Complete /\ securityMode' = securityMode
  BY <1>0 DEF environment, Complete, Usable
<1>1. CASE Load
  <2>1. CASE Loadable
    <3>1. /\ phase' = "build" /\ phase = "load"
          /\ UNCHANGED <<environment, code, pipeline, listening, request>>
      BY <1>1, <2>1 DEF Load
    <3>2. Mode' # "other" BY <3>1, <2>1 DEF Loadable, Mode, environment
    <3> QED BY <3>1, <3>2 DEF Guarded, Phases, Closed, environment
  <2>2. CASE ~Loadable BY <1>1, <2>2, ExitGuarded DEF Load
  <2> QED BY <2>1, <2>2
<1>2. CASE Build
  <2>1. CASE Mode = "development" \/ Complete
    <3>1. /\ phase = "build" /\ phase' = "run"
          /\ pipeline' = IF Mode = "production" THEN Components ELSE {}
          /\ UNCHANGED <<environment, code, listening, request>>
      BY <1>2, <2>1 DEF Build
    <3>2. securityMode' = securityMode /\ Complete' = Complete BY <3>1, <1>0
    <3>3. Composed'
      BY <2>1, <3>1, <3>2 DEF Mode, Guarded, Composed
    <3> QED BY <3>1, <3>2, <3>3 DEF Guarded, Phases
  <2>2. CASE ~(Mode = "development" \/ Complete)
    BY <1>2, <2>2, ExitGuarded DEF Build
  <2> QED BY <2>1, <2>2
<1>3. CASE Listen
  BY <1>3, <1>0 DEF Listen, Guarded, Phases, Composed
<1>4. CASE ListenerFails \/ Killed \/ ShutdownDone \/ ShutdownFails
  BY <1>4, ExitGuarded DEF ListenerFails, Killed, ShutdownDone, ShutdownFails
<1>5. CASE Signal
  <2>1. CASE phase \in {"load", "build"} BY <1>5, <2>1, ExitGuarded DEF Signal
  <2>2. CASE phase \notin {"load", "build"}
    BY <1>5, <2>2, <1>0 DEF Signal, process, Guarded, Closed, Composed
  <2> QED BY <2>1, <2>2
<1>6. CASE StartShutdown
  BY <1>6, <1>0 DEF StartShutdown, Guarded, Phases, Composed
<1>7. CASE Tick
  BY <1>7, <1>0 DEF Tick, process, Guarded, Closed, Composed, Mode, environment
<1>8. ASSUME NEW r \in Requests, Connection(r) \/ Answer(r) \/ Panics(r)
      PROVE  Guarded'
  <2>1. /\ UNCHANGED <<environment, process>>
        /\ listening \/ phase \in {"run", "shutdown"}
        /\ \E fate \in Fates : request' = [request EXCEPT ![r] = fate]
    BY <1>8 DEF Connection, Connect, Begin, CloseIdle, Answer, Panics, Become, Fates
  <2>2. request' \in [Requests -> Fates] BY <2>1 DEF Guarded
  <2>3. phase \in {"run", "shutdown"} BY <2>1 DEF Guarded, Closed, Phases
  <2> QED BY <2>1, <2>2, <2>3, <1>0 DEF Guarded, process, Composed
<1>9. CASE UNCHANGED serverVars
  BY <1>9, <1>0 DEF serverVars, process, environment, Guarded, Closed, Composed, Mode
<1> QED
  BY <1>1, <1>2, <1>3, <1>4, <1>5, <1>6, <1>7, <1>8, <1>9
     DEF Next, ServerStep, AuditStep, Process, Main, vars

(* A process that was not asked for development mode serves only behind all
   four components, for any number of connections.                          *)
THEOREM AlwaysGuarded == Spec => []ProductionGuarded
<1>1. Init => Guarded
  BY DEF Init, ServerInit, Guarded, Phases, Fates, Closed
<1>2. Guarded => ProductionGuarded
  <2> SUFFICES ASSUME Guarded, NEW r \in Requests,
                      securityMode # "development", request[r] # "none"
               PROVE  \A c \in Components : c \in pipeline /\ bundle[c] = "given"
    BY DEF ProductionGuarded
  <2>1. Composed BY DEF Guarded, Closed, Phases
  <2> QED BY <2>1 DEF Composed, Complete, Usable
<1> QED BY <1>1, <1>2, NextGuarded, PTL DEF Spec

-----------------------------------------------------------------------------
(* Time passes only while a server that was told to stop shuts down.        *)
Timed ==
    /\ waited \in Nat
    /\ phase \in {"load", "build", "run", "shutdown", "exited"}
    /\ phase \in {"load", "build"} => ~told
    /\ phase \in {"load", "build", "run"} => waited = 0
    /\ phase = "shutdown" => waited <= ShutdownTimeout

LEMMA NextTimed == Timed /\ [Next]_vars => Timed'
<1> SUFFICES ASSUME Timed, [Next]_vars PROVE Timed' OBVIOUS
<1>1. CASE Load BY <1>1 DEF Load, Exit, Timed
<1>2. CASE Build BY <1>2 DEF Build, Exit, Timed
<1>3. CASE Listen \/ ListenerFails \/ Killed
  BY <1>3 DEF Listen, ListenerFails, Killed, Exit, Timed
<1>4. CASE Signal BY <1>4 DEF Signal, Exit, process, Timed
<1>5. CASE StartShutdown BY <1>5, ApiServerAssumption DEF StartShutdown, Timed
<1>6. CASE ShutdownDone \/ ShutdownFails
  BY <1>6 DEF ShutdownDone, ShutdownFails, Exit, Timed
<1>7. CASE Tick
  <2>1. /\ told /\ phase \notin {"run", "exited"}
        /\ ~(phase = "shutdown" /\ waited >= ShutdownTimeout)
        /\ waited' = waited + 1 /\ phase' = phase /\ told' = told
    BY <1>7 DEF Tick, Overdue, process
  <2> QED BY <2>1, ApiServerAssumption DEF Timed
<1>8. ASSUME NEW r \in Requests, Connection(r) \/ Answer(r) \/ Panics(r)
      PROVE  Timed'
  <2>1. UNCHANGED <<phase, told, waited>>
    BY <1>8 DEF Connection, Connect, Begin, CloseIdle, Answer, Panics, process
  <2> QED BY <2>1 DEF Timed
<1>9. CASE UNCHANGED serverVars BY <1>9 DEF serverVars, process, Timed
<1> QED
  BY <1>1, <1>2, <1>3, <1>4, <1>5, <1>6, <1>7, <1>8, <1>9
     DEF Next, ServerStep, AuditStep, Process, Main, vars

(* The process ends before the kubelet kills it, for any deadline below the
   grace period.                                                            *)
THEOREM AlwaysEndsItself == Spec => []EndsItself
<1>1. Init => Timed
  <2> SUFFICES ASSUME Init PROVE Timed OBVIOUS
  <2>1. ~told BY Zenon DEF Init, ServerInit
  <2>2. waited = 0 /\ phase = "load" BY DEF Init, ServerInit
  <2> QED BY <2>1, <2>2 DEF Timed
<1>2. Timed => EndsItself BY ApiServerAssumption DEF Timed, EndsItself
<1> QED BY <1>1, <1>2, NextTimed, PTL DEF Spec

-----------------------------------------------------------------------------
Deliveries == {"recorded", "sink_error"}

(* Why a clean exit leaves nothing out.                                     *)
Accounted ==
    /\ code = "ok" => phase = "exited"
    /\ phase # "exited" => \A r \in Requests : request[r] # "cut"
    /\ code = "ok" => \A r \in Requests : request[r] \notin {"connected", "open", "cut"}
    /\ \A r \in Requests : request[r] = "answered" => securityMode = "development"
    /\ stage = "end" => delivery \in Deliveries
    /\ request[Watched] = "audited" => delivery \in Deliveries

(* An end with any other status.                                            *)
LEMMA ExitAccounted ==
    ASSUME Guarded, Accounted, NEW result, result # "ok", Exit(result),
           UNCHANGED auditVars
    PROVE  Accounted'
<1>1. /\ phase' = "exited" /\ code' # "ok" /\ request' = Cut
      /\ UNCHANGED <<securityMode, delivery, stage>>
  BY DEF Exit, environment, auditVars
<1>2. \A r \in Requests : Cut[r] \in {"answered", "audited"} => request[r] = Cut[r]
  BY DEF Cut
<1>3. Watched \in Requests BY WatchedAssumption
<1> QED BY <1>1, <1>2, <1>3 DEF Accounted

LEMMA NextAccounted ==
    Guarded /\ Accounted /\ NeverInvalid' /\ [Next]_vars => Accounted'
<1> SUFFICES ASSUME Guarded, Accounted, NeverInvalid', [Next]_vars PROVE Accounted'
  OBVIOUS
<1>0. Watched \in Requests BY WatchedAssumption
<1>1. CASE Load /\ UNCHANGED auditVars
  <2>1. CASE Loadable
    BY <1>1, <2>1 DEF Load, Accounted, environment, auditVars
  <2>2. CASE ~Loadable BY <1>1, <2>2, ExitAccounted DEF Load
  <2> QED BY <2>1, <2>2
<1>2. CASE Build /\ UNCHANGED auditVars
  <2>1. CASE Mode = "development" \/ Complete
    BY <1>2, <2>1 DEF Build, Accounted, environment, auditVars
  <2>2. CASE ~(Mode = "development" \/ Complete)
    BY <1>2, <2>2, ExitAccounted DEF Build
  <2> QED BY <2>1, <2>2
<1>3. CASE (Listen \/ StartShutdown) /\ UNCHANGED auditVars
  BY <1>3 DEF Listen, StartShutdown, Accounted, environment, auditVars
<1>4. CASE (ListenerFails \/ Killed \/ ShutdownFails) /\ UNCHANGED auditVars
  BY <1>4, ExitAccounted DEF ListenerFails, Killed, ShutdownFails
<1>5. CASE Signal /\ UNCHANGED auditVars
  <2>1. CASE phase \in {"load", "build"} BY <1>5, <2>1, ExitAccounted DEF Signal
  <2>2. CASE phase \notin {"load", "build"}
    BY <1>5, <2>2 DEF Signal, process, environment, Accounted, auditVars
  <2> QED BY <2>1, <2>2
<1>6. CASE ShutdownDone /\ UNCHANGED auditVars
  <2>1. /\ phase' = "exited" /\ request' = Cut /\ phase # "exited"
        /\ UNCHANGED <<securityMode, delivery, stage>>
        /\ \A r \in Requests : request[r] \notin {"connected", "open"}
    BY <1>6 DEF ShutdownDone, Exit, Idle, environment, auditVars
  <2>2. \A r \in Requests : Cut[r] = request[r] BY <2>1 DEF Cut
  <2> QED BY <2>1, <2>2, <1>0 DEF Accounted
<1>7. CASE Tick /\ UNCHANGED auditVars
  BY <1>7 DEF Tick, process, environment, Accounted, auditVars
<1>8. ASSUME NEW r \in Requests, Connection(r) \/ Panics(r), UNCHANGED auditVars
      PROVE  Accounted'
  <2>1. /\ UNCHANGED <<environment, process, delivery, stage>>
        /\ listening \/ phase \in {"run", "shutdown"}
        /\ \E fate \in {"connected", "open", "closed", "panicked"} :
               request' = [request EXCEPT ![r] = fate]
    BY <1>8 DEF Connection, Connect, Begin, CloseIdle, Panics, Become, auditVars
  <2>2. phase \in {"run", "shutdown"} BY <2>1 DEF Guarded, Closed, Phases
  <2>3. code # "ok" BY <2>2 DEF Accounted
  <2> QED BY <2>1, <2>2, <2>3, <1>0 DEF Guarded, Accounted, process, environment
<1>9. ASSUME NEW r \in Requests, Answer(r), MayAnswer(r), UNCHANGED auditVars
      PROVE  Accounted'
  <2>1. /\ UNCHANGED <<environment, process, delivery, stage>>
        /\ phase \in {"run", "shutdown"}
        /\ request' = [request EXCEPT
                         ![r] = IF "audit_sink" \in pipeline THEN "audited" ELSE "answered"]
    BY <1>9 DEF Answer, Become, auditVars
  <2>2. code # "ok" BY <2>1 DEF Accounted
  <2>3. "audit_sink" \notin pipeline => securityMode = "development"
    BY <2>1 DEF Guarded, Composed, Components
  <2>4. r = Watched /\ "audit_sink" \in pipeline => delivery \in Deliveries
    BY <1>9 DEF MayAnswer, Audited, Accounted
  <2> QED BY <2>1, <2>2, <2>3, <2>4, <1>0 DEF Guarded, Accounted, process, environment
<1>10. CASE AuditStep
  <2>1. request[Watched] = "open" /\ UNCHANGED serverVars /\ AuditNext
    BY <1>10 DEF AuditStep
  <2>2. stage' = "end" => delivery' \in Deliveries
    <3>1. CASE Record
      BY <3>1 DEF Record, NeverInvalid, Deliveries
    <3>2. CASE ~Record
      BY <2>1, <3>2 DEF AuditNext, Metadata, Authenticate, Authorize, Redirect, Handle, Refuse
    <3> QED BY <3>1, <3>2
  <2> QED BY <2>1, <2>2 DEF serverVars, process, environment, Accounted
<1>11. CASE UNCHANGED vars
  BY <1>11 DEF vars, serverVars, process, environment, auditVars, Accounted
<1> QED
  BY <1>1, <1>2, <1>3, <1>4, <1>5, <1>6, <1>7, <1>8, <1>9, <1>10, <1>11
     DEF Next, ServerStep, Process, Main

(* Exit status 0 means that no request was cut off and no event is missing. *)
THEOREM ExitIsClean == Spec => []CleanExit
<1>1. Init => Guarded /\ Accounted
  BY WatchedAssumption
     DEF Init, ServerInit, AuditInit, Guarded, Phases, Fates, Closed, Accounted
<1>2. Guarded /\ Accounted => CleanExit
  <2> SUFFICES ASSUME Guarded, Accounted, code = "ok" PROVE CleanExit
    BY DEF CleanExit
  <2>1. \A r \in Requests : request[r] \in Fates BY DEF Guarded
  <2>2. ASSUME NEW r \in Requests
        PROVE  request[r] \in {"none", "closed", "audited", "panicked"}
                 \cup (IF securityMode = "development" THEN {"answered"} ELSE {})
    BY <2>1 DEF Accounted, Fates
  <2>3. request[Watched] = "audited" => delivery \in {"recorded", "sink_error"}
    BY DEF Accounted, Deliveries
  <2> QED BY <2>2, <2>3 DEF CleanExit
<1> QED
  BY <1>1, <1>2, NextGuarded, NextAccounted, ServerEventsAreValid, PTL DEF Spec

-----------------------------------------------------------------------------
LEMMA ExitTyped ==
    ASSUME ServerTypeOK, NEW result \in Codes \ {"none"}, Exit(result),
           UNCHANGED waited, told' \in BOOLEAN
    PROVE  ServerTypeOK'
<1>1. request' \in [Requests -> Fates] BY CutTyped DEF ServerTypeOK, Exit
<1>2. \A r \in Requests : request'[r] \notin {"connected", "open"} BY DEF Exit, Cut
<1> QED BY <1>1, <1>2 DEF ServerTypeOK, Exit, environment, Phases

LEMMA NextServerTyped ==
    ServerTypeOK /\ Guarded /\ [Next]_vars => ServerTypeOK'
<1> SUFFICES ASSUME ServerTypeOK, Guarded, [Next]_vars PROVE ServerTypeOK'
  OBVIOUS
<1>0. told \in BOOLEAN /\ Codes \ {"none"} = {"ok", "error", "signal", "killed"}
  BY DEF ServerTypeOK, Codes
<1>1. CASE Load
  <2>1. CASE Loadable
    BY <1>1, <2>1 DEF Load, ServerTypeOK, environment, Phases
  <2>2. CASE ~Loadable BY <1>0, <1>1, <2>2, ExitTyped DEF Load
  <2> QED BY <2>1, <2>2
<1>2. CASE Build
  <2>1. CASE Mode = "development" \/ Complete
    BY <1>2, <2>1 DEF Build, ServerTypeOK, environment, Phases
  <2>2. CASE ~(Mode = "development" \/ Complete)
    BY <1>0, <1>2, <2>2, ExitTyped DEF Build
  <2> QED BY <2>1, <2>2
<1>3. CASE Listen \/ StartShutdown
  BY <1>3 DEF Listen, StartShutdown, ServerTypeOK, environment, Phases
<1>4. CASE ListenerFails \/ Killed \/ ShutdownDone \/ ShutdownFails
  BY <1>0, <1>4, ExitTyped DEF ListenerFails, Killed, ShutdownDone, ShutdownFails
<1>5. CASE Signal
  <2>1. told' \in BOOLEAN /\ UNCHANGED waited BY <1>5 DEF Signal
  <2>2. CASE phase \in {"load", "build"}
    BY <1>0, <1>5, <2>1, <2>2, ExitTyped DEF Signal
  <2>3. CASE phase \notin {"load", "build"}
    BY <1>5, <2>1, <2>3 DEF Signal, process, environment, ServerTypeOK
  <2> QED BY <2>2, <2>3
<1>6. CASE Tick
  <2>1. waited' \in 0 .. Grace
    BY <1>6, ApiServerAssumption DEF Tick, ServerTypeOK
  <2> QED BY <1>6, <2>1 DEF Tick, process, environment, ServerTypeOK
<1>7. ASSUME NEW r \in Requests, Connection(r) \/ Answer(r) \/ Panics(r)
      PROVE  ServerTypeOK'
  <2>1. /\ UNCHANGED <<environment, process, told, waited>>
        /\ listening \/ phase \in {"run", "shutdown"}
        /\ \E fate \in Fates : request' = [request EXCEPT ![r] = fate]
    BY <1>7 DEF Connection, Connect, Begin, CloseIdle, Answer, Panics, Become, Fates
  <2>2. request' \in [Requests -> Fates] BY <2>1 DEF ServerTypeOK
  <2>3. phase # "exited" BY <2>1 DEF Guarded
  <2> QED BY <2>1, <2>2, <2>3 DEF process, environment, ServerTypeOK
<1>8. CASE UNCHANGED serverVars
  BY <1>8 DEF serverVars, process, environment, ServerTypeOK
<1> QED
  BY <1>1, <1>2, <1>3, <1>4, <1>5, <1>6, <1>7, <1>8
     DEF Next, ServerStep, AuditStep, Process, Main, vars

(* Every variable of server and audit event keeps its type, for any
   connections, and for all bounds, texts and latencies.                    *)
THEOREM AllTypeCorrect == Spec => []TypeOK
<1>1. Init => ServerTypeOK /\ Guarded
  <2> SUFFICES ASSUME Init PROVE ServerTypeOK /\ Guarded OBVIOUS
  <2>1. ServerTypeOK
    <3>1. /\ listening \in BOOLEAN /\ told \in BOOLEAN
          /\ bundle \in [Components -> Values]
      BY Zenon DEF Init, ServerInit
    <3>2. phase = "load" /\ code = "none" /\ pipeline = {} /\ waited = 0
      BY Zenon DEF Init, ServerInit
    <3>3. request \in [Requests -> Fates] BY DEF Init, ServerInit, Fates
    <3>4. phase \in Phases /\ code \in Codes BY <3>2 DEF Phases, Codes
    <3>5. waited \in 0 .. Grace BY <3>2, ApiServerAssumption
    <3> QED BY <3>1, <3>2, <3>3, <3>4, <3>5 DEF ServerTypeOK
  <2>2. Guarded BY DEF Init, ServerInit, Guarded, Phases, Fates, Closed
  <2> QED BY <2>1, <2>2
<1>2. Spec => []ServerTypeOK
  BY <1>1, NextServerTyped, NextGuarded, PTL DEF Spec
<1>3. Init => AuditInit BY DEF Init
<1>4. Spec => []AuditTypeOK
  BY <1>3, AuditStepOrStutter, TypeCorrect, PTL DEF Spec, AuditSpec
<1> QED BY <1>2, <1>4, PTL DEF TypeOK
=============================================================================
