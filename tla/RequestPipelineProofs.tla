------------------------ MODULE RequestPipelineProofs ------------------------
(***************************************************************************)
(* Proofs about RequestPipeline, for any set of namespaces, any policy and *)
(* any configuration of the security pipeline.                             *)
(***************************************************************************)
EXTENDS RequestPipeline, FiniteSetTheorems, TLAPS

(* The names that are no namespaces differ from each other.                 *)
LEMMA FourAtMost ==
    ASSUME NEW a, NEW b, NEW c, NEW d
    PROVE  Cardinality({a, b, c, d}) # 5
<1>1. /\ IsFiniteSet({}) /\ Cardinality({}) = 0 BY FS_EmptySet
<1>2. /\ IsFiniteSet({a}) /\ Cardinality({a}) = 1 BY FS_Singleton
<1>3. /\ IsFiniteSet({a, b}) /\ Cardinality({a, b}) \in 1 .. 2
  <2>1. {a, b} = {a} \cup {b} OBVIOUS
  <2> QED BY <1>2, <2>1, FS_AddElement
<1>4. /\ IsFiniteSet({a, b, c}) /\ Cardinality({a, b, c}) \in 1 .. 3
  <2>1. {a, b, c} = {a, b} \cup {c} OBVIOUS
  <2> QED BY <1>3, <2>1, FS_AddElement
<1>5. Cardinality({a, b, c, d}) \in 1 .. 4
  <2>1. {a, b, c, d} = {a, b, c} \cup {d} OBVIOUS
  <2> QED BY <1>4, <2>1, FS_AddElement
<1> QED BY <1>5

LEMMA NamesDiffer ==
    /\ Cluster \notin {Global, Elsewhere, Invalid, None}
    /\ Global \notin {Elsewhere, Invalid, None}
    /\ Elsewhere \notin {Invalid, None}
    /\ Invalid # None
    /\ Namespaces \cap {Cluster, Global, Elsewhere, Invalid, None} = {}
<1> DEFINE Five == {Cluster, Global, Elsewhere, Invalid, None}
<1>1. ASSUME NEW a, NEW b, NEW c, NEW d PROVE Five # {a, b, c, d}
  BY FourAtMost, PipelineAssumption
<1>2. /\ Cluster = Global => Five = {Global, Elsewhere, Invalid, None}
      /\ Cluster = Elsewhere => Five = {Global, Elsewhere, Invalid, None}
      /\ Cluster = Invalid => Five = {Global, Elsewhere, Invalid, None}
      /\ Cluster = None => Five = {Global, Elsewhere, Invalid, None}
      /\ Global = Elsewhere => Five = {Cluster, Elsewhere, Invalid, None}
      /\ Global = Invalid => Five = {Cluster, Elsewhere, Invalid, None}
      /\ Global = None => Five = {Cluster, Elsewhere, Invalid, None}
      /\ Elsewhere = Invalid => Five = {Cluster, Global, Invalid, None}
      /\ Elsewhere = None => Five = {Cluster, Global, Invalid, None}
      /\ Invalid = None => Five = {Cluster, Global, Elsewhere, None}
  OBVIOUS
<1> HIDE DEF Five
<1>3. /\ Five # {Global, Elsewhere, Invalid, None}
      /\ Five # {Cluster, Elsewhere, Invalid, None}
      /\ Five # {Cluster, Global, Invalid, None}
      /\ Five # {Cluster, Global, Elsewhere, None}
  BY <1>1
<1> QED BY <1>2, <1>3, PipelineAssumption

-----------------------------------------------------------------------------
(* Which requests reach a stage, and that the recorder is on from the audit
   middleware to the end for audited ones.                                  *)
Routed ==
    /\ (stage = "route" /\ form = "canonical") => route \notin Deferred
    /\ stage \in {"prerequisite", "resolve", "deferred", "correlate"} => route \in Deferred
    /\ stage = "correlate" => route = "correlation"
    /\ stage = "handler" => route \in Protected \ Deferred
    /\ stage = "sanitize" => route \in Protected
    /\ stage = "record" => Audited
    /\ recorder.on <=> stage # "audit" /\ Audited

(* A response is there from the moment a request leaves the handlers.       *)
Answered ==
    /\ response.status # "none" <=> stage \in {"record", "end"}
    /\ response.status = "none" => response.data = None
    /\ route \in Protected => (response.status = "ok" <=> response.data # None)

(* What was resolved and asked at a stage.                                  *)
Resolved ==
    /\ stage \in {"audit", "authn", "route", "prerequisite", "handler", "resolve"}
          => item = None
    /\ stage \in {"deferred", "correlate"} => item # None
    /\ (stage = "sanitize" /\ route \in Deferred) => item # None
    /\ asking # None => stage \in {"sanitize", "record", "end", "panicked"}
    /\ (stage = "sanitize" /\ route = "correlation") => asking = item

(* The decision that a stage behind authorization rests on.                 *)
Decided ==
    AuthorizationEnabled =>
        /\ stage = "handler" => asked \in permitted
        /\ stage = "correlate" => item \in permitted
        /\ stage = "sanitize" => Loaded \in permitted

(* What the recorder holds: an outcome only of a refusal, and the scope that
   was decided on.                                                          *)
NotedOutcome ==
    /\ recorder.outcome \in {"", "denied", "unauthenticated", "security_unavailable"}
    /\ stage \notin {"record", "end"} => recorder.outcome = ""
    /\ stage = "record" =>
          /\ recorder.outcome = "denied" <=> response.status = "denied"
          /\ recorder.outcome = "unauthenticated" <=> response.status = "unauthenticated"
          /\ recorder.outcome = "security_unavailable"
                <=> response.status = "securityUnavailable"

NotedScope ==
    recorder.on =>
        /\ stage \in {"authn", "route", "prerequisite", "resolve", "deferred"}
              => recorder.scope = None
        /\ (route \in Deferred /\ item = None) => recorder.scope = None
        /\ AuthorizationEnabled =>
              /\ stage = "handler" => recorder.scope = asked
              /\ stage = "correlate" => recorder.scope = item
              /\ stage = "sanitize" => recorder.scope = Loaded
              /\ response.data # None => recorder.scope = response.data

RedirectUnscoped == (recorder.on /\ response.status = "redirect") => recorder.scope = None

EventLast == event # None => stage = "end"

PipelineInv ==
    /\ TypeOK /\ Routed /\ Answered /\ Resolved
    /\ Decided /\ GuardedReads
    /\ NotedOutcome /\ NotedScope /\ RedirectUnscoped
    /\ EventLast /\ TruthfulEvent

-----------------------------------------------------------------------------
(* What every answer, and every decision, does to the request.              *)
LEMMA Responds ==
    ASSUME NEW status, NEW data, Respond(status, data)
    PROVE  /\ response' = [status |-> status, data |-> data]
           /\ response'.status = status /\ response'.data = data
           /\ stage' \in {"record", "end"}
           /\ stage' = "record" <=> Audited
BY DEF Respond, Go

Refusals == {"unauthenticated", "denied", "security_unavailable"}

StatusOf(outcome) == IF outcome = "security_unavailable" THEN "securityUnavailable"
                                                         ELSE outcome

LEMMA Authorizes ==
    ASSUME TypeOK, NEW scope \in Scopes \cup {Invalid}, NEW next, AuthorizeRequest(scope, next)
    PROVE  \/ /\ \E r \in Refusals :
                   /\ Respond(StatusOf(r), None)
                   /\ recorder' = IF recorder.on
                                  THEN [Noting(scope) EXCEPT !.outcome = r]
                                  ELSE recorder
           \/ /\ principal /\ HasAuthorizer /\ scope \in permitted
              /\ stage' = next
              /\ recorder' = Noting(scope)
              /\ response' = response
BY DEF AuthorizeRequest, Refusals, StatusOf, Go

(* A refusal in the middlewares in front of authorization.                  *)
LEMMA Notes ==
    ASSUME TypeOK, NEW outcome \in Outcomes, Note(outcome)
    PROVE  /\ recorder'.on = recorder.on /\ recorder'.scope = recorder.scope
           /\ recorder'.outcome = IF recorder.on THEN outcome ELSE recorder.outcome
           /\ recorder' \in [on : BOOLEAN, scope : Scopes \cup {None}, outcome : Outcomes]
BY DEF Note, TypeOK

LEMMA NotesScope ==
    ASSUME TypeOK, NEW scope \in Scopes \cup {Invalid}
    PROVE  /\ Noting(scope) \in [on : BOOLEAN, scope : Scopes \cup {None}, outcome : Outcomes]
           /\ Noting(scope).on = recorder.on
           /\ Noting(scope).outcome = recorder.outcome
           /\ Noting(scope).scope = IF recorder.on /\ scope # Invalid
                                    THEN scope ELSE recorder.scope
BY DEF Noting, TypeOK

(* An answer given by a middleware that refuses.                            *)
Refused ==
    /\ stage' \in {"record", "end"} /\ (stage' = "record" <=> Audited)
    /\ response'.data = None
    /\ response' \in [status : Statuses, data : {None}]
    /\ recorder'.on = recorder.on
    /\ recorder' \in [on : BOOLEAN, scope : Scopes \cup {None}, outcome : Outcomes]
    /\ ~recorder.on => recorder' = recorder
    /\ \E r \in Refusals :
          /\ response'.status = StatusOf(r)
          /\ recorder.on => recorder'.outcome = r

LEMMA AuthorizesOrRefuses ==
    ASSUME TypeOK, NEW scope \in Scopes \cup {Invalid}, NEW next, AuthorizeRequest(scope, next)
    PROVE  \/ /\ Refused
              /\ recorder.on => recorder'.scope = Noting(scope).scope
           \/ /\ principal /\ HasAuthorizer /\ scope \in permitted
              /\ stage' = next
              /\ recorder' = Noting(scope)
              /\ response' = response
<1>1. CASE \E r \in Refusals : /\ Respond(StatusOf(r), None)
                               /\ recorder' = IF recorder.on
                                              THEN [Noting(scope) EXCEPT !.outcome = r]
                                              ELSE recorder
  <2>1. PICK r \in Refusals : /\ Respond(StatusOf(r), None)
                              /\ recorder' = IF recorder.on
                                             THEN [Noting(scope) EXCEPT !.outcome = r]
                                             ELSE recorder
    BY <1>1
  <2>2. /\ stage' \in {"record", "end"} /\ (stage' = "record" <=> Audited)
        /\ response' = [status |-> StatusOf(r), data |-> None]
    BY <2>1, Responds
  <2>3. StatusOf(r) \in Statuses /\ r \in Outcomes
    BY DEF StatusOf, Refusals, Statuses, Outcomes
  <2>4. /\ recorder'.on = recorder.on
        /\ recorder' \in [on : BOOLEAN, scope : Scopes \cup {None}, outcome : Outcomes]
        /\ recorder.on => /\ recorder'.outcome = r
                          /\ recorder'.scope = Noting(scope).scope
        /\ ~recorder.on => recorder' = recorder
    BY <2>1, <2>3, NotesScope DEF TypeOK
  <2> QED BY <2>2, <2>3, <2>4 DEF Refused
<1> QED BY <1>1, Authorizes

LEMMA NotesAndRefuses ==
    ASSUME TypeOK, NEW r \in Refusals, Note(r), Respond(StatusOf(r), None)
    PROVE  Refused /\ recorder'.scope = recorder.scope
<1>1. StatusOf(r) \in Statuses /\ r \in Outcomes
  BY DEF StatusOf, Refusals, Statuses, Outcomes
<1>2. /\ stage' \in {"record", "end"} /\ (stage' = "record" <=> Audited)
      /\ response' = [status |-> StatusOf(r), data |-> None]
  BY Responds
<1>3. ~recorder.on => recorder' = recorder BY DEF Note
<1> QED BY <1>1, <1>2, <1>3, Notes DEF Refused

-----------------------------------------------------------------------------
LEMMA AskedIsScope ==
    ASSUME TypeOK, route \in Protected \ Deferred
    PROVE  asked \in Scopes \cup {Invalid} /\ asked # None
BY NamesDiffer DEF TypeOK, Protected, Deferred, ScopesOf, Scopes

LEMMA ItemIsScope ==
    ASSUME TypeOK, item # None
    PROVE  item \in Scopes
BY DEF TypeOK, Scopes

LEMMA LoadedIsScope ==
    ASSUME TypeOK, Resolved, stage = "sanitize", route \in Protected
    PROVE  Loaded \in Scopes \cup {Invalid} /\ Loaded # None
<1>1. CASE route \in Deferred
  BY <1>1, ItemIsScope DEF Resolved, Loaded, Deferred
<1>2. CASE route \notin Deferred
  BY <1>2, AskedIsScope DEF Loaded, Deferred
<1> QED BY <1>1, <1>2

-----------------------------------------------------------------------------
(* The steps of the pipeline in terms of what they do: an answer that is no
   refusal and carries no data, an answer with data, a refusal, or going on. *)
Failures == {"invalid", "notFound", "methodNotAllowed", "backendUnavailable", "badGateway"}

Leaves == stage' \in {"record", "end"} /\ (stage' = "record" <=> Audited)

Fails == Leaves /\ response' \in [status : Failures, data : {None}]

Serves(data) == Leaves /\ response' = [status |-> "ok", data |-> data]

Redirects == Leaves /\ response' = [status |-> "redirect", data |-> None]

GoesTo(place) == stage' = place /\ response' = response

LEMMA AuthenticateSteps ==
    ASSUME TypeOK, Authenticate
    PROVE  /\ stage = "authn"
           /\ UNCHANGED <<request, finding, item, asking, event>>
           /\ \/ GoesTo(AfterAuthn) /\ principal' = TRUE /\ recorder' = recorder
              \/ Refused /\ UNCHANGED principal /\ recorder'.scope = recorder.scope
<1>1. CASE /\ Note("unauthenticated") /\ Respond("unauthenticated", None)
           /\ UNCHANGED principal
  <2>1. "unauthenticated" \in Refusals /\ StatusOf("unauthenticated") = "unauthenticated"
    BY DEF Refusals, StatusOf
  <2> QED BY <1>1, <2>1, NotesAndRefuses DEF Authenticate
<1>2. CASE /\ Note("security_unavailable") /\ Respond("securityUnavailable", None)
           /\ UNCHANGED principal
  <2>1. /\ "security_unavailable" \in Refusals
        /\ StatusOf("security_unavailable") = "securityUnavailable"
    BY DEF Refusals, StatusOf
  <2> QED BY <1>2, <2>1, NotesAndRefuses DEF Authenticate
<1> QED BY <1>1, <1>2 DEF Authenticate, GoesTo, Go

LEMMA PrerequisiteSteps ==
    ASSUME TypeOK, Prerequisite
    PROVE  /\ stage = "prerequisite"
           /\ UNCHANGED <<request, finding, principal, item, asking, event>>
           /\ \/ GoesTo("resolve") /\ recorder' = recorder
                 /\ (AuthorizationEnabled => principal /\ HasAuthorizer)
              \/ Refused /\ recorder'.scope = recorder.scope
<1>1. CASE Note("unauthenticated") /\ Respond("unauthenticated", None)
  <2>1. "unauthenticated" \in Refusals /\ StatusOf("unauthenticated") = "unauthenticated"
    BY DEF Refusals, StatusOf
  <2> QED BY <1>1, <2>1, NotesAndRefuses DEF Prerequisite
<1>2. CASE Note("security_unavailable") /\ Respond("securityUnavailable", None)
  <2>1. /\ "security_unavailable" \in Refusals
        /\ StatusOf("security_unavailable") = "securityUnavailable"
    BY DEF Refusals, StatusOf
  <2> QED BY <1>2, <2>1, NotesAndRefuses DEF Prerequisite
<1>3. CASE ~AuthorizationEnabled \/ (principal /\ HasAuthorizer)
  BY <1>3 DEF Prerequisite, GoesTo, Go
<1> QED BY <1>1, <1>2, <1>3 DEF Prerequisite

LEMMA AuthorizeRouteSteps ==
    ASSUME TypeOK, Routed, AuthorizeRoute
    PROVE  /\ stage = "route" /\ route \in Protected \ Deferred
           /\ UNCHANGED <<request, finding, principal, item, asking, event>>
           /\ \/ GoesTo("handler") /\ recorder' = recorder /\ ~AuthorizationEnabled
              \/ /\ GoesTo("handler") /\ recorder' = Noting(asked)
                 /\ principal /\ HasAuthorizer /\ asked \in permitted
              \/ Refused
<1>1. stage = "route" /\ route \in Protected \ Deferred BY DEF AuthorizeRoute, Routed
<1>2. asked \in Scopes \cup {Invalid} BY <1>1, AskedIsScope
<1>3. CASE AuthorizationEnabled
  <2>1. AuthorizeRequest(asked, "handler") BY <1>3 DEF AuthorizeRoute
  <2> QED BY <1>1, <1>2, <2>1, AuthorizesOrRefuses DEF AuthorizeRoute, GoesTo
<1>4. CASE ~AuthorizationEnabled
  BY <1>1, <1>4 DEF AuthorizeRoute, GoesTo, Go
<1> QED BY <1>3, <1>4

LEMMA AuthorizeFindingSteps ==
    ASSUME TypeOK, Routed, Resolved, AuthorizeFinding
    PROVE  /\ stage = "deferred" /\ route \in Deferred /\ item \in Scopes /\ item # None
           /\ UNCHANGED <<request, finding, principal, item, asking, event>>
           /\ \/ GoesTo(AfterDeferred) /\ recorder' = recorder /\ ~AuthorizationEnabled
              \/ /\ GoesTo(AfterDeferred) /\ recorder' = Noting(item)
                 /\ principal /\ HasAuthorizer /\ item \in permitted
              \/ Refused
<1>1. stage = "deferred" /\ route \in Deferred /\ item # None
  BY DEF AuthorizeFinding, Routed, Resolved
<1>2. item \in Scopes BY <1>1, ItemIsScope
<1>3. CASE AuthorizationEnabled
  <2>1. AuthorizeRequest(item, AfterDeferred)
    BY <1>3 DEF AuthorizeFinding, ScopeOfItem
  <2> QED BY <1>1, <1>2, <2>1, AuthorizesOrRefuses DEF AuthorizeFinding, GoesTo
<1>4. CASE ~AuthorizationEnabled
  BY <1>1, <1>2, <1>4 DEF AuthorizeFinding, GoesTo, Go
<1> QED BY <1>3, <1>4

LEMMA AnswerSteps ==
    /\ \A status \in Failures : Respond(status, None) => Fails
    /\ \A data : Respond("ok", data) => Serves(data)
    /\ Respond("redirect", None) => Redirects
BY Responds DEF Fails, Serves, Redirects, Leaves, Failures

LEMMA UnprotectedSteps ==
    ASSUME Unprotected \/ Unmatched
    PROVE  /\ stage = "route" /\ route \notin Protected
           /\ UNCHANGED <<request, finding, principal, item, asking, recorder, event>>
           /\ Fails \/ Serves(None)
BY AnswerSteps DEF Unprotected, Unmatched, Failures, Protected, Deferred

LEMMA RedirectSteps ==
    ASSUME Redirect
    PROVE  /\ stage = "route" /\ form # "canonical"
           /\ UNCHANGED <<request, finding, principal, item, asking, recorder, event>>
           /\ Redirects
BY AnswerSteps DEF Redirect

LEMMA HandleSteps ==
    ASSUME Routed, Handle
    PROVE  /\ stage = "handler" /\ route \in Protected \ Deferred
           /\ UNCHANGED <<request, finding, principal, item, asking, recorder, event>>
           /\ Fails \/ Serves(asked) \/ GoesTo("sanitize")
<1>1. stage = "handler" /\ route \in Protected \ Deferred BY DEF Handle, Routed
<1>2. ErrorsOf \subseteq Failures
  BY <1>1 DEF ErrorsOf, Failures, Protected, Deferred
<1> QED BY <1>1, <1>2, AnswerSteps DEF Handle, Failures, GoesTo, Go

LEMMA ResolveSteps ==
    ASSUME Routed, Resolve
    PROVE  /\ stage = "resolve" /\ route \in Deferred
           /\ UNCHANGED <<request, finding, principal, asking, recorder, event>>
           /\ \/ finding # None /\ item' = finding /\ GoesTo("deferred")
              \/ Fails /\ item' = item
BY AnswerSteps DEF Resolve, Routed, Failures, GoesTo, Go

LEMMA CorrelateSteps ==
    ASSUME Routed, Correlate
    PROVE  /\ stage = "correlate" /\ route = "correlation"
           /\ UNCHANGED <<request, finding, principal, item, recorder, event>>
           /\ asking' = item
           /\ GoesTo("sanitize") \/ Fails
BY AnswerSteps DEF Correlate, Routed, CorrelationErrors, Failures, GoesTo, Go

LEMMA SanitizeSteps ==
    ASSUME Routed, Sanitize
    PROVE  /\ stage = "sanitize" /\ route \in Protected
           /\ UNCHANGED <<request, finding, principal, item, asking, recorder, event>>
           /\ Serves(Loaded) \/ Fails
BY AnswerSteps DEF Sanitize, Routed, Failures

-----------------------------------------------------------------------------
(* The types of what a step answers, and of where it goes.                  *)
LEMMA AnswersTyped ==
    ASSUME TypeOK
    PROVE  /\ Leaves => stage' \in Stages
           /\ Fails => response' \in [status : Statuses, data : Scopes \cup {Invalid, None}]
           /\ Redirects => response' \in [status : Statuses, data : Scopes \cup {Invalid, None}]
           /\ \A data \in Scopes \cup {Invalid, None} :
                 Serves(data) =>
                    response' \in [status : Statuses, data : Scopes \cup {Invalid, None}]
           /\ Refused =>
                 /\ response' \in [status : Statuses, data : Scopes \cup {Invalid, None}]
                 /\ stage' \in Stages
                 /\ recorder' \in [on : BOOLEAN, scope : Scopes \cup {None}, outcome : Outcomes]
                 /\ recorder'.on = recorder.on
                 /\ recorder.on \/ recorder' = recorder
<1>1. Failures \subseteq Statuses /\ {"ok", "redirect"} \subseteq Statuses BY DEF Failures, Statuses
<1>2. Leaves => stage' \in Stages BY DEF Leaves, Stages
<1>3. Refused => stage' \in Stages BY DEF Refused, Stages
<1> QED BY <1>1, <1>2, <1>3 DEF Fails, Serves, Redirects, Refused

LEMMA StartAuditSteps ==
    ASSUME TypeOK, StartAudit
    PROVE  /\ stage = "audit" /\ GoesTo("authn")
           /\ UNCHANGED <<request, finding, principal, item, asking, event>>
           /\ recorder' \in [on : BOOLEAN, scope : Scopes \cup {None}, outcome : Outcomes]
           /\ recorder'.on <=> Audited
           /\ recorder'.scope = recorder.scope /\ recorder'.outcome = recorder.outcome
<1>1. Audited \in BOOLEAN BY DEF Audited
<1>2. /\ recorder \in [on : BOOLEAN, scope : Scopes \cup {None}, outcome : Outcomes]
      /\ recorder' = [recorder EXCEPT !.on = Audited]
  BY DEF StartAudit, TypeOK
<1> HIDE DEF Audited
<1>3. recorder' \in [on : BOOLEAN, scope : Scopes \cup {None}, outcome : Outcomes]
  BY <1>1, <1>2
<1>4. /\ recorder'.scope = recorder.scope /\ recorder'.outcome = recorder.outcome
      /\ recorder'.on = Audited
  BY <1>2
<1>5. recorder'.on <=> Audited BY <1>4
<1> QED BY <1>3, <1>4, <1>5 DEF StartAudit, GoesTo, Go

LEMMA PlacesTyped ==
    /\ {"audit", "authn", "handler", "resolve", "deferred", "sanitize", "end", "panicked"}
          \subseteq Stages
    /\ AfterAuthn \in Stages /\ AfterDeferred \in Stages
BY DEF Stages, AfterAuthn, AfterDeferred

LEMMA NextTyped == TypeOK /\ Routed /\ Resolved /\ [Next]_vars => TypeOK'
<1> SUFFICES ASSUME TypeOK, Routed, Resolved, [Next]_vars PROVE TypeOK' OBVIOUS
<1> USE DEF TypeOK, request
<1>1. CASE StartAudit
  <2>1. recorder'.on => route \in Protected BY <1>1, StartAuditSteps DEF Audited
  <2>2. recorder'.on \/ (recorder'.scope = None /\ recorder'.outcome = "")
    BY <1>1, StartAuditSteps DEF Routed
  <2> QED BY <1>1, <2>1, <2>2, StartAuditSteps, PlacesTyped DEF GoesTo
<1>2. CASE SkipAuthn
  BY <1>2, PlacesTyped DEF SkipAuthn, Go
<1>3. CASE Authenticate
  BY <1>3, AuthenticateSteps, AnswersTyped, PlacesTyped DEF GoesTo
<1>4. CASE Unprotected \/ Unmatched
  BY <1>4, UnprotectedSteps, AnswersTyped DEF Fails, Serves
<1>5. CASE AuthorizeRoute
  <2>1. /\ route \in Protected \ Deferred /\ asked \in Scopes \cup {Invalid}
        /\ UNCHANGED <<request, finding, principal, item, asking, event>>
    BY <1>5, AuthorizeRouteSteps, AskedIsScope
  <2>2. CASE GoesTo("handler") /\ recorder' = recorder
    BY <2>1, <2>2, PlacesTyped DEF GoesTo
  <2>3. CASE GoesTo("handler") /\ recorder' = Noting(asked)
    <3>1. /\ recorder' \in [on : BOOLEAN, scope : Scopes \cup {None}, outcome : Outcomes]
          /\ recorder'.on = recorder.on /\ recorder'.outcome = recorder.outcome
          /\ ~recorder.on => recorder'.scope = recorder.scope
      BY <2>1, <2>3, NotesScope
    <3> QED BY <2>1, <2>3, <3>1, PlacesTyped DEF GoesTo
  <2>4. CASE Refused BY <2>1, <2>4, AnswersTyped
  <2> QED BY <1>5, <2>2, <2>3, <2>4, AuthorizeRouteSteps
<1>6. CASE Prerequisite
  BY <1>6, PrerequisiteSteps, AnswersTyped, PlacesTyped DEF GoesTo
<1>7. CASE Handle
  BY <1>7, HandleSteps, AnswersTyped, PlacesTyped, AskedIsScope
    DEF Fails, Serves, GoesTo
<1>8. CASE Resolve
  BY <1>8, ResolveSteps, AnswersTyped, PlacesTyped DEF Fails, GoesTo, Resolved
<1>9. CASE AuthorizeFinding
  <2>1. /\ route \in Deferred /\ item \in Scopes
        /\ UNCHANGED <<request, finding, principal, item, asking, event>>
    BY <1>9, AuthorizeFindingSteps
  <2>2. CASE GoesTo(AfterDeferred) /\ recorder' = recorder
    BY <2>1, <2>2, PlacesTyped DEF GoesTo
  <2>3. CASE GoesTo(AfterDeferred) /\ recorder' = Noting(item)
    <3>1. /\ recorder' \in [on : BOOLEAN, scope : Scopes \cup {None}, outcome : Outcomes]
          /\ recorder'.on = recorder.on /\ recorder'.outcome = recorder.outcome
          /\ ~recorder.on => recorder'.scope = recorder.scope
      BY <2>1, <2>3, NotesScope
    <3> QED BY <2>1, <2>3, <3>1, PlacesTyped DEF GoesTo
  <2>4. CASE Refused BY <2>1, <2>4, AnswersTyped
  <2> QED BY <1>9, <2>2, <2>3, <2>4, AuthorizeFindingSteps
<1>10. CASE Correlate
  BY <1>10, CorrelateSteps, AnswersTyped, PlacesTyped DEF Fails, GoesTo
<1>11. CASE Sanitize
  BY <1>11, SanitizeSteps, AnswersTyped, LoadedIsScope DEF Fails, Serves
<1>12. CASE RecordEvent
  <2>1. FinalOutcome \in Outcomes \ {""}
    BY DEF FinalOutcome, OutcomeForStatus, Outcomes
  <2>2. event' \in Events \cup {None}
    <3>1. response.status \in Statuses /\ recorder.scope \in Scopes \cup {None} OBVIOUS
    <3>2. CASE event' = [status |-> response.status, outcome |-> FinalOutcome,
                        scope |-> recorder.scope]
      BY <2>1, <3>1, <3>2 DEF Events
    <3> QED BY <1>12, <3>2 DEF RecordEvent
  <2> QED BY <1>12, <2>2, PlacesTyped DEF RecordEvent, Go
<1>13. CASE Rewrite
  BY <1>13 DEF Rewrite
<1>14. CASE Panic
  BY <1>14, PlacesTyped DEF Panic
<1>16. CASE Redirect
  BY <1>16, RedirectSteps, AnswersTyped DEF Redirects
<1>15. CASE UNCHANGED vars
  BY <1>15 DEF vars
<1> QED
  BY <1>1, <1>2, <1>3, <1>4, <1>5, <1>6, <1>7, <1>8, <1>9, <1>10, <1>11,
     <1>12, <1>13, <1>14, <1>15, <1>16 DEF Next

LEMMA NextRouted == TypeOK /\ Routed /\ Resolved /\ [Next]_vars => Routed'
<1> SUFFICES ASSUME TypeOK, Routed, Resolved, [Next]_vars PROVE Routed' OBVIOUS
<1> USE DEF Routed, request, Audited, GoesTo, Leaves, Fails, Serves, Redirects, Refused
<1>1. CASE StartAudit
  BY <1>1, StartAuditSteps
<1>2. CASE SkipAuthn
  BY <1>2 DEF SkipAuthn, Go, AfterAuthn, Protected, Deferred
<1>3. CASE Authenticate
  BY <1>3, AuthenticateSteps DEF AfterAuthn, Protected, Deferred
<1>4. CASE Unprotected \/ Unmatched
  BY <1>4, UnprotectedSteps
<1>5. CASE AuthorizeRoute
  BY <1>5, AuthorizeRouteSteps, NotesScope, AskedIsScope DEF Protected, Deferred
<1>6. CASE Prerequisite
  BY <1>6, PrerequisiteSteps
<1>7. CASE Handle
  BY <1>7, HandleSteps DEF Protected, Deferred
<1>8. CASE Resolve
  BY <1>8, ResolveSteps
<1>9. CASE AuthorizeFinding
  BY <1>9, AuthorizeFindingSteps, NotesScope
    DEF AfterDeferred, Protected, Deferred
<1>10. CASE Correlate
  BY <1>10, CorrelateSteps DEF Protected, Deferred
<1>11. CASE Sanitize
  BY <1>11, SanitizeSteps
<1>12. CASE RecordEvent
  BY <1>12 DEF RecordEvent, Go
<1>13. CASE Rewrite
  BY <1>13 DEF Rewrite
<1>14. CASE Panic
  BY <1>14 DEF Panic
<1>16. CASE Redirect
  BY <1>16, RedirectSteps
<1>15. CASE UNCHANGED vars
  BY <1>15 DEF vars
<1> QED
  BY <1>1, <1>2, <1>3, <1>4, <1>5, <1>6, <1>7, <1>8, <1>9, <1>10, <1>11,
     <1>12, <1>13, <1>14, <1>15, <1>16 DEF Next

LEMMA RefusalNoted ==
    ASSUME Refused
    PROVE  /\ response'.status \in {"unauthenticated", "denied", "securityUnavailable"}
           /\ response'.data = None
           /\ recorder.on =>
                /\ recorder'.outcome \in Refusals
                /\ recorder'.outcome = "denied" <=> response'.status = "denied"
                /\ recorder'.outcome = "unauthenticated"
                      <=> response'.status = "unauthenticated"
                /\ recorder'.outcome = "security_unavailable"
                      <=> response'.status = "securityUnavailable"
BY DEF Refused, Refusals, StatusOf

LEMMA NextAnswered == TypeOK /\ Routed /\ Resolved /\ Answered /\ [Next]_vars => Answered'
<1> SUFFICES ASSUME TypeOK, Routed, Resolved, Answered, [Next]_vars PROVE Answered' OBVIOUS
<1> USE DEF Answered, request, GoesTo, Leaves, Fails, Serves, Redirects, Refused
<1>1. CASE StartAudit
  BY <1>1, StartAuditSteps
<1>2. CASE SkipAuthn
  BY <1>2 DEF SkipAuthn, Go, AfterAuthn
<1>3. CASE Authenticate
  BY <1>3, AuthenticateSteps, RefusalNoted DEF AfterAuthn
<1>4. CASE Unprotected \/ Unmatched
  BY <1>4, UnprotectedSteps DEF Failures
<1>5. CASE AuthorizeRoute
  BY <1>5, AuthorizeRouteSteps, RefusalNoted
<1>6. CASE Prerequisite
  BY <1>6, PrerequisiteSteps, RefusalNoted
<1>7. CASE Handle
  BY <1>7, HandleSteps, AskedIsScope DEF Failures
<1>8. CASE Resolve
  BY <1>8, ResolveSteps DEF Failures
<1>9. CASE AuthorizeFinding
  BY <1>9, AuthorizeFindingSteps, RefusalNoted DEF AfterDeferred
<1>10. CASE Correlate
  BY <1>10, CorrelateSteps DEF Failures
<1>11. CASE Sanitize
  BY <1>11, SanitizeSteps, LoadedIsScope DEF Failures
<1>12. CASE RecordEvent
  BY <1>12 DEF RecordEvent, Go
<1>13. CASE Rewrite
  BY <1>13 DEF Rewrite
<1>14. CASE Panic
  BY <1>14 DEF Panic
<1>16. CASE Redirect
  BY <1>16, RedirectSteps
<1>15. CASE UNCHANGED vars
  BY <1>15 DEF vars
<1> QED
  BY <1>1, <1>2, <1>3, <1>4, <1>5, <1>6, <1>7, <1>8, <1>9, <1>10, <1>11,
     <1>12, <1>13, <1>14, <1>15, <1>16 DEF Next

LEMMA NextResolved == TypeOK /\ Routed /\ Resolved /\ [Next]_vars => Resolved'
<1> SUFFICES ASSUME TypeOK, Routed, Resolved, [Next]_vars PROVE Resolved' OBVIOUS
<1> USE DEF Resolved, request, GoesTo, Leaves, Fails, Serves, Redirects, Refused
<1>1. CASE StartAudit
  BY <1>1, StartAuditSteps
<1>2. CASE SkipAuthn
  BY <1>2 DEF SkipAuthn, Go, AfterAuthn, Protected, Deferred, Routed
<1>3. CASE Authenticate
  BY <1>3, AuthenticateSteps DEF AfterAuthn, Protected, Deferred, Routed
<1>4. CASE Unprotected \/ Unmatched
  BY <1>4, UnprotectedSteps
<1>5. CASE AuthorizeRoute
  BY <1>5, AuthorizeRouteSteps DEF Protected, Deferred, Routed
<1>6. CASE Prerequisite
  BY <1>6, PrerequisiteSteps
<1>7. CASE Handle
  BY <1>7, HandleSteps DEF Protected, Deferred, Routed
<1>8. CASE Resolve
  BY <1>8, ResolveSteps DEF Protected, Deferred, Routed
<1>9. CASE AuthorizeFinding
  BY <1>9, AuthorizeFindingSteps DEF AfterDeferred, Protected, Deferred, Routed
<1>10. CASE Correlate
  BY <1>10, CorrelateSteps DEF Protected, Deferred, Routed
<1>11. CASE Sanitize
  BY <1>11, SanitizeSteps
<1>12. CASE RecordEvent
  BY <1>12 DEF RecordEvent, Go
<1>13. CASE Rewrite
  BY <1>13 DEF Rewrite
<1>14. CASE Panic
  BY <1>14 DEF Panic
<1>16. CASE Redirect
  BY <1>16, RedirectSteps
<1>15. CASE UNCHANGED vars
  BY <1>15 DEF vars
<1> QED
  BY <1>1, <1>2, <1>3, <1>4, <1>5, <1>6, <1>7, <1>8, <1>9, <1>10, <1>11,
     <1>12, <1>13, <1>14, <1>15, <1>16 DEF Next

LEMMA NextDecided == TypeOK /\ Routed /\ Resolved /\ Decided /\ [Next]_vars => Decided'
<1> SUFFICES ASSUME TypeOK, Routed, Resolved, Decided, [Next]_vars PROVE Decided' OBVIOUS
<1> USE DEF Decided, Loaded, AuthorizationEnabled, request, GoesTo, Leaves, Fails, Serves, Redirects, Refused
<1>1. CASE StartAudit
  BY <1>1, StartAuditSteps
<1>2. CASE SkipAuthn
  BY <1>2 DEF SkipAuthn, Go, AfterAuthn
<1>3. CASE Authenticate
  BY <1>3, AuthenticateSteps DEF AfterAuthn
<1>4. CASE Unprotected \/ Unmatched
  BY <1>4, UnprotectedSteps
<1>5. CASE AuthorizeRoute
  BY <1>5, AuthorizeRouteSteps
<1>6. CASE Prerequisite
  BY <1>6, PrerequisiteSteps
<1>7. CASE Handle
  BY <1>7, HandleSteps DEF Deferred
<1>8. CASE Resolve
  BY <1>8, ResolveSteps
<1>9. CASE AuthorizeFinding
  BY <1>9, AuthorizeFindingSteps DEF AfterDeferred
<1>10. CASE Correlate
  BY <1>10, CorrelateSteps
<1>11. CASE Sanitize
  BY <1>11, SanitizeSteps
<1>12. CASE RecordEvent
  BY <1>12 DEF RecordEvent, Go
<1>13. CASE Rewrite
  BY <1>13 DEF Rewrite
<1>14. CASE Panic
  BY <1>14 DEF Panic
<1>16. CASE Redirect
  BY <1>16, RedirectSteps
<1>15. CASE UNCHANGED vars
  BY <1>15 DEF vars
<1> QED
  BY <1>1, <1>2, <1>3, <1>4, <1>5, <1>6, <1>7, <1>8, <1>9, <1>10, <1>11,
     <1>12, <1>13, <1>14, <1>15, <1>16 DEF Next

(* GuardedReads, without the set of what is guarded.                         *)
Guarded(scope) == scope # None => principal /\ HasAuthorizer /\ scope \in permitted

ReadsGuarded ==
    AuthorizationEnabled =>
        /\ stage \in {"handler", "resolve", "deferred", "correlate", "sanitize"}
              => principal /\ HasAuthorizer
        /\ route \in Protected => Guarded(response.data) /\ Guarded(asking)

LEMMA GuardsAgree == GuardedReads <=> ReadsGuarded
BY DEF GuardedReads, OnlyPermittedData, FailsClosed, ReadsGuarded, Guarded, HasAuthorizer

LEMMA NextGuarded == TypeOK /\ Routed /\ Resolved /\ Answered /\ Decided /\ ReadsGuarded /\ [Next]_vars => ReadsGuarded'
<1> SUFFICES ASSUME TypeOK, Routed, Resolved, Answered, Decided, ReadsGuarded, [Next]_vars PROVE ReadsGuarded' OBVIOUS
<1> USE DEF ReadsGuarded, Guarded, HasAuthorizer, AuthorizationEnabled, request, GoesTo, Leaves, Fails, Serves, Redirects, Refused
<1>1. CASE StartAudit
  BY <1>1, StartAuditSteps
<1>2. CASE SkipAuthn
  BY <1>2 DEF SkipAuthn, Go, AfterAuthn, Answered, Resolved
<1>3. CASE Authenticate
  BY <1>3, AuthenticateSteps, RefusalNoted DEF AfterAuthn, Answered, Resolved
<1>4. CASE Unprotected \/ Unmatched
  BY <1>4, UnprotectedSteps
<1>5. CASE AuthorizeRoute
  BY <1>5, AuthorizeRouteSteps, RefusalNoted DEF Resolved
<1>6. CASE Prerequisite
  BY <1>6, PrerequisiteSteps, RefusalNoted DEF Resolved
<1>7. CASE Handle
  BY <1>7, HandleSteps DEF Resolved, Decided
<1>8. CASE Resolve
  BY <1>8, ResolveSteps DEF Resolved
<1>9. CASE AuthorizeFinding
  BY <1>9, AuthorizeFindingSteps, RefusalNoted DEF AfterDeferred, Resolved
<1>10. CASE Correlate
  BY <1>10, CorrelateSteps DEF Decided
<1>11. CASE Sanitize
  BY <1>11, SanitizeSteps DEF Decided, Loaded
<1>12. CASE RecordEvent
  BY <1>12 DEF RecordEvent, Go
<1>13. CASE Rewrite
  BY <1>13 DEF Rewrite
<1>14. CASE Panic
  BY <1>14 DEF Panic
<1>16. CASE Redirect
  BY <1>16, RedirectSteps
<1>15. CASE UNCHANGED vars
  BY <1>15 DEF vars
<1> QED
  BY <1>1, <1>2, <1>3, <1>4, <1>5, <1>6, <1>7, <1>8, <1>9, <1>10, <1>11,
     <1>12, <1>13, <1>14, <1>15, <1>16 DEF Next

(* An answer that is no refusal notes nothing; a refusal notes what it is.    *)
LEMMA PlainNoted ==
    ASSUME NotedOutcome, stage \notin {"record", "end"}, recorder' = recorder,
           Fails \/ Redirects \/ \E data : Serves(data)
    PROVE  NotedOutcome'
<1>1. response'.status \notin {"denied", "unauthenticated", "securityUnavailable"}
  BY DEF Fails, Serves, Redirects, Failures
<1>2. recorder'.outcome = "" BY DEF NotedOutcome
<1>3. stage' \in {"record", "end"} BY DEF Fails, Serves, Redirects, Leaves
<1> QED BY <1>1, <1>2, <1>3 DEF NotedOutcome

LEMMA RefusedNoted ==
    ASSUME Routed, NotedOutcome, stage \notin {"audit", "record", "end"}, Refused
    PROVE  NotedOutcome'
<1>1. CASE recorder.on
  <2>1. stage' \in {"record", "end"} BY DEF Refused
  <2> QED BY <1>1, <2>1, RefusalNoted DEF NotedOutcome, Refusals
<1>2. CASE ~recorder.on
  <2>1. stage' \in {"record", "end"} /\ stage' # "record" /\ recorder' = recorder
    BY <1>2 DEF Refused, Routed
  <2> QED BY <2>1 DEF NotedOutcome
<1> QED BY <1>1, <1>2

LEMMA PassedNoted ==
    ASSUME NotedOutcome, stage \notin {"record", "end"}, stage' \notin {"record", "end"},
           recorder'.outcome = recorder.outcome
    PROVE  NotedOutcome'
BY DEF NotedOutcome

LEMMA NextOutcome == TypeOK /\ Routed /\ Resolved /\ NotedOutcome /\ [Next]_vars
                        => NotedOutcome'
<1> SUFFICES ASSUME TypeOK, Routed, Resolved, NotedOutcome, [Next]_vars PROVE NotedOutcome'
  OBVIOUS
<1>1. CASE StartAudit
  BY <1>1, StartAuditSteps, PassedNoted DEF GoesTo
<1>2. CASE SkipAuthn
  BY <1>2, PassedNoted DEF SkipAuthn, Go, AfterAuthn
<1>3. CASE Authenticate
  <2>1. stage = "authn" /\ AfterAuthn \notin {"record", "end"}
    BY <1>3 DEF Authenticate, AfterAuthn
  <2>2. CASE Refused BY <2>1, <2>2, RefusedNoted
  <2> QED BY <1>3, <2>1, <2>2, AuthenticateSteps, PassedNoted DEF GoesTo
<1>4. CASE Unprotected \/ Unmatched
  BY <1>4, UnprotectedSteps, PlainNoted
<1>5. CASE AuthorizeRoute
  <2>1. stage = "route" /\ asked \in Scopes \cup {Invalid}
    BY <1>5, AuthorizeRouteSteps, AskedIsScope
  <2>2. CASE Refused BY <2>1, <2>2, RefusedNoted
  <2>3. CASE GoesTo("handler") /\ recorder'.outcome = recorder.outcome
    BY <2>1, <2>3, PassedNoted DEF GoesTo
  <2> QED BY <1>5, <2>1, <2>2, <2>3, AuthorizeRouteSteps, NotesScope
<1>6. CASE Prerequisite
  <2>1. stage = "prerequisite" BY <1>6, PrerequisiteSteps
  <2>2. CASE Refused BY <2>1, <2>2, RefusedNoted
  <2> QED BY <1>6, <2>1, <2>2, PrerequisiteSteps, PassedNoted DEF GoesTo
<1>7. CASE Handle
  BY <1>7, HandleSteps, PlainNoted, PassedNoted DEF GoesTo
<1>8. CASE Resolve
  BY <1>8, ResolveSteps, PlainNoted, PassedNoted DEF GoesTo
<1>9. CASE AuthorizeFinding
  <2>1. stage = "deferred" /\ item \in Scopes /\ AfterDeferred \notin {"record", "end"}
    BY <1>9, AuthorizeFindingSteps DEF AfterDeferred
  <2>2. CASE Refused BY <2>1, <2>2, RefusedNoted
  <2>3. CASE GoesTo(AfterDeferred) /\ recorder'.outcome = recorder.outcome
    BY <2>1, <2>3, PassedNoted DEF GoesTo
  <2> QED BY <1>9, <2>1, <2>2, <2>3, AuthorizeFindingSteps, NotesScope
<1>10. CASE Correlate
  BY <1>10, CorrelateSteps, PlainNoted, PassedNoted DEF GoesTo
<1>11. CASE Sanitize
  BY <1>11, SanitizeSteps, PlainNoted
<1>12. CASE RecordEvent
  BY <1>12 DEF RecordEvent, Go, NotedOutcome
<1>13. CASE Rewrite
  BY <1>13 DEF Rewrite, NotedOutcome
<1>14. CASE Panic
  BY <1>14, PassedNoted DEF Panic
<1>16. CASE Redirect
  BY <1>16, RedirectSteps, PlainNoted
<1>15. CASE UNCHANGED vars
  BY <1>15 DEF vars, NotedOutcome
<1> QED
  BY <1>1, <1>2, <1>3, <1>4, <1>5, <1>6, <1>7, <1>8, <1>9, <1>10, <1>11,
     <1>12, <1>13, <1>14, <1>15, <1>16 DEF Next

LEMMA NextScope == TypeOK /\ Routed /\ Resolved /\ Answered /\ NotedScope /\ [Next]_vars => NotedScope'
<1> SUFFICES ASSUME TypeOK, Routed, Resolved, Answered, NotedScope, [Next]_vars PROVE NotedScope' OBVIOUS
<1> USE DEF NotedScope, Loaded, AuthorizationEnabled, request, GoesTo, Leaves, Fails, Serves, Redirects, Refused
<1>1. CASE StartAudit
  BY <1>1, StartAuditSteps DEF Routed, Resolved, Answered, TypeOK
<1>2. CASE SkipAuthn
  BY <1>2 DEF SkipAuthn, Go, AfterAuthn
<1>3. CASE Authenticate
  BY <1>3, AuthenticateSteps DEF AfterAuthn
<1>4. CASE Unprotected \/ Unmatched
  BY <1>4, UnprotectedSteps
<1>5. CASE AuthorizeRoute
  <2>1. stage = "route" /\ route \in Protected \ Deferred /\ asked \in Scopes \cup {Invalid}
    BY <1>5, AuthorizeRouteSteps, AskedIsScope
  <2>2. CASE Refused BY <1>5, <2>1, <2>2, AuthorizeRouteSteps
  <2>3. CASE GoesTo("handler") /\ recorder' = recorder /\ ~AuthorizationEnabled
    BY <1>5, <2>1, <2>3, AuthorizeRouteSteps
  <2>4. CASE /\ GoesTo("handler") /\ recorder' = Noting(asked)
             /\ asked \in permitted
    <3>1. asked # Invalid BY <2>4, NamesDiffer DEF TypeOK, Scopes
    <3>2. recorder'.on = recorder.on /\ (recorder.on => recorder'.scope = asked)
      BY <2>1, <2>4, <3>1, NotesScope
    <3>3. response'.data = None BY <2>1, <2>4 DEF Answered
    <3> QED BY <1>5, <2>1, <2>4, <3>2, <3>3, AuthorizeRouteSteps
  <2> QED BY <1>5, <2>2, <2>3, <2>4, AuthorizeRouteSteps
<1>6. CASE Prerequisite
  BY <1>6, PrerequisiteSteps
<1>7. CASE Handle
  BY <1>7, HandleSteps DEF Deferred, Answered
<1>8. CASE Resolve
  BY <1>8, ResolveSteps
<1>9. CASE AuthorizeFinding
  <2>1. /\ stage = "deferred" /\ route \in Deferred /\ item \in Scopes /\ item # None
        /\ UNCHANGED <<request, item, asking>>
    BY <1>9, AuthorizeFindingSteps
  <2>2. CASE Refused BY <2>1, <2>2
  <2>3. CASE GoesTo(AfterDeferred) /\ recorder' = recorder /\ ~AuthorizationEnabled
    BY <2>1, <2>3 DEF AfterDeferred
  <2>4. CASE GoesTo(AfterDeferred) /\ recorder' = Noting(item) 
    <3>1. item # Invalid BY <2>1, NamesDiffer DEF Scopes
    <3>2. recorder'.on = recorder.on /\ (recorder.on => recorder'.scope = item)
      BY <2>1, <2>4, <3>1, NotesScope
    <3>3. response'.data = None BY <2>1, <2>4 DEF Answered
    <3>4. stage' = "correlate" \/ (stage' = "sanitize" /\ route = "finding")
      BY <2>1, <2>4 DEF AfterDeferred
    <3> QED BY <2>1, <3>2, <3>3, <3>4
  <2> QED BY <1>9, <2>2, <2>3, <2>4, AuthorizeFindingSteps
<1>10. CASE Correlate
  BY <1>10, CorrelateSteps
<1>11. CASE Sanitize
  BY <1>11, SanitizeSteps
<1>12. CASE RecordEvent
  BY <1>12 DEF RecordEvent, Go
<1>13. CASE Rewrite
  BY <1>13 DEF Rewrite
<1>14. CASE Panic
  BY <1>14 DEF Panic
<1>16. CASE Redirect
  BY <1>16, RedirectSteps
<1>15. CASE UNCHANGED vars
  BY <1>15 DEF vars
<1> QED
  BY <1>1, <1>2, <1>3, <1>4, <1>5, <1>6, <1>7, <1>8, <1>9, <1>10, <1>11,
     <1>12, <1>13, <1>14, <1>15, <1>16 DEF Next

(* No stage notes a scope before the redirect, and none comes after it.      *)
LEMMA NextUnscoped ==
    TypeOK /\ Routed /\ Resolved /\ Answered /\ NotedScope /\ RedirectUnscoped /\ [Next]_vars
        => RedirectUnscoped'
<1> SUFFICES ASSUME TypeOK, Routed, Resolved, Answered, NotedScope, RedirectUnscoped,
                    [Next]_vars, recorder'.on, response'.status = "redirect"
             PROVE  recorder'.scope = None
  BY DEF RedirectUnscoped
<1>1. CASE Redirect
  BY <1>1, RedirectSteps DEF NotedScope
<1>2. CASE UNCHANGED <<response, recorder>>
  BY <1>2 DEF RedirectUnscoped
<1>3. CASE response.status = "none" /\ response' = response
  BY <1>3
<1>4. CASE Fails \/ Refused \/ \E data : Serves(data)
  BY <1>4, RefusalNoted DEF Fails, Serves, Failures
<1>5. CASE StartAudit
  BY <1>5, StartAuditSteps, <1>3 DEF Answered, GoesTo
<1>6. CASE SkipAuthn BY <1>6, <1>2 DEF SkipAuthn
<1>7. CASE Authenticate
  BY <1>7, <1>2, <1>4, AuthenticateSteps DEF GoesTo
<1>8. CASE Unprotected \/ Unmatched BY <1>8, <1>4, UnprotectedSteps
<1>9. CASE AuthorizeRoute
  BY <1>9, <1>3, <1>4, AuthorizeRouteSteps DEF GoesTo, Answered
<1>10. CASE Prerequisite
  BY <1>10, <1>2, <1>4, PrerequisiteSteps DEF GoesTo
<1>11. CASE Handle BY <1>11, <1>2, <1>4, HandleSteps DEF GoesTo
<1>12. CASE Resolve BY <1>12, <1>2, <1>4, ResolveSteps DEF GoesTo
<1>13. CASE AuthorizeFinding
  BY <1>13, <1>3, <1>4, AuthorizeFindingSteps DEF GoesTo, Answered
<1>14. CASE Correlate BY <1>14, <1>2, <1>4, CorrelateSteps DEF GoesTo
<1>15. CASE Sanitize BY <1>15, <1>4, SanitizeSteps
<1>16. CASE RecordEvent BY <1>16, <1>2 DEF RecordEvent
<1>17. CASE Rewrite \/ Panic BY <1>17, <1>2 DEF Rewrite, Panic
<1>18. CASE UNCHANGED vars BY <1>18, <1>2 DEF vars
<1> QED
  BY <1>1, <1>5, <1>6, <1>7, <1>8, <1>9, <1>10, <1>11, <1>12, <1>13, <1>14, <1>15,
     <1>16, <1>17, <1>18 DEF Next

LEMMA NextEvent == TypeOK /\ Routed /\ Resolved /\ Answered /\ NotedOutcome /\ NotedScope /\ RedirectUnscoped /\ EventLast /\ TruthfulEvent /\ [Next]_vars => (EventLast /\ TruthfulEvent)'
<1> SUFFICES ASSUME TypeOK, Routed, Resolved, Answered, NotedOutcome, NotedScope, RedirectUnscoped, EventLast, TruthfulEvent, [Next]_vars PROVE (EventLast /\ TruthfulEvent)' OBVIOUS
<1> USE DEF EventLast, TruthfulEvent, AuthorizationEnabled, request, GoesTo, Leaves, Fails, Serves, Redirects, Refused
<1>1. CASE StartAudit
  BY <1>1, StartAuditSteps
<1>2. CASE SkipAuthn
  BY <1>2 DEF SkipAuthn, Go, AfterAuthn
<1>3. CASE Authenticate
  BY <1>3, AuthenticateSteps DEF AfterAuthn
<1>4. CASE Unprotected \/ Unmatched
  BY <1>4, UnprotectedSteps
<1>5. CASE AuthorizeRoute
  BY <1>5, AuthorizeRouteSteps
<1>6. CASE Prerequisite
  BY <1>6, PrerequisiteSteps
<1>7. CASE Handle
  BY <1>7, HandleSteps
<1>8. CASE Resolve
  BY <1>8, ResolveSteps
<1>9. CASE AuthorizeFinding
  BY <1>9, AuthorizeFindingSteps DEF AfterDeferred
<1>10. CASE Correlate
  BY <1>10, CorrelateSteps
<1>11. CASE Sanitize
  BY <1>11, SanitizeSteps
<1>12. CASE RecordEvent
  <2>1. /\ stage = "record" /\ stage' = "end" /\ recorder.on /\ route \in Protected
        /\ UNCHANGED <<request, item, response, recorder>>
    BY <1>12 DEF RecordEvent, Go, Routed, Audited
  <2>2. CASE event' = event
    BY <1>12, <2>1, <2>2
  <2>3. CASE event' = [status |-> response.status, outcome |-> FinalOutcome,
                       scope |-> recorder.scope]
    <3>1. /\ event'.status = response'.status
          /\ event'.outcome = FinalOutcome
          /\ event'.scope = recorder.scope
      BY <2>1, <2>3
    <3>2. /\ response.status \in Statuses \ {"none"}
          /\ response.status = "ok" <=> response.data # None
      BY <2>1 DEF TypeOK, Answered
    <3>3. /\ FinalOutcome = "success" <=> response.status \in {"ok", "redirect"}
          /\ FinalOutcome = "denied" <=> response.status = "denied"
          /\ FinalOutcome = "unauthenticated" <=> response.status = "unauthenticated"
          /\ FinalOutcome = "security_unavailable" <=> response.status = "securityUnavailable"
          /\ FinalOutcome = "backend_error" <=>
                response.status \in {"backendUnavailable", "badGateway"}
      BY <2>1, <3>2 DEF FinalOutcome, OutcomeForStatus, NotedOutcome, Statuses
    <3>4. /\ (AuthorizationEnabled /\ response.data # None) => recorder.scope = response.data
          /\ (route \in Deferred /\ item = None) => recorder.scope = None
          /\ response.status = "redirect" => recorder.scope = None
      BY <2>1 DEF NotedScope, RedirectUnscoped
    <3>5. (AuthorizationEnabled /\ event'.outcome = "success" /\ event'.scope # None)
             => response.data = event'.scope
      BY <3>1, <3>2, <3>3, <3>4
    <3> QED BY <2>1, <3>1, <3>2, <3>3, <3>4, <3>5
  <2> QED BY <1>12, <2>2, <2>3 DEF RecordEvent
<1>13. CASE Rewrite
  BY <1>13 DEF Rewrite
<1>14. CASE Panic
  BY <1>14 DEF Panic
<1>16. CASE Redirect
  BY <1>16, RedirectSteps
<1>15. CASE UNCHANGED vars
  BY <1>15 DEF vars
<1> QED
  BY <1>1, <1>2, <1>3, <1>4, <1>5, <1>6, <1>7, <1>8, <1>9, <1>10, <1>11,
     <1>12, <1>13, <1>14, <1>15, <1>16 DEF Next

-----------------------------------------------------------------------------
LEMMA InitInv == Init => PipelineInv
<1> SUFFICES ASSUME Init PROVE PipelineInv OBVIOUS
<1>1. /\ options \subseteq {"authenticator", "authorizer", "sink"} /\ permitted \subseteq Scopes
      /\ route \in Routes /\ asked \in ScopesOf(route) /\ form \in Forms
      /\ finding \in Namespaces \cup {Cluster, None}
      /\ stage = "audit" /\ item = None /\ asking = None
      /\ response.status = "none" /\ response.data = None
      /\ event = None
  BY DEF Init, NoResponse
<1>2. principal \in BOOLEAN BY Zenon DEF Init
<1>3. /\ recorder.on \in BOOLEAN /\ ~recorder.on
      /\ recorder \in [on : BOOLEAN, scope : {None}, outcome : {""}]
  <2>1. recorder = [on |-> FALSE, scope |-> None, outcome |-> ""] BY Zenon DEF Init
  <2> QED BY <2>1
<1>4. response \in [status : Statuses, data : {None}]
  BY DEF Init, NoResponse, Statuses
<1>5. TypeOK
  <2>1. recorder \in [on : BOOLEAN, scope : Scopes \cup {None}, outcome : Outcomes]
    BY <1>3 DEF Outcomes
  <2>2. recorder.scope = None /\ recorder.outcome = "" BY <1>3
  <2>3. response \in [status : Statuses, data : Scopes \cup {Invalid, None}] BY <1>4
  <2> QED BY <1>1, <1>2, <1>3, <2>1, <2>2, <2>3, PlacesTyped DEF TypeOK
<1>6. Routed /\ Answered /\ Resolved
  BY <1>1, <1>3 DEF Routed, Answered, Resolved
<1>7. Decided BY <1>1 DEF Decided
<1>8. GuardedReads BY <1>1 DEF GuardedReads, OnlyPermittedData, FailsClosed
<1>9. NotedOutcome /\ NotedScope /\ RedirectUnscoped
  BY <1>1, <1>3 DEF NotedOutcome, NotedScope, RedirectUnscoped
<1>10. EventLast /\ TruthfulEvent BY <1>1 DEF EventLast, TruthfulEvent
<1> QED BY <1>5, <1>6, <1>7, <1>8, <1>9, <1>10 DEF PipelineInv

LEMMA NextInv == PipelineInv /\ [Next]_vars => PipelineInv'
<1> SUFFICES ASSUME PipelineInv, [Next]_vars PROVE PipelineInv' OBVIOUS
<1>1. TypeOK' /\ Routed' /\ Answered' /\ Resolved' /\ Decided'
  BY NextTyped, NextRouted, NextAnswered, NextResolved, NextDecided DEF PipelineInv
<1>2. GuardedReads'
  <2>1. ReadsGuarded BY GuardsAgree DEF PipelineInv
  <2>2. ReadsGuarded' BY <2>1, NextGuarded DEF PipelineInv
  <2>3. GuardedReads' <=> ReadsGuarded'
    BY DEF GuardedReads, OnlyPermittedData, FailsClosed, ReadsGuarded, Guarded, HasAuthorizer
  <2> QED BY <2>2, <2>3
<1>3. NotedOutcome' /\ NotedScope' /\ RedirectUnscoped'
  BY NextOutcome, NextScope, NextUnscoped DEF PipelineInv
<1>4. EventLast' /\ TruthfulEvent' BY NextEvent DEF PipelineInv
<1> QED BY <1>1, <1>2, <1>3, <1>4 DEF PipelineInv

LEMMA Inductive == Spec => []PipelineInv
BY InitInv, NextInv, PTL DEF Spec

(* Every request keeps its type, and only audited ones have a recorder.      *)
THEOREM TypeCorrect == Spec => []TypeOK
<1>1. PipelineInv => TypeOK BY DEF PipelineInv
<1> QED BY <1>1, Inductive, PTL

(* Whatever is missing from the security set-up, whatever the policy and
   whenever a finding is rewritten, nothing is read without a principal and
   an authorizer, and data leave only with a decision about their own scope. *)
THEOREM AlwaysGuardedReads == Spec => []GuardedReads
<1>1. PipelineInv => GuardedReads BY DEF PipelineInv
<1> QED BY <1>1, Inductive, PTL

(* An audit event says what the client got, and about which scope it was
   decided.                                                                 *)
THEOREM EventsAreTrue == Spec => []TruthfulEvent
<1>1. PipelineInv => TruthfulEvent BY DEF PipelineInv
<1> QED BY <1>1, Inductive, PTL

(* Once a request is answered nothing is read, asked or sent for it.         *)
THEOREM RefusalsAreFinal == Spec => RefusalIsFinal
<1>1. PipelineInv /\ [Next]_vars =>
        [response.status # "none" => UNCHANGED <<response, principal, item, asking>>]_vars
  <2> SUFFICES ASSUME PipelineInv, Next, response.status # "none"
               PROVE  UNCHANGED <<response, principal, item, asking>>
    OBVIOUS
  <2>1. stage \in {"record", "end"} BY DEF PipelineInv, Answered
  <2> QED
    BY <2>1 DEF Next, StartAudit, SkipAuthn, Authenticate, Unprotected, Unmatched, Redirect, AuthorizeRoute,
       Prerequisite, Handle, Resolve, AuthorizeFinding, Correlate, Sanitize,
       RecordEvent, Rewrite, Panic
<1> QED BY <1>1, Inductive, PTL DEF Spec, RefusalIsFinal
=============================================================================
