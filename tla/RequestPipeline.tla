--------------------------- MODULE RequestPipeline ---------------------------
(***************************************************************************)
(* One request on its way through the Portal Backend (internal/httpapi):   *)
(* audit, authentication, authorization of the route or, for the two       *)
(* routes that name a finding, authorization by the finding they resolve   *)
(* to, then the backend or the correlator, the sanitizer and the response. *)
(* Everything the handler calls may fail or panic, and the finding that a  *)
(* request names may be rewritten or deleted while the request is served.  *)
(*                                                                         *)
(* The mux of net/http is asked twice, by the audit middleware for the      *)
(* pattern and at the end for the handler: a path that is not written as    *)
(* path.Clean writes it has the pattern of the clean one, but is answered    *)
(* with a redirect to it.                                                   *)
(*                                                                         *)
(* A payload is abstracted to the scope its data belongs to; the authorizer *)
(* to the scopes it permits for the route's capability (PolicyAuthorizer    *)
(* models how it decides); a status to its class.                          *)
(***************************************************************************)
EXTENDS FiniteSets

CONSTANTS Namespaces,
          Cluster,      \* the scope of the local cluster without a namespace
          Global,       \* the scope of all clusters
          Elsewhere,    \* a scope in a cluster the Portal does not know
          Invalid,      \* a value that Scope.Validate refuses
          None

Scopes == Namespaces \cup {Cluster, Global, Elsewhere}

ASSUME PipelineAssumption ==
    /\ Namespaces # {} /\ Namespaces \cap {Cluster, Global, Elsewhere, Invalid, None} = {}
    /\ Cardinality({Cluster, Global, Elsewhere, Invalid, None}) = 5

(* What a handler's own scope resolver can return.  A path value of blanks is
   trimmed away, so that a resource can be asked for without a namespace.   *)
ScopesOf(route) ==
    CASE route = "clusters" -> {Global}
      [] route = "namespaces" -> {Cluster, Elsewhere, Invalid}
      [] route = "resource" -> Namespaces \cup {Cluster, Elsewhere, Invalid}
      [] route \in {"findings", "summary"} -> Namespaces \cup {Cluster, Elsewhere, Invalid}
      [] OTHER -> {None}

Deferred == {"finding", "correlation"}
Protected == {"clusters", "namespaces", "resource", "findings", "summary"} \cup Deferred
ApiPaths == Protected \cup {"unknownApi"}
Routes == ApiPaths \cup {"health", "unknown"}

(* How the path of the request is written: clean, or with empty or dot
   segments, which may hide that it leads to /api/v1 or pretend that it does. *)
Forms == {"canonical", "underApi", "outsideApi"}

VARIABLES
    options,    \* which of "authenticator", "authorizer", "sink" are configured
    permitted,  \* the scopes the authorizer permits for this capability
    route, asked,   \* the request: its pattern and the scope it asks for
    form,       \* how its path is written
    finding,    \* the scope of the finding the request names, None when gone
    stage,      \* where the request is
    principal,  \* is there a Principal in the context
    item,       \* the scope of the resolved finding
    asking,     \* the scope the correlator was asked about
    response,   \* [status, data]
    recorder,   \* the audit recorder: [on, scope, outcome]
    event       \* the audit event, or None

request == <<options, permitted, route, asked, form>>
vars == <<request, finding, stage, principal, item, asking, response,
          recorder, event>>

Statuses == {"none", "ok", "redirect", "invalid", "unauthenticated", "denied",
             "notFound", "methodNotAllowed", "securityUnavailable",
             "backendUnavailable", "badGateway"}

Outcomes == {"", "success", "unauthenticated", "denied", "security_unavailable",
             "not_found", "invalid_request", "backend_error"}

Stages == {"audit", "authn", "route", "prerequisite", "handler", "resolve",
           "deferred", "correlate", "sanitize", "record", "end", "panicked"}

NoResponse == [status |-> "none", data |-> None]

(* Fault: every route is audited.                                           *)
AuditedAlways == "sink" \in options

(* The pattern is that of the clean path, whatever the answer will be.       *)
Audited == "sink" \in options /\ route \in Protected

AuthorizationEnabled == options \cap {"authenticator", "authorizer"} # {}

-----------------------------------------------------------------------------
Init ==
    /\ options \in SUBSET {"authenticator", "authorizer", "sink"}
    /\ permitted \in SUBSET Scopes
    /\ route \in Routes
    /\ asked \in ScopesOf(route)
    /\ form \in Forms
    /\ finding \in Namespaces \cup {Cluster, None}
    /\ stage = "audit"
    /\ principal = FALSE
    /\ item = None /\ asking = None
    /\ response = NoResponse
    /\ recorder = [on |-> FALSE, scope |-> None, outcome |-> ""]
    /\ event = None

(* K8sGPT rewrites the Result under its name, or deletes it.                *)
Rewrite ==
    /\ stage \notin {"end", "panicked"}
    /\ finding' \in Namespaces \cup {Cluster, None}
    /\ UNCHANGED <<request, stage, principal, item, asking, response,
                   recorder, event>>

(* A panic in anything the middlewares and handlers call; net/http recovers
   it above them all.                                                       *)
Panic ==
    /\ stage \notin {"audit", "record", "end", "panicked"}
    /\ stage' = "panicked"
    /\ UNCHANGED <<request, finding, principal, item, asking, response,
                   recorder, event>>

Go(next) == stage' = next

(* Fault: the answer is written, but its writer does not return.            *)
RespondAndGoOn(status, data) ==
    /\ response' = [status |-> status, data |-> data]
    /\ UNCHANGED stage

(* A handler or middleware answers and returns to the audit middleware.     *)
Respond(status, data) ==
    /\ response' = [status |-> status, data |-> data]
    /\ Go(IF Audited THEN "record" ELSE "end")

Note(outcome) ==
    recorder' = IF recorder.on THEN [recorder EXCEPT !.outcome = outcome] ELSE recorder

StartAudit ==
    /\ stage = "audit"
    /\ recorder' = [recorder EXCEPT !.on = Audited]
    /\ Go("authn")
    /\ UNCHANGED <<request, finding, principal, item, asking, response, event>>

(* ---------------------------- authentication ---------------------------- *)

(* The prefix of the path as it is written.                                 *)
RequiresAuthentication ==
    IF form = "canonical" THEN route \in ApiPaths ELSE form = "underApi"

AfterAuthn ==
    IF form = "canonical" /\ route \in Deferred THEN "prerequisite" ELSE "route"

(* No authenticator, or a path outside /api/v1.                             *)
SkipAuthn ==
    /\ stage = "authn"
    /\ "authenticator" \notin options \/ ~RequiresAuthentication
    /\ Go(AfterAuthn)
    /\ UNCHANGED <<request, finding, principal, item, asking, response,
                   recorder, event>>

Authenticate ==
    /\ stage = "authn"
    /\ "authenticator" \in options /\ RequiresAuthentication
    /\ \/ /\ principal' = TRUE
          /\ Go(AfterAuthn)
          /\ UNCHANGED <<response, recorder>>
       \/ /\ Note("unauthenticated") /\ Respond("unauthenticated", None)
          /\ UNCHANGED principal
       \/ /\ Note("security_unavailable") /\ Respond("securityUnavailable", None)
          /\ UNCHANGED principal
    /\ UNCHANGED <<request, finding, item, asking, event>>

(* ----------------------------- authorization ---------------------------- *)

(* Routes without protection.                                               *)
Unprotected ==
    /\ stage = "route" /\ form = "canonical"
    /\ route = "health"
    /\ \/ Respond("ok", None)
       \/ Respond("backendUnavailable", None)
    /\ UNCHANGED <<request, finding, principal, item, asking, recorder, event>>

(* The mux has no pattern for this path, or none for this method.            *)
Unmatched ==
    /\ stage = "route" /\ form = "canonical"
    /\ route \in {"unknown", "unknownApi"}
    /\ \E status \in {"notFound", "methodNotAllowed"} : Respond(status, None)
    /\ UNCHANGED <<request, finding, principal, item, asking, recorder, event>>

(* The mux sends the client to the clean path, before any handler of the
   pattern runs.                                                            *)
Redirect ==
    /\ stage = "route" /\ form # "canonical"
    /\ Respond("redirect", None)
    /\ UNCHANGED <<request, finding, principal, item, asking, recorder, event>>

(* Fault: a missing authorizer is no obstacle.                              *)
HasAuthorizerAlways == TRUE

HasAuthorizer == "authorizer" \in options

(* Recorder.SetScope, which omits an invalid scope.                         *)
Noting(scope) ==
    IF recorder.on /\ scope # Invalid THEN [recorder EXCEPT !.scope = scope] ELSE recorder

(* authorizeRequest, the one place that asks the authorizer.                *)
AuthorizeRequest(scope, next) ==
    LET noted == Noting(scope)
        Refuse(status, outcome) ==
            /\ Respond(status, None)
            /\ recorder' = IF recorder.on THEN [noted EXCEPT !.outcome = outcome]
                                          ELSE recorder IN
    \/ /\ ~principal
       /\ Refuse("unauthenticated", "unauthenticated")
    \/ /\ principal          \* no authorizer, or it returns an error
       /\ Refuse("securityUnavailable", "security_unavailable")
    \/ /\ principal /\ HasAuthorizer
       /\ scope \notin permitted
       /\ Refuse("denied", "denied")
    \/ /\ principal /\ HasAuthorizer
       /\ scope \in permitted
       /\ Go(next)
       /\ recorder' = noted
       /\ UNCHANGED response

(* authorizationMiddleware, or no authorization at all.                     *)
AuthorizeRoute ==
    /\ stage = "route" /\ form = "canonical" /\ route \in Protected
    /\ IF AuthorizationEnabled
       THEN AuthorizeRequest(asked, "handler")
       ELSE Go("handler") /\ UNCHANGED <<response, recorder>>
    /\ UNCHANGED <<request, finding, principal, item, asking, event>>

(* authorizationPrerequisiteMiddleware: nothing is read for a request that
   could not be authorized whatever it resolves to.                         *)
Prerequisite ==
    /\ stage = "prerequisite"
    /\ IF ~AuthorizationEnabled \/ (principal /\ HasAuthorizer)
       THEN Go("resolve") /\ UNCHANGED <<response, recorder>>
       ELSE IF ~principal
       THEN Note("unauthenticated") /\ Respond("unauthenticated", None)
       ELSE Note("security_unavailable") /\ Respond("securityUnavailable", None)
    /\ UNCHANGED <<request, finding, principal, item, asking, event>>

(* ------------------------------- handlers ------------------------------- *)

ErrorsOf ==
    CASE route = "clusters" -> {}
      [] route = "namespaces" -> {"notFound", "badGateway"}
      [] route = "resource" -> {"invalid", "notFound", "badGateway"}
      [] route = "findings" -> {"invalid", "backendUnavailable", "badGateway"}
      [] route = "summary" -> {"backendUnavailable", "badGateway"}

(* clusters, namespaces, resource, findings, findingSummary: an unknown
   cluster, a bad request or backend error, or data of the scope asked for.
   The lists of clusters and namespaces have no sanitizer; no resource lives
   outside a namespace.                                                     *)
Handle ==
    /\ stage = "handler"
    /\ \/ /\ asked \in {Elsewhere, Invalid}
          /\ Respond("notFound", None)
       \/ /\ asked # Elsewhere
          /\ \E status \in ErrorsOf : Respond(status, None)
       \/ /\ asked # Elsewhere
          /\ route = "resource" => asked \in Namespaces
          /\ IF route \in {"clusters", "namespaces"}
             THEN Respond("ok", asked)
             ELSE Go("sanitize") /\ UNCHANGED response
    /\ UNCHANGED <<request, finding, principal, item, asking, recorder, event>>

(* resolveFinding: one read, whose result serves authorization and response. *)
Resolve ==
    /\ stage = "resolve"
    /\ \/ /\ finding # None
          /\ item' = finding
          /\ Go("deferred")
          /\ UNCHANGED response
       \/ /\ finding = None
          /\ Respond("notFound", None)
          /\ UNCHANGED item
       \/ Respond("badGateway", None) /\ UNCHANGED item
    /\ UNCHANGED <<request, finding, principal, asking, recorder, event>>

(* Fault: the scope is taken from the finding as it is now.                 *)
ScopeOfStored == IF finding = None THEN item ELSE finding

(* findingAuthorizationScope.                                               *)
ScopeOfItem == item

AfterDeferred == IF route = "finding" THEN "sanitize" ELSE "correlate"

AuthorizeFinding ==
    /\ stage = "deferred"
    /\ IF AuthorizationEnabled
       THEN AuthorizeRequest(ScopeOfItem, AfterDeferred)
       ELSE Go(AfterDeferred) /\ UNCHANGED <<response, recorder>>
    /\ UNCHANGED <<request, finding, principal, item, asking, event>>

(* writeCorrelationError: correlation.ErrUnavailable, and anything else.     *)
CorrelationErrors == {"backendUnavailable", "badGateway"}

(* The correlator is asked about the item that was authorized.              *)
Correlate ==
    /\ stage = "correlate"
    /\ asking' = item
    /\ \/ Go("sanitize") /\ UNCHANGED response
       \/ \E status \in CorrelationErrors : Respond(status, None)
    /\ UNCHANGED <<request, finding, principal, item, recorder, event>>

(* The scope of what the backend or the correlator returned.                *)
Loaded ==
    CASE route = "correlation" -> asking
      [] route = "finding" -> item
      [] OTHER -> asked

Sanitize ==
    /\ stage = "sanitize"
    /\ \/ Respond("ok", Loaded)
       \/ Respond("badGateway", None)
    /\ UNCHANGED <<request, finding, principal, item, asking, recorder, event>>

(* --------------------------------- audit -------------------------------- *)

(* 2xx and 3xx are successes.                                               *)
OutcomeForStatus(status) ==
    CASE status \in {"ok", "redirect"} -> "success"
      [] status = "unauthenticated" -> "unauthenticated"
      [] status = "denied" -> "denied"
      [] status = "notFound" -> "not_found"
      [] status \in {"invalid", "methodNotAllowed"} -> "invalid_request"
      [] OTHER -> "backend_error"

(* Fault: the outcome is always derived from the status.                    *)
FinalOutcomeByStatus == OutcomeForStatus(response.status)

(* What a security stage noted takes precedence over the status.            *)
FinalOutcome ==
    IF recorder.outcome = "" THEN OutcomeForStatus(response.status) ELSE recorder.outcome

(* The response is out already; a sink that fails changes nothing.          *)
RecordEvent ==
    /\ stage = "record"
    /\ \/ event' = [status |-> response.status, outcome |-> FinalOutcome,
                    scope |-> recorder.scope]
       \/ UNCHANGED event
    /\ Go("end")
    /\ UNCHANGED <<request, finding, principal, item, asking, response, recorder>>

Next ==
    \/ StartAudit \/ SkipAuthn \/ Authenticate
    \/ Unprotected \/ Unmatched \/ Redirect
    \/ AuthorizeRoute \/ Prerequisite
    \/ Handle \/ Resolve \/ AuthorizeFinding \/ Correlate \/ Sanitize
    \/ RecordEvent
    \/ Rewrite \/ Panic

Spec == Init /\ [][Next]_vars

-----------------------------------------------------------------------------
Events == [status : Statuses, outcome : Outcomes \ {""}, scope : Scopes \cup {None}]

(* Every variable keeps its type; nothing is resolved, asked or loaded that
   the route has no use for; only an audited request has a recorder.        *)
TypeOK ==
    /\ options \subseteq {"authenticator", "authorizer", "sink"}
    /\ permitted \subseteq Scopes
    /\ route \in Routes /\ asked \in ScopesOf(route) /\ form \in Forms
    /\ finding \in Namespaces \cup {Cluster, None}
    /\ stage \in Stages
    /\ principal \in BOOLEAN
    /\ item \in Namespaces \cup {Cluster, None}
    /\ item # None => route \in Deferred
    /\ asking \in {None, item}
    /\ asking # None => route = "correlation"
    /\ response \in [status : Statuses, data : Scopes \cup {Invalid, None}]
    /\ recorder \in [on : BOOLEAN, scope : Scopes \cup {None}, outcome : Outcomes]
    /\ recorder.on => route \in Protected
    /\ recorder.on \/ (recorder.scope = None /\ recorder.outcome = "")
    /\ event \in Events \cup {None}

(* With authorization enabled, data leaves the Portal and the correlator is
   asked only for an authenticated principal and for a scope the authorizer
   permits - the scope the data itself belongs to, although the finding may
   have been rewritten since the request resolved it ("an opaque Finding ID
   is never treated as authorization scope").                               *)
OnlyPermittedData ==
    (AuthorizationEnabled /\ route \in Protected) =>
        \A scope \in {response.data, asking} \ {None} :
            principal /\ "authorizer" \in options /\ scope \in permitted

(* An incomplete security pipeline reads nothing: no finding is resolved and
   no handler runs without a principal and an authorizer, once one of the
   two is configured (fail closed; authorizationPrerequisiteMiddleware).    *)
FailsClosed ==
    (AuthorizationEnabled /\ stage \in {"handler", "resolve", "deferred", "correlate", "sanitize"})
        => principal /\ "authorizer" \in options

(* Nothing leaves, and nothing is read, but behind the whole of the security
   pipeline that is configured.                                             *)
GuardedReads == OnlyPermittedData /\ FailsClosed

(* The audit event tells the truth about the response the client already has.
   Success stands for data or for the redirect of a path that is not clean,
   and a redirect never carries a scope: with authorization enabled an event
   that says success and names a scope is about data of that scope, and all
   data that leave have one.  Denied and unauthenticated stand for 403 and 401,
   a failed security provider is told apart from a failed backend although
   both are 5xx, and a finding that was not found has no scope.  (A redirect
   may be answered before authentication: its event may be a success without
   a principal.)                                                            *)
TruthfulEvent ==
    event # None =>
        /\ event.status = response.status
        /\ event.outcome = "success" <=> response.status \in {"ok", "redirect"}
        /\ response.status = "ok" <=> response.data # None
        /\ event.outcome = "denied" <=> response.status = "denied"
        /\ event.outcome = "unauthenticated" <=> response.status = "unauthenticated"
        /\ event.outcome = "security_unavailable" <=> response.status = "securityUnavailable"
        /\ event.outcome = "backend_error" <=>
              response.status \in {"backendUnavailable", "badGateway"}
        /\ response.status = "redirect" => event.scope = None
        /\ (AuthorizationEnabled /\ response.data # None) => event.scope = response.data
        /\ (AuthorizationEnabled /\ event.outcome = "success" /\ event.scope # None)
              => response.data = event.scope
        /\ (route \in Deferred /\ item = None) => event.scope = None

(* A security decision is final: once a request was refused nothing is read,
   asked or sent for it any more, and only the audit event is still to come
   (every refusal in the middlewares and in authorizeRequest returns).      *)
RefusalIsFinal ==
    [][response.status # "none" =>
          UNCHANGED <<response, principal, item, asking>>]_vars
=============================================================================
