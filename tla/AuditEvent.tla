----------------------------- MODULE AuditEvent -----------------------------
(***************************************************************************)
(* What becomes of the audit event of one request of a protected route, in *)
(* a server with an identity provider and an authorizer. An event that its *)
(* own validation refuses is dropped with a warning, so whatever puts      *)
(* something into it has to agree with that validation: the request        *)
(* metadata (httpapi/request_context.go), the principal                    *)
(* (identity/principal.go), the scope (authorization/model.go, which the   *)
(* recorder checks again), the status and the latency. Each of them has    *)
(* bounds of its own. RequestPipeline models when an event is due and what *)
(* it says.                                                                *)
(*                                                                         *)
(* A text is its length in bytes and its kind: "plain" may be an ID,       *)
(* "clean" is trimmed and has no control characters, "dirty" is the rest.  *)
(***************************************************************************)
EXTENDS Integers

CONSTANTS
    MaxIDLength, GeneratedIDLength,           \* httpapi
    MaxSubjectLength, MaxProviderLength,      \* identity
    MaxScopeLength,                           \* authorization
    EventIDLength, EventPrincipalLength, EventProviderLength,
    EventScopeLength, EventLatency,           \* audit
    Lengths, Latencies

ASSUME AuditAssumption ==
    /\ MaxIDLength \in Nat /\ GeneratedIDLength \in Nat \ {0}
    /\ MaxSubjectLength \in Nat /\ MaxProviderLength \in Nat /\ MaxScopeLength \in Nat
    /\ EventIDLength \in Nat /\ EventPrincipalLength \in Nat
    /\ EventProviderLength \in Nat /\ EventScopeLength \in Nat /\ EventLatency \in Nat
    /\ 0 \in Lengths /\ Lengths \subseteq Nat
    /\ Latencies \subseteq Int

(* The bounds agree: what one package lets pass the audit package takes.    *)
ASSUME BoundsAgree ==
    /\ MaxIDLength <= EventIDLength /\ GeneratedIDLength <= EventIDLength
    /\ MaxSubjectLength <= EventPrincipalLength
    /\ MaxProviderLength <= EventProviderLength
    /\ MaxScopeLength <= EventScopeLength

Texts == {t \in [length : Lengths, kind : {"plain", "clean", "dirty"}] :
              t.length = 0 => t.kind = "clean"}
Empty == [length |-> 0, kind |-> "clean"]
Generated == [length |-> GeneratedIDLength, kind |-> "plain"]

Outcomes == {"", "success", "unauthenticated", "denied", "security_unavailable",
             "not_found", "invalid_request", "backend_error"}
Statuses == {200, 307, 400, 401, 403, 404, 502, 503}

VARIABLES
    stage,          \* "metadata", "authn", "authz", "handler", "record", "end"
    requestID, correlationID,
    subject, provider, cluster, namespace, outcome,    \* the Recorder
    status,         \* of the response
    delivery        \* "", "recorded", "invalid_event", "sink_error"

recorder == <<subject, provider, cluster, namespace, outcome>>
auditVars == <<stage, requestID, correlationID, recorder, status, delivery>>

AuditInit ==
    /\ stage = "metadata"
    /\ requestID = Empty /\ correlationID = Empty
    /\ subject = Empty /\ provider = Empty /\ cluster = Empty /\ namespace = Empty
    /\ outcome = ""
    /\ status = 200
    /\ delivery = ""

-----------------------------------------------------------------------------
(* validRequestMetadataID.                                                  *)
ValidID(text) == text.length > 0 /\ text.length <= MaxIDLength /\ text.kind = "plain"

(* Headers come from the client; a correlation ID that cannot be used is
   replaced by the request ID.                                              *)
Metadata ==
    /\ stage = "metadata"
    /\ \E id \in Texts, correlation \in Texts :
           /\ requestID' = IF ValidID(id) THEN id ELSE Generated
           /\ correlationID' = IF ValidID(correlation) THEN correlation ELSE requestID'
    /\ stage' = "authn"
    /\ UNCHANGED <<recorder, status, delivery>>

(* validateRequiredValue.                                                   *)
Required(text, max) == text.length > 0 /\ text.length <= max /\ text.kind # "dirty"

(* Fault: only the subject of a principal is validated.                     *)
ValidPrincipalSubject(s, p) == Required(s, MaxSubjectLength)

(* Principal.Validate; display name and groups do not reach the event.      *)
ValidPrincipal(s, p) == Required(s, MaxSubjectLength) /\ Required(p, MaxProviderLength)

Refuse(answer, result) ==
    /\ status' = answer
    /\ outcome' = result
    /\ stage' = "record"
    /\ UNCHANGED <<cluster, namespace>>

(* An identity provider may return anything, or fail.                       *)
Authenticate ==
    /\ stage = "authn"
    /\ \/ /\ \E s \in Texts, p \in Texts :
               IF ValidPrincipal(s, p)
               THEN /\ subject' = s /\ provider' = p
                    /\ stage' = "authz"
                    /\ UNCHANGED <<cluster, namespace, outcome, status>>
               ELSE /\ Refuse(503, "security_unavailable")
                    /\ UNCHANGED <<subject, provider>>
       \/ Refuse(401, "unauthenticated") /\ UNCHANGED <<subject, provider>>
       \/ Refuse(503, "security_unavailable") /\ UNCHANGED <<subject, provider>>
    /\ UNCHANGED <<requestID, correlationID, delivery>>

(* Scope.Validate.                                                          *)
ValidScope(c, n) ==
    Required(c, MaxScopeLength) /\ (n.length = 0 \/ Required(n, MaxScopeLength))

(* The scope comes from the path, the query or the finding; SetScope omits
   one that is not valid.  A finding that cannot be read has no scope, and
   its handler answers without a decision.                                  *)
Authorize ==
    /\ stage = "authz"
    /\ \/ \E c \in Texts, n \in Texts :
             /\ IF ValidScope(c, n) THEN cluster' = c /\ namespace' = n
                                    ELSE UNCHANGED <<cluster, namespace>>
             /\ \/ stage' = "handler" /\ UNCHANGED <<outcome, status>>
                \/ status' = 403 /\ outcome' = "denied" /\ stage' = "record"
                \/ /\ status' = 503 /\ outcome' = "security_unavailable"
                   /\ stage' = "record"
       \/ /\ status' \in {404, 502} /\ stage' = "record"
          /\ UNCHANGED <<cluster, namespace, outcome>>
    /\ UNCHANGED <<requestID, correlationID, subject, provider, delivery>>

(* A path that is not clean is redirected by the mux, before any decision;
   one that is not written below /api/v1 even before authentication.         *)
Redirect ==
    /\ stage \in {"authn", "authz"}
    /\ status' = 307 /\ stage' = "record"
    /\ UNCHANGED <<requestID, correlationID, recorder, delivery>>

Handle ==
    /\ stage = "handler"
    /\ status' \in {200, 400, 404, 502, 503}
    /\ stage' = "record"
    /\ UNCHANGED <<requestID, correlationID, recorder, delivery>>

-----------------------------------------------------------------------------
(* auditOutcomeForStatus.                                                   *)
OutcomeForStatus ==
    CASE status >= 200 /\ status < 400 -> "success"
      [] status = 401 -> "unauthenticated"
      [] status = 403 -> "denied"
      [] status = 404 -> "not_found"
      [] status >= 400 /\ status < 500 -> "invalid_request"
      [] OTHER -> "backend_error"

(* Fault: a latency is passed on as it was measured.                        *)
ClampedNot(latency) == latency

(* Recorder.Event: a request may take longer than an event may say.         *)
Clamped(latency) ==
    IF latency < 0 THEN 0 ELSE IF latency > EventLatency THEN EventLatency ELSE latency

(* validateBoundedText.                                                     *)
Bounded(text, max) == text.length = 0 \/ (text.kind # "dirty" /\ text.length <= max)

(* Event.Validate.                                                          *)
ValidEvent(latency) ==
    /\ requestID.length > 0 /\ Bounded(requestID, EventIDLength)
    /\ correlationID.length > 0 /\ Bounded(correlationID, EventIDLength)
    /\ outcome' \in Outcomes \ {""}
    /\ subject.length = 0 <=> provider.length = 0
    /\ Bounded(subject, EventPrincipalLength) /\ Bounded(provider, EventProviderLength)
    /\ namespace.length > 0 => cluster.length > 0
    /\ Bounded(cluster, EventScopeLength) /\ Bounded(namespace, EventScopeLength)
    /\ status \in 100 .. 599
    /\ latency \in 0 .. EventLatency

(* The end of auditMiddleware.                                              *)
Record ==
    /\ stage = "record"
    /\ outcome' = IF outcome = "" THEN OutcomeForStatus ELSE outcome
    /\ \E latency \in Latencies :
           IF ValidEvent(Clamped(latency))
           THEN delivery' \in {"recorded", "sink_error"}
           ELSE delivery' = "invalid_event"
    /\ stage' = "end"
    /\ UNCHANGED <<requestID, correlationID, subject, provider, cluster, namespace, status>>

AuditNext == Metadata \/ Authenticate \/ Authorize \/ Redirect \/ Handle \/ Record

AuditSpec == AuditInit /\ [][AuditNext]_auditVars

-----------------------------------------------------------------------------
IDs == {t \in Texts : ValidID(t)} \cup {Empty, Generated}

CleanTexts(max) == {t \in Texts : t.kind # "dirty" /\ t.length <= max}

IDsGiven == stage # "metadata" => requestID.length > 0 /\ correlationID.length > 0

PrincipalOK ==
    /\ subject \in CleanTexts(MaxSubjectLength) /\ provider \in CleanTexts(MaxProviderLength)
    /\ subject.length = 0 <=> provider.length = 0

ScopeOK ==
    /\ cluster \in CleanTexts(MaxScopeLength) /\ namespace \in CleanTexts(MaxScopeLength)
    /\ namespace.length > 0 => cluster.length > 0

(* Every variable keeps its type; the recorder holds a principal and a scope
   as a whole or not at all, and only clean texts of bounded length.        *)
AuditTypeOK ==
    /\ stage \in {"metadata", "authn", "authz", "handler", "record", "end"}
    /\ requestID \in IDs /\ correlationID \in IDs
    /\ IDsGiven
    /\ PrincipalOK
    /\ ScopeOK
    /\ outcome \in Outcomes
    /\ status \in Statuses
    /\ delivery \in {"", "recorded", "invalid_event", "sink_error"}

(* No protected request goes unrecorded because its event is not valid,
   whatever the client sends, the identity provider returns and the finding
   is about: the bounds of four packages agree.                             *)
NeverInvalid == delivery # "invalid_event"
=============================================================================
