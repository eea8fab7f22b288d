--------------------------- MODULE AuditedServer ---------------------------
(***************************************************************************)
(* The process (ApiServer) together with what becomes of the audit event of *)
(* one of its requests (AuditEvent): the middlewares of that request take  *)
(* their steps between the steps of the process, which may be told to stop, *)
(* or be killed, before any of them.                                       *)
(***************************************************************************)
EXTENDS ApiServer, AuditEvent

CONSTANT Watched    \* the request whose event is followed

ASSUME WatchedAssumption == Watched \in Requests

vars == <<serverVars, auditVars>>

Init == ServerInit /\ AuditInit

Audited == "audit_sink" \in pipeline

(* Fault: the middleware lets the answer go before it hands the event over. *)
MayAnswerBefore(r) == r = Watched => (Audited => stage \in {"record", "end"})

(* Only the end of the audit middleware ends an audited request.            *)
MayAnswer(r) == r = Watched => (Audited => stage = "end")

(* The event is handed over after the handler returned, not in a defer.     *)
MayPanic(r) == r = Watched => stage # "end"

ServerStep ==
    /\ \/ Process
       \/ \E r \in Requests :
             \/ Connection(r)
             \/ MayAnswer(r) /\ Answer(r)
             \/ MayPanic(r) /\ Panics(r)
    /\ UNCHANGED auditVars

AuditStep ==
    /\ Audited
    /\ phase \in {"run", "shutdown"} /\ request[Watched] = "open"
    /\ AuditNext
    /\ UNCHANGED serverVars

Next == ServerStep \/ AuditStep

(* The main goroutine runs and time passes; handlers, clients, providers and
   the sink promise nothing.                                                *)
Spec ==
    /\ Init /\ [][Next]_vars
    /\ WF_vars(Main /\ UNCHANGED auditVars)
    /\ WF_vars(Tick /\ UNCHANGED auditVars)

-----------------------------------------------------------------------------
(* Every variable of the two keeps its type, an ended process has no request
   under way, and the recorder of the watched one holds clean texts only.   *)
TypeOK == ServerTypeOK /\ AuditTypeOK

(* A process that was told to stop ends by itself, in time, and surely.     *)
StopsInTime == []EndsItself /\ StopsWhenTold

(* Exit status 0 means that no request was cut off, and in production that
   the event of each one, unless its handler panicked, was taken by the audit
   sink or refused by it: no access goes unrecorded because the process was
   told to stop.                                                            *)
CleanExit ==
    code = "ok" =>
        /\ \A r \in Requests :
               request[r] \in {"none", "closed", "audited", "panicked"}
                   \cup (IF securityMode = "development" THEN {"answered"} ELSE {})
        /\ request[Watched] = "audited" => delivery \in {"recorded", "sink_error"}
=============================================================================
