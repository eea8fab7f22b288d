------------------------------ MODULE ApiServer ------------------------------
(***************************************************************************)
(* The process kube-aiops-api (cmd/api): it reads its environment          *)
(* (internal/config), composes the security pipeline or refuses to start   *)
(* (cmd/api/security.go, internal/security), serves requests, and stops on *)
(* a signal or when its listener fails.  What a request does while it is   *)
(* served is RequestPipeline, its audit event is added in AuditedServer.   *)
(*                                                                         *)
(* Time is counted from the signal.  net/http and the kubelet are external.*)
(***************************************************************************)
EXTENDS Naturals

CONSTANTS
    Requests,           \* connections that may bring a request of a protected route
    ShutdownTimeout,    \* of server.Shutdown, 10 s
    Grace               \* terminationGracePeriodSeconds of the Deployment, 15 s

Components == {"authenticator", "authorizer", "audit_sink", "sanitizer"}

ASSUME ApiServerAssumption ==
    /\ ShutdownTimeout \in Nat /\ Grace \in Nat
    /\ ShutdownTimeout < Grace

VARIABLES
    securityMode,   \* SECURITY_MODE after trimming and lower-casing
    readyTimeout,   \* READY_TIMEOUT
    bundle,         \* the components a build supplies
    phase,          \* "load", "build", "run", "shutdown", "exited"
    code,           \* how the process ended
    pipeline,       \* the components the handler was given
    listening,      \* does the server accept connections
    told,           \* has a signal come
    waited,         \* the time since
    request         \* what became of each request

environment == <<securityMode, readyTimeout, bundle>>
process == <<phase, code, pipeline, listening>>
serverVars == <<environment, process, told, waited, request>>

Phases == {"load", "build", "run", "shutdown", "exited"}
Codes == {"none", "ok", "error", "signal", "killed"}
Values == {"absent", "typedNil", "given"}
Fates == {"none", "connected", "closed", "open", "audited", "answered", "panicked", "cut"}

(* The process starts with any environment and any bundle a build supplies;
   defaultProductionBundle is the one without providers.                    *)
ServerInit ==
    /\ securityMode \in {"", "development", "production", "other"}
    /\ readyTimeout \in {"", "positive", "zero", "malformed"}
    /\ bundle \in [Components -> Values]
    /\ phase = "load"
    /\ code = "none"
    /\ pipeline = {}
    /\ listening = FALSE
    /\ told = FALSE
    /\ waited = 0
    /\ request = [r \in Requests |-> "none"]

(* What is under way when the process ends is cut off.                      *)
Cut == [r \in Requests |-> IF request[r] = "open" THEN "cut"
                           ELSE IF request[r] = "connected" THEN "closed"
                           ELSE request[r]]

Exit(result) ==
    /\ phase' = "exited"
    /\ code' = result
    /\ listening' = FALSE
    /\ request' = Cut
    /\ UNCHANGED <<environment, pipeline>>

-----------------------------------------------------------------------------
(* getenv falls back to production.                                         *)
Mode == IF securityMode = "" THEN "production" ELSE securityMode

Loadable == Mode # "other" /\ readyTimeout \notin {"zero", "malformed"}

(* Fault: a configuration error is reported and main goes on.               *)
LoadAndGoOn ==
    /\ phase = "load"
    /\ phase' = "build"
    /\ code' = IF Loadable THEN code ELSE "error"
    /\ UNCHANGED <<environment, pipeline, listening, told, waited, request>>

(* config.Load.                                                             *)
Load ==
    /\ phase = "load"
    /\ IF Loadable
       THEN /\ phase' = "build"
            /\ UNCHANGED <<environment, code, pipeline, listening, request>>
       ELSE Exit("error")
    /\ UNCHANGED <<told, waited>>

(* Fault: only an untyped nil counts as a missing component.                *)
UsableUntyped(component) == bundle[component] # "absent"

(* isNilComponent.                                                          *)
Usable(component) == bundle[component] = "given"

(* ValidateForProduction.                                                   *)
Complete == \A component \in Components : Usable(component)

(* buildHandler and signal.NotifyContext; a development handler gets none of
   the bundle.                                                              *)
Build ==
    /\ phase = "build"
    /\ IF Mode = "development" \/ Complete
       THEN /\ phase' = "run"
            /\ pipeline' = IF Mode = "production" THEN Components ELSE {}
            /\ UNCHANGED <<environment, code, listening, request>>
       ELSE Exit("error")
    /\ UNCHANGED <<told, waited>>

(* ListenAndServe in its goroutine, which fails at once or later; then the
   process ends without a shutdown.                                         *)
Listen ==
    /\ phase = "run" /\ ~listening
    /\ listening' = TRUE
    /\ UNCHANGED <<environment, phase, code, pipeline, told, waited, request>>

ListenerFails ==
    /\ phase = "run"
    /\ Exit("error")
    /\ UNCHANGED <<told, waited>>

(* SIGINT or SIGTERM.  Before NotifyContext it ends the process; any further
   one changes nothing, because stop() is deferred to the end of main.      *)
Signal ==
    /\ phase # "exited" /\ ~told
    /\ told' = TRUE
    /\ IF phase \in {"load", "build"}
       THEN Exit("signal")
       ELSE UNCHANGED <<environment, process, request>>
    /\ UNCHANGED waited

(* Fault: the signal is waited for only once the server listens.            *)
StartShutdownListening ==
    /\ phase = "run" /\ told /\ listening
    /\ phase' = "shutdown"
    /\ listening' = FALSE
    /\ UNCHANGED <<environment, code, pipeline, told, waited, request>>

(* Shutdown closes the listener; a server that does not listen yet will not.*)
StartShutdown ==
    /\ phase = "run" /\ told
    /\ phase' = "shutdown"
    /\ listening' = FALSE
    /\ UNCHANGED <<environment, code, pipeline, told, waited, request>>

(* Fault: the server is closed without waiting for its requests.            *)
IdleAlways == TRUE

Idle == \A r \in Requests : request[r] \notin {"connected", "open"}

ShutdownDone ==
    /\ phase = "shutdown"
    /\ Idle
    /\ Exit("ok")
    /\ UNCHANGED <<told, waited>>

(* Fault: Shutdown is given a context without a deadline.                   *)
OverdueNever == FALSE

Overdue == waited >= ShutdownTimeout

ShutdownFails ==
    /\ phase = "shutdown"
    /\ Overdue
    /\ Exit("error")
    /\ UNCHANGED <<told, waited>>

-----------------------------------------------------------------------------
Become(r, fate) == request' = [request EXCEPT ![r] = fate]

(* A connection; its request may begin after the listener is closed.        *)
Connect(r) ==
    /\ listening /\ request[r] = "none"
    /\ Become(r, "connected")
    /\ UNCHANGED <<environment, process, told, waited>>

Begin(r) ==
    /\ phase \in {"run", "shutdown"} /\ request[r] = "connected"
    /\ Become(r, "open")
    /\ UNCHANGED <<environment, process, told, waited>>

(* An idle connection is closed, by its timeout or by Shutdown.             *)
CloseIdle(r) ==
    /\ phase \in {"run", "shutdown"} /\ request[r] = "connected"
    /\ Become(r, "closed")
    /\ UNCHANGED <<environment, process, told, waited>>

(* The handlers return; with an audit middleware the last of them hands an
   event over.  Nothing bounds how long a handler takes.                    *)
Answer(r) ==
    /\ phase \in {"run", "shutdown"} /\ request[r] = "open"
    /\ Become(r, IF "audit_sink" \in pipeline THEN "audited" ELSE "answered")
    /\ UNCHANGED <<environment, process, told, waited>>

(* A panic passes all middlewares and ends in net/http.                     *)
Panics(r) ==
    /\ phase \in {"run", "shutdown"} /\ request[r] = "open"
    /\ Become(r, "panicked")
    /\ UNCHANGED <<environment, process, told, waited>>

(* The main goroutine and its timer are prompt: time does not pass before a
   signal is taken up or after the deadline of Shutdown.                    *)
Tick ==
    /\ told /\ phase # "exited"
    /\ ~(phase = "run")
    /\ ~(phase = "shutdown" /\ Overdue)
    /\ waited < Grace
    /\ waited' = waited + 1
    /\ UNCHANGED <<environment, process, told, request>>

(* SIGKILL: out of memory, a lost node, or a container that outlasts its
   grace period.                                                            *)
Killed ==
    /\ phase # "exited"
    /\ Exit("killed")
    /\ UNCHANGED <<told, waited>>

Main == Load \/ Build \/ StartShutdown \/ ShutdownDone \/ ShutdownFails

Process == Main \/ Listen \/ ListenerFails \/ Signal \/ Tick \/ Killed

Connection(r) == Connect(r) \/ Begin(r) \/ CloseIdle(r)

ServerNext == Process \/ \E r \in Requests : Connection(r) \/ Answer(r) \/ Panics(r)

(* The main goroutine runs and time passes; handlers, clients and the
   listener promise nothing.                                                *)
ServerSpec ==
    ServerInit /\ [][ServerNext]_serverVars /\ WF_serverVars(Main) /\ WF_serverVars(Tick)

-----------------------------------------------------------------------------
(* Every variable keeps its type; an ended process has no request under way.*)
ServerTypeOK ==
    /\ bundle \in [Components -> Values]
    /\ phase \in Phases /\ code \in Codes
    /\ phase = "exited" <=> code # "none"
    /\ pipeline \subseteq Components
    /\ listening \in BOOLEAN /\ told \in BOOLEAN
    /\ waited \in 0 .. Grace
    /\ request \in [Requests -> Fates]
    /\ phase = "exited" => \A r \in Requests : request[r] \notin {"connected", "open"}

(* A process that was not asked for development mode, by a typing error, a
   missing variable or on purpose, serves requests only behind all four
   components, none of which is a typed nil that would panic when used
   (TestBuildHandlerProductionAcceptsOnlyCompleteBundle).                   *)
ProductionGuarded ==
    \A r \in Requests :
        (securityMode # "development" /\ request[r] # "none") =>
            \A c \in Components : c \in pipeline /\ bundle[c] = "given"

(* The process ends by itself before the kubelet kills it, whatever its
   handlers do (the deadline of Shutdown against
   terminationGracePeriodSeconds of deploy/api/deployment.yaml).            *)
EndsItself == (told /\ phase # "exited") => waited < Grace

(* A process that was told to stop stops, also when a handler never returns
   and whenever the signal came.                                            *)
StopsWhenTold == told ~> phase = "exited"
=============================================================================
