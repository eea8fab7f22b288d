-------------------------------- MODULE Portal --------------------------------
(***************************************************************************)
(* The browser Portal (web/src/app.ts): every route, filter change and     *)
(* retry starts another asynchronous run of PortalApp.route, the runs      *)
(* share the screen and the caches of clusters and namespaces, and their   *)
(* fetches are answered in any order.  A run knows by its generation       *)
(* whether it is still the current one.                                    *)
(*                                                                         *)
(* A view is what a location hash asks for; what is rendered is the view   *)
(* and whether it is loading, a result or an error.                        *)
(***************************************************************************)
EXTENDS Naturals, FiniteSets

CONSTANTS Lists,           \* hashes that ask for a list, one per filter
          Details,         \* hashes that ask for a finding
          Broken,          \* detail hashes decodeURIComponent throws on
          Default,         \* "#/findings"
          Empty,           \* no hash
          MaxGeneration,   \* bound on the runs of route
          MaxMoves         \* bound on the changes of the hash

Hashes == Lists \cup Details \cup Broken
Runs == 1 .. MaxGeneration

ASSUME PortalAssumption ==
    /\ Default \in Lists /\ Empty \notin Hashes
    /\ Lists \cap Details = {} /\ Broken \cap (Lists \cup Details) = {}
    /\ MaxMoves \in Nat /\ MaxGeneration \in Nat
    /\ MaxGeneration >= MaxMoves + 2     \* every queued event finds a run

VARIABLES
    hash,        \* window.location.hash
    events,      \* hashchange events that are queued
    moves,       \* how often the hash was changed
    generation,  \* renderGeneration
    view,        \* [Runs -> the hash a run of route read]
    stage,       \* [Runs -> Stages]
    inflight,    \* fetches under way: which run, what
    cached,      \* the caches that are filled
    screen       \* what is rendered: by which run, which view, in which state

portalVars == <<hash, events, moves, generation, view, stage, inflight, cached, screen>>

Stages == {"idle", "options", "data", "detail", "rejected", "over"}
Cacheable == {"clusters", "namespaces"}
Fetches == [run : Runs, what : Cacheable \cup {"page", "summary", "finding"}]

Loading(g, v) == [run |-> g, view |-> v, state |-> "loading"]

FetchesOf(g) == {f \in inflight : f.run = g}

-----------------------------------------------------------------------------
(* The document is loaded, with or without a hash.                          *)
PortalInit ==
    /\ hash \in Hashes \cup {Empty}
    /\ events = 0 /\ moves = 0
    /\ generation = 0
    /\ view = [g \in Runs |-> Empty]
    /\ stage = [g \in Runs |-> "idle"]
    /\ inflight = {} /\ cached = {}
    /\ screen = [run |-> 0, view |-> Empty, state |-> "blank"]

(* route(): the loading state is rendered and the first fetches are sent in
   the same turn of the event loop.  A hash that does not decode throws after
   the generation was counted up.                                           *)
Route(h) ==
    LET g == generation + 1 IN
    /\ g <= MaxGeneration
    /\ generation' = g
    /\ view' = [view EXCEPT ![g] = h]
    /\ \/ /\ h \in Lists
          /\ stage' = [stage EXCEPT ![g] = "options"]
          /\ inflight' = inflight \cup {[run |-> g, what |-> w] : w \in Cacheable \ cached}
          /\ screen' = Loading(g, h)
       \/ /\ h \in Details
          /\ stage' = [stage EXCEPT ![g] = "detail"]
          /\ inflight' = inflight \cup {[run |-> g, what |-> "finding"]}
          /\ screen' = Loading(g, h)
       \/ /\ h \in Broken
          /\ stage' = [stage EXCEPT ![g] = "over"]
          /\ UNCHANGED <<inflight, screen>>

(* start(): without a hash the default one is set, which queues an event.    *)
StartPortal ==
    /\ generation = 0 /\ events = 0
    /\ hash' = IF hash = Empty THEN Default ELSE hash
    /\ events' = IF hash = Empty THEN 1 ELSE 0
    /\ Route(hash')
    /\ UNCHANGED <<moves, cached>>

(* A link, the address bar, a filter or "clear filters" changes the hash.   *)
Navigate ==
    /\ generation > 0 /\ moves < MaxMoves
    /\ \E h \in Hashes \ {hash} : hash' = h
    /\ events' = events + 1
    /\ moves' = moves + 1
    /\ UNCHANGED <<generation, view, stage, inflight, cached, screen>>

HashChange ==
    /\ events > 0
    /\ events' = events - 1
    /\ Route(hash)
    /\ UNCHANGED <<hash, moves, cached>>

(* The button of the error states.  Runs are kept for the queued events.    *)
Retry ==
    /\ screen.state = "error"
    /\ generation + events + (MaxMoves - moves) < MaxGeneration
    /\ Route(hash)
    /\ UNCHANGED <<hash, events, moves, cached>>

(* A fetch is answered.  The first failure rejects Promise.all; what comes
   later for that run can only fill a cache.                                *)
Answer(f) ==
    /\ f \in inflight
    /\ inflight' = inflight \ {f}
    /\ \/ /\ cached' = cached \cup ({f.what} \cap Cacheable)
          /\ UNCHANGED stage
       \/ /\ stage' = [stage EXCEPT ![f.run] = IF @ = "over" THEN @ ELSE "rejected"]
          /\ UNCHANGED cached
    /\ UNCHANGED <<hash, events, moves, generation, view, screen>>

(* Fault: the generation is not looked at.                                  *)
CurrentAlways(g) == TRUE

Current(g) == g = generation

(* Fault: the hash is read again when the result is there.                  *)
RenderHash(g, state) ==
    IF Current(g) THEN screen' = [run |-> g, view |-> hash, state |-> state]
                  ELSE UNCHANGED screen

Render(g, state) ==
    IF Current(g) THEN screen' = [run |-> g, view |-> view[g], state |-> state]
                  ELSE UNCHANGED screen

(* The continuation after clusters and namespaces.                          *)
OptionsLoaded(g) ==
    /\ stage[g] = "options" /\ FetchesOf(g) = {}
    /\ IF Current(g)
       THEN /\ stage' = [stage EXCEPT ![g] = "data"]
            /\ inflight' = inflight \cup {[run |-> g, what |-> w] : w \in {"page", "summary"}}
       ELSE /\ stage' = [stage EXCEPT ![g] = "over"]
            /\ UNCHANGED inflight
    /\ UNCHANGED <<hash, events, moves, generation, view, cached, screen>>

(* The continuation after page and summary, or after the finding.           *)
ViewLoaded(g) ==
    /\ stage[g] \in {"data", "detail"} /\ FetchesOf(g) = {}
    /\ stage' = [stage EXCEPT ![g] = "over"]
    /\ Render(g, "result")
    /\ UNCHANGED <<hash, events, moves, generation, view, inflight, cached>>

(* Fault: the error is rendered, and the list is loaded all the same.       *)
FailedAndGoOn(g) ==
    /\ stage[g] = "rejected"
    /\ stage' = [stage EXCEPT ![g] = "data"]
    /\ Render(g, "error")
    /\ UNCHANGED <<hash, events, moves, generation, view, inflight, cached>>

(* The catch clause.                                                        *)
Failed(g) ==
    /\ stage[g] = "rejected"
    /\ stage' = [stage EXCEPT ![g] = "over"]
    /\ Render(g, "error")
    /\ UNCHANGED <<hash, events, moves, generation, view, inflight, cached>>

PortalNext ==
    \/ StartPortal \/ Navigate \/ HashChange \/ Retry
    \/ \E f \in inflight : Answer(f)
    \/ \E g \in Runs : OptionsLoaded(g) \/ ViewLoaded(g) \/ Failed(g)

(* The browser dispatches queued events, settles every fetch in the end and
   runs the continuations.  Nothing makes a user navigate or retry.         *)
Fairness ==
    /\ WF_portalVars(StartPortal) /\ WF_portalVars(HashChange)
    /\ \A f \in Fetches : WF_portalVars(Answer(f))
    /\ \A g \in Runs :
           /\ WF_portalVars(OptionsLoaded(g))
           /\ WF_portalVars(ViewLoaded(g)) /\ WF_portalVars(Failed(g))

PortalSpec == PortalInit /\ [][PortalNext]_portalVars /\ Fairness

-----------------------------------------------------------------------------
(* Every variable keeps its type, and what is on the screen is the view of
   the run that rendered it.                                                *)
PortalTypeOK ==
    /\ hash \in Hashes \cup {Empty}
    /\ events \in 0 .. MaxMoves + 1 /\ moves \in 0 .. MaxMoves
    /\ generation \in 0 .. MaxGeneration
    /\ view \in [Runs -> Hashes \cup {Empty}]
    /\ stage \in [Runs -> Stages]
    /\ inflight \subseteq Fetches
    /\ cached \subseteq Cacheable
    /\ screen.run \in 0 .. generation
    /\ screen.state \in {"blank", "loading", "result", "error"}
    /\ screen.run > 0 => screen.view = view[screen.run]
    /\ \A f \in inflight : f.run <= generation
    /\ \A g \in Runs : stage[g] = "idle" <=> g > generation

(* The screen never goes back: a run that was overtaken, however late its
   fetches are answered, changes nothing on the screen ("a render generation
   counter prevents an older asynchronous response from replacing a newer
   filter or route result").                                                *)
NeverBack ==
    [][screen' # screen => screen'.run = generation' /\ screen'.run >= screen.run]_portalVars

(* One run settles the screen once: after its result or its error nothing of
   the same run appears any more, although the other fetches of a rejected
   Promise.all are still answered.                                          *)
SettledOnce ==
    [][(screen.state \in {"result", "error"} /\ screen'.run = screen.run) =>
          screen' = screen]_portalVars

(* The screen only moves on, from run to run and within a run.              *)
ScreenMovesOn == NeverBack /\ SettledOnce

(* When the user stops, the screen ends at the view the hash asks for, as a
   result or an error and not in the loading state, whatever the older runs
   still do.  A hash that does not decode shows nothing of its own.         *)
SettlesOnHash ==
    <>[](/\ events = 0
         /\ hash \notin Broken =>
               screen.view = hash /\ screen.state \in {"result", "error"})
===============================================================================
