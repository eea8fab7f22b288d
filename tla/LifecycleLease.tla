--------------------------- MODULE LifecycleLease ---------------------------
(***************************************************************************)
(* The Kubernetes Lease that install.sh and uninstall.sh take before they  *)
(* change the cluster (scripts/lifecycle-common.sh): create or compare-    *)
(* and-swap on resourceVersion, a heartbeat subshell that renews, a        *)
(* check before every block of mutating calls, a compare-and-swap release. *)
(*                                                                         *)
(* Every kubectl write may fail, may take effect although its reply is     *)
(* lost, and may take effect after its sender gave it up.  A shell may be  *)
(* killed, or terminated so that its EXIT trap runs; the kubectl or helm   *)
(* call it was making, and its heartbeat subshell, may outlive it.  Each   *)
(* operation reads its own clock.                                          *)
(***************************************************************************)
EXTENDS Integers, FiniteSets

CONSTANTS
    Ops,            \* lifecycle operations, each with its own OPERATION_ID
    None,           \* the empty holderIdentity
    Duration,       \* LEASE_DURATION_SECONDS
    RenewInterval,  \* LEASE_RENEW_INTERVAL_SECONDS
    RenewLag,       \* assumed: while nothing failed renewTime is this fresh
    BlockMax,       \* assumed: a mutating block ends this long after its check
    Skew,           \* [Ops -> Nat], how far a client clock is ahead
    Signals,        \* the signals a shell may get, among "TERM" and "KILL"
    MaxTime,        \* bound on time
    MaxRv,          \* bound on resourceVersion
    MaxStrays       \* bound on requests under way without a sender

(* install.sh and uninstall.sh refuse an interval that is not below the
   duration; nothing relates the length of a block to either.               *)
ASSUME LeaseAssumption ==
    /\ None \notin Ops
    /\ Duration \in Nat /\ RenewInterval \in Nat \ {0}
    /\ RenewInterval < Duration
    /\ RenewLag \in Nat /\ RenewInterval <= RenewLag
    /\ BlockMax \in Nat
    /\ Skew \in [Ops -> Nat]
    /\ Signals \subseteq {"TERM", "KILL"}
    /\ MaxTime \in Nat \ {0} /\ MaxRv \in Nat /\ MaxStrays \in Nat

VARIABLES
    now,        \* true time
    lease,      \* the Lease object in the API server
    pc,         \* where each operation's main shell is
    busy,       \* operations with a mutating block under way
    stamp,      \* when an operation took the date for its next create or patch
    view,       \* the resourceVersion an operation's last read returned
    hb,         \* the heartbeat subshell
    hbStamp,    \* when the heartbeat took the date it is about to write
    hbView,     \* the resourceVersion the heartbeat read
    renewed,    \* when the date of an operation's last known renewal was taken
    since,      \* when an operation last passed its check, or began to release
    strays      \* writes that may still reach the API server

opVars == <<stamp, view>>
hbVars == <<hb, hbStamp, hbView, renewed>>
vars == <<now, lease, pc, busy, opVars, hbVars, since, strays>>

Ended == {"gaveUp", "released", "unreleased", "killed"}
Places == {"head", "create", "read", "patch", "held", "relPatch"} \cup Ended
HeartbeatStates == {"off", "sleep", "patch", "failed"}

Clock(p) == now + Skew[p]

NoLease == [holder |-> None, renew |-> 0, duration |-> 0, rv |-> 0]

Leases == [holder : Ops \cup {None}, renew : Nat, duration : Nat, rv : Nat]

(* The Lease exists once it has a resourceVersion; nothing deletes it while
   the Namespace is there.                                                  *)
Present == lease.rv > 0

(* A write that the server performs only if the lease still has the
   resourceVersion its sender saw (0: there is no lease).                   *)
Writes == [op : Ops, kind : {"acquire", "renew", "release"}, rv : Nat, renew : Nat]

(* Fault: the release clears the holder and nothing else.                   *)
WrittenHolderOnly(w) ==
    [holder |-> IF w.kind = "release" THEN None ELSE w.op,
     renew |-> IF w.kind = "release" THEN lease.renew ELSE w.renew,
     duration |-> Duration, rv |-> lease.rv + 1]

Written(w) ==
    [holder |-> IF w.kind = "release" THEN None ELSE w.op,
     renew |-> IF w.kind = "release" THEN 0 ELSE w.renew,
     duration |-> IF w.kind = "release" THEN 1 ELSE Duration,
     rv |-> lease.rv + 1]

(* Fault: the patch that acquires does not test resourceVersion.            *)
ApplicableBlind(w) ==
    /\ w.kind = "acquire" \/ (lease.rv = w.rv /\ lease.holder = w.op)
    /\ lease.rv < MaxRv

(* The JSON Patch tests resourceVersion, and the holder unless it acquires. *)
Applicable(w) ==
    /\ lease.rv = w.rv
    /\ w.kind # "acquire" => lease.holder = w.op
    /\ lease.rv < MaxRv

Succeeds(w) == Applicable(w) /\ lease' = Written(w) /\ UNCHANGED strays

(* The sender is gone or given up; one of its writes may still arrive.      *)
Abandoned(ws) ==
    \/ UNCHANGED <<lease, strays>>
    \/ /\ Cardinality(strays) < MaxStrays
       /\ \E w \in ws : strays' = strays \cup {w}
       /\ UNCHANGED lease

(* To its sender a write that took effect and lost its reply looks like one
   that did not, or has not yet.                                            *)
Fails(w) == Succeeds(w) \/ Abandoned({w})

(* The readers of lc_acquire_lock and lc_assert_lock_held.                  *)
ExpiredFor(p) ==
    lease.duration = 0 \/ Clock(p) - lease.renew >= lease.duration

ValidFor(p) ==
    /\ Present /\ lease.holder = p
    /\ lease.duration > 0 /\ Clock(p) - lease.renew < lease.duration

-----------------------------------------------------------------------------
Init ==
    /\ now = 1
    /\ lease = NoLease
    /\ pc = [p \in Ops |-> "head"]
    /\ busy = {}
    /\ stamp = [p \in Ops |-> 0] /\ view = [p \in Ops |-> 0]
    /\ hb = [p \in Ops |-> "off"]
    /\ hbStamp = [p \in Ops |-> 0] /\ hbView = [p \in Ops |-> 0]
    /\ renewed = [p \in Ops |-> 0]
    /\ since = [p \in Ops |-> 0]
    /\ strays = {}

(* A local variable that nobody reads again is reset.                       *)
Go(p, place) == pc' = [pc EXCEPT ![p] = place]
ForgetAttempt(p) ==
    /\ stamp' = [stamp EXCEPT ![p] = 0]
    /\ view' = [view EXCEPT ![p] = 0]
ForgetRenewal(p) ==
    /\ hbStamp' = [hbStamp EXCEPT ![p] = 0]
    /\ hbView' = [hbView EXCEPT ![p] = 0]

(* ------------------------------ lc_acquire_lock ------------------------- *)

(* The head of the loop: take a date, or find the deadline passed.          *)
TakeDate(p) ==
    /\ pc[p] = "head"
    /\ Go(p, "create")
    /\ stamp' = [stamp EXCEPT ![p] = now]
    /\ UNCHANGED <<now, lease, busy, view, hbVars, since, strays>>

GiveUp(p) ==
    /\ pc[p] = "head"
    /\ Go(p, "gaveUp")
    /\ UNCHANGED <<now, lease, busy, opVars, hbVars, since, strays>>

(* The lock is taken and the heartbeat started.                             *)
Hold(p) ==
    /\ Go(p, "held")
    /\ hb' = [hb EXCEPT ![p] = "sleep"]
    /\ renewed' = [renewed EXCEPT ![p] = stamp[p]]
    /\ ForgetAttempt(p)
    /\ UNCHANGED <<now, busy, hbStamp, hbView, since>>

Acquisition(p, rv) ==
    [op |-> p, kind |-> "acquire", rv |-> rv, renew |-> stamp[p] + Skew[p]]

Create(p) ==
    /\ pc[p] = "create"
    /\ \/ Succeeds(Acquisition(p, 0)) /\ Hold(p)
       \/ /\ Fails(Acquisition(p, 0))
          /\ Go(p, "read")
          /\ UNCHANGED <<now, busy, opVars, hbVars, since>>

(* Fault: the reader does not look at the dates.                            *)
MayTakeAlways(p) == TRUE

(* The lease may be taken if it is expired on the reader's clock, or if its
   holder is the reader: an earlier write of its own took effect.           *)
MayTake(p) == ExpiredFor(p) \/ lease.holder = p

Read(p) ==
    /\ pc[p] = "read"
    /\ \/ /\ Present /\ MayTake(p)
          /\ Go(p, "patch")
          /\ view' = [view EXCEPT ![p] = lease.rv]
          /\ UNCHANGED stamp
       \/ /\ Present /\ ~MayTake(p)
          /\ Go(p, "head") /\ ForgetAttempt(p)
       \/ Go(p, "gaveUp") /\ ForgetAttempt(p)
    /\ UNCHANGED <<now, lease, busy, hbVars, since, strays>>

Patch(p) ==
    /\ pc[p] = "patch"
    /\ \/ Succeeds(Acquisition(p, view[p])) /\ Hold(p)
       \/ /\ Fails(Acquisition(p, view[p]))
          /\ Go(p, "head") /\ ForgetAttempt(p)
          /\ UNCHANGED <<now, busy, hbVars, since>>

(* ------------------------------- heartbeat ------------------------------ *)

(* lc_renew_lock reads the lease and takes a date; a failed read or another
   holder ends the heartbeat, which raises its flag.                        *)
HeartbeatRead(p) ==
    /\ hb[p] = "sleep"
    /\ now - renewed[p] >= RenewInterval
    /\ \/ /\ Present /\ lease.holder = p
          /\ hb' = [hb EXCEPT ![p] = "patch"]
          /\ hbView' = [hbView EXCEPT ![p] = lease.rv]
          /\ hbStamp' = [hbStamp EXCEPT ![p] = now]
       \/ /\ hb' = [hb EXCEPT ![p] = "failed"]
          /\ UNCHANGED <<hbView, hbStamp>>
    /\ UNCHANGED <<now, lease, pc, busy, opVars, renewed, since, strays>>

Renewal(p) ==
    [op |-> p, kind |-> "renew", rv |-> hbView[p], renew |-> hbStamp[p] + Skew[p]]

HeartbeatPatch(p) ==
    /\ hb[p] = "patch"
    /\ \/ /\ Succeeds(Renewal(p))
          /\ hb' = [hb EXCEPT ![p] = "sleep"]
          /\ renewed' = [renewed EXCEPT ![p] = hbStamp[p]]
       \/ /\ Fails(Renewal(p))
          /\ hb' = [hb EXCEPT ![p] = "failed"]
          /\ UNCHANGED renewed
    /\ ForgetRenewal(p)
    /\ UNCHANGED <<now, pc, busy, opVars, since>>

RenewalsOf(p) == IF hb[p] = "patch" THEN {Renewal(p)} ELSE {}

(* Fault: lc_release_lock does not stop the heartbeat first.                *)
StopHeartbeatNot(p) == UNCHANGED <<lease, strays, hbVars>>

(* The subshell is killed; the renewal it was making goes on.               *)
StopHeartbeat(p) ==
    /\ Abandoned(RenewalsOf(p))
    /\ hb' = [hb EXCEPT ![p] = "off"]
    /\ renewed' = [renewed EXCEPT ![p] = 0]
    /\ ForgetRenewal(p)

(* --------------------- lc_assert_lock_held and its block ---------------- *)

(* Fault: the check compares the holder only.                               *)
CheckHolderOnly(p) == Present /\ lease.holder = p

Check(p) == hb[p] # "failed" /\ ValidFor(p)

StartBlock(p) ==
    /\ pc[p] = "held" /\ p \notin busy
    /\ Check(p)
    /\ busy' = busy \cup {p}
    /\ since' = [since EXCEPT ![p] = now]
    /\ UNCHANGED <<now, lease, pc, opVars, hbVars, strays>>

EndBlock(p) ==
    /\ p \in busy
    /\ busy' = busy \ {p}
    /\ UNCHANGED <<now, lease, pc, opVars, hbVars, since, strays>>

(* ------------------------------ lc_release_lock ------------------------- *)

(* on_exit: stop the heartbeat and read the lease once more.                *)
BeginRelease(p) ==
    /\ StopHeartbeat(p)
    /\ since' = [since EXCEPT ![p] = now]
    /\ \/ /\ Present /\ lease.holder = p
          /\ Go(p, "relPatch")
          /\ view' = [view EXCEPT ![p] = lease.rv]
       \/ Go(p, "unreleased") /\ UNCHANGED view
    /\ UNCHANGED <<now, busy, stamp>>

(* The script ends: it is through, a check failed, or any call did.         *)
Leave(p) ==
    /\ pc[p] = "held" /\ p \notin busy
    /\ BeginRelease(p)

Giving(p) == [op |-> p, kind |-> "release", rv |-> view[p], renew |-> 0]

ReleasePatch(p) ==
    /\ pc[p] = "relPatch"
    /\ \/ Succeeds(Giving(p)) /\ Go(p, "released")
       \/ Fails(Giving(p)) /\ Go(p, "unreleased")
    /\ view' = [view EXCEPT ![p] = 0]
    /\ UNCHANGED <<now, busy, stamp, hbVars, since>>

(* -------------------------------- signals ------------------------------- *)

(* The write an operation's main shell is making.                           *)
WritesOf(p) ==
    CASE pc[p] \in {"create", "patch"} -> {Acquisition(p, view[p])}
      [] pc[p] = "relPatch" -> {Giving(p)}
      [] OTHER -> {}

(* SIGTERM or SIGHUP: bash runs the EXIT trap at once and does not wait for
   the call it was making.  Before LC_LOCK_HELD is set the trap has nothing
   to release; in the trap itself the signal kills.                         *)
Terminate(p) ==
    /\ "TERM" \in Signals
    /\ \/ pc[p] = "held" /\ BeginRelease(p)
       \/ /\ pc[p] \in {"create", "read", "patch"}
          /\ Go(p, "gaveUp") /\ ForgetAttempt(p)
          /\ Abandoned(WritesOf(p))
          /\ UNCHANGED <<now, busy, hbVars, since>>

(* SIGKILL: no trap.  The heartbeat survives, or the machine is gone.       *)
Kill(p) ==
    /\ "KILL" \in Signals
    /\ pc[p] \notin Ended
    /\ Go(p, "killed") /\ ForgetAttempt(p)
    /\ \/ Abandoned(WritesOf(p)) /\ UNCHANGED hbVars
       \/ /\ Abandoned(WritesOf(p) \cup RenewalsOf(p))
          /\ hb' = [hb EXCEPT ![p] = "off"]
          /\ renewed' = [renewed EXCEPT ![p] = 0]
          /\ ForgetRenewal(p)
    /\ UNCHANGED <<now, busy, since>>

(* ------------------------- API server and time -------------------------- *)

StrayArrives(w) ==
    /\ w \in strays
    /\ strays' = strays \ {w}
    /\ lease' = IF Applicable(w) THEN Written(w) ELSE lease
    /\ UNCHANGED <<now, pc, busy, opVars, hbVars, since>>

(* The timing assumptions: an attempt to acquire does not outlive its date by
   more than RenewLag, a heartbeat that has not raised its flag renews as
   fast, and a block ends in time.                                          *)
InTime(p) ==
    /\ pc[p] \in {"create", "read", "patch"} => now - stamp[p] < RenewLag
    /\ (pc[p] = "held" /\ hb[p] # "failed") => now - renewed[p] < RenewLag
    /\ p \in busy => now - since[p] < BlockMax

Tick ==
    /\ now < MaxTime
    /\ \A p \in Ops : InTime(p)
    /\ now' = now + 1
    /\ UNCHANGED <<lease, pc, busy, opVars, hbVars, since, strays>>

Next ==
    \/ \E p \in Ops :
        \/ TakeDate(p) \/ GiveUp(p) \/ Create(p) \/ Read(p) \/ Patch(p)
        \/ HeartbeatRead(p) \/ HeartbeatPatch(p)
        \/ StartBlock(p) \/ EndBlock(p)
        \/ Leave(p) \/ ReleasePatch(p)
        \/ Terminate(p) \/ Kill(p)
    \/ \E w \in strays : StrayArrives(w)
    \/ Tick

Spec == Init /\ [][Next]_vars

-----------------------------------------------------------------------------
(* Every variable keeps its type, and a heartbeat runs only for an operation
   that holds the lease or was killed (lc_start_lock_heartbeat,
   lc_stop_lock_heartbeat).                                                 *)
TypeOK ==
    /\ now \in 1 .. MaxTime
    /\ lease \in Leases
    /\ pc \in [Ops -> Places]
    /\ busy \subseteq Ops
    /\ stamp \in [Ops -> Nat] /\ view \in [Ops -> Nat]
    /\ hb \in [Ops -> HeartbeatStates]
    /\ \A p \in Ops : hb[p] \in {"sleep", "patch"} => pc[p] \in {"held", "killed"}
    /\ hbStamp \in [Ops -> Nat] /\ hbView \in [Ops -> Nat]
    /\ renewed \in [Ops -> Nat] /\ since \in [Ops -> Nat]
    /\ strays \subseteq Writes

(* Two lifecycle operations never change the cluster at the same time: "create
   + resourceVersion JSON Patch" give mutual exclusion between Jenkins, CI
   and manual operations (comment above lc_acquire_lock).                   *)
Exclusive == \A p, q \in busy : p = q

(* What Exclusive needs: no shell is terminated, and a block is shorter than
   the lease by the heartbeat's lag and the difference of the clocks.       *)
SafeMargin ==
    /\ "TERM" \notin Signals
    /\ \A p, q \in Ops : BlockMax + RenewLag + Skew[q] < Duration + Skew[p]

(* After lc_release_lock succeeded nothing of that operation makes it holder
   again, its orphaned renewals included, and a lease without a holder is
   free for everybody at once.                                              *)
CleanRelease ==
    /\ \A p \in Ops : pc[p] = "released" => lease.holder # p
    /\ lease.holder = None => \A p \in Ops : ExpiredFor(p)

(* An operation whose release failed blocks the others for one lease
   duration at most, because nothing dates the lease later than the moment
   its heartbeat was stopped ("it can be taken over when the lease ends",
   on_exit of both scripts).                                                *)
UnreleasedAges ==
    \A p \in Ops :
        (pc[p] = "unreleased" /\ lease.holder = p) =>
            lease.renew <= since[p] + Skew[p]

(* What an operation gives back, or leaves without giving it back, it does not
   keep from the others.                                                    *)
ReleasedForGood == CleanRelease /\ UnreleasedAges

(* The lease leaves its holder in two ways only: by the holder's own release,
   or to an operation on whose clock it is expired now, although that
   operation decided on an earlier read.                                    *)
NoTheft ==
    [][\A p \in Ops : (lease.holder = p /\ lease'.holder # p) =>
          \/ /\ lease'.holder = None
             /\ pc[p] \in {"relPatch", "unreleased", "killed"}
          \/ lease'.holder \in Ops /\ ExpiredFor(lease'.holder)]_vars

(* An operation that lost the lease it held never becomes holder again, late
   writes of its own included, so its later checks fail.                    *)
LostForGood ==
    [][\A p \in Ops :
          (pc[p] \in {"held", "relPatch", "released", "unreleased"}
             /\ lease.holder # p) => lease'.holder # p]_vars

(* The lease changes hands only by release or expiry, and never back by
   mistake.                                                                 *)
ChangesHandsOnce == NoTheft /\ LostForGood

-----------------------------------------------------------------------------
(* The refinement mapping onto FencedLock.                                  *)
Lock == INSTANCE FencedLock WITH owner <- lease.holder, working <- busy

(* With SafeMargin the lease, its heartbeat and its checks implement the lock
   the scripts rely on: it never leaves its owner during a block.           *)
ImplementsFencedLock == Lock!Spec
=============================================================================
