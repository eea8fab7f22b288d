------------------------ MODULE LifecycleLeaseProofs ------------------------
(***************************************************************************)
(* Proofs about LifecycleLease, for any number of operations, any clocks,  *)
(* any signals and any bounds: what the lease promises whatever the length *)
(* of blocks, and, where SafeMargin holds, mutual exclusion and the        *)
(* refinement of FencedLock.                                               *)
(***************************************************************************)
EXTENDS LifecycleLease, TLAPS

(* The Lease was never written, was given back, or is held for Duration.    *)
LeaseShape ==
    /\ lease.rv = 0 => lease = NoLease
    /\ lease.holder = None => lease.duration = 0 \/ (lease.renew = 0 /\ lease.duration = 1)
    /\ lease.holder # None => lease.duration = Duration

(* No write knows a later version of the lease than there is, or carries a
   later date; one that may take the lease as it is comes from an operation
   that may.                                                                *)
Sound(w) ==
    /\ w.rv <= lease.rv
    /\ w.renew <= now + Skew[w.op]
    /\ (w.kind = "acquire" /\ w.rv = lease.rv) => MayTake(w.op)

(* Every write that may still reach the API server is sound, whether its
   sender waits for it or nobody does any more.                             *)
AllSound ==
    /\ \A w \in strays : Sound(w)
    /\ \A p \in Ops :
        /\ pc[p] \in {"head", "create", "read"} => view[p] = 0
        /\ pc[p] \in {"create", "patch", "relPatch"} => view[p] <= lease.rv
        /\ (pc[p] \in {"create", "patch"} /\ view[p] = lease.rv) => MayTake(p)
        /\ hb[p] = "patch" => hbView[p] <= lease.rv
        /\ stamp[p] <= now /\ hbStamp[p] <= now
        /\ lease.holder = p => lease.renew <= now + Skew[p]

(* Which strays there can be of an operation.                               *)
StraysFit ==
    \A w \in strays :
        /\ w.kind = "release" => pc[w.op] \in {"unreleased", "killed"}
        /\ w.kind = "renew" => \/ pc[w.op] \in Ended \cup {"relPatch"}
                               \/ pc[w.op] = "held" /\ hb[w.op] = "failed"
        /\ (w.kind = "acquire" /\ (pc[w.op] \in {"held", "relPatch", "released", "unreleased"}
                                     \/ w.op \in busy))
              => w.rv < lease.rv
        /\ pc[w.op] = "released" => w.rv < lease.rv
        /\ pc[w.op] \in {"relPatch", "unreleased"} => w.renew <= since[w.op] + Skew[w.op]

(* What an operation that gives the lease up leaves behind.                 *)
Left ==
    \A p \in Ops :
        /\ pc[p] = "released" => lease.holder # p
        /\ (pc[p] \in {"relPatch", "unreleased"} /\ lease.holder = p) =>
              lease.renew <= since[p] + Skew[p]

(* What the timing assumptions give, and the date an operation knows.       *)
Timely ==
    \A p \in Ops :
        /\ pc[p] \in {"create", "read", "patch"} => now <= stamp[p] + RenewLag
        /\ (pc[p] = "held" /\ hb[p] # "failed") =>
              /\ now <= renewed[p] + RenewLag
              /\ lease.holder = p => lease.renew = renewed[p] + Skew[p]
        /\ hb[p] = "patch" => renewed[p] <= hbStamp[p]
        /\ p \in busy => since[p] <= now /\ now <= since[p] + BlockMax
        /\ p \in busy => pc[p] \in {"held", "relPatch", "released", "unreleased", "killed"}
        /\ renewed[p] <= now

(* An operation in a block holds the lease, and nothing that is still to
   arrive dates it further back than its check allowed.                     *)
Fenced ==
    \A p \in busy :
        /\ pc[p] \in {"held", "killed"}
        /\ lease.holder = p
        /\ since[p] + Skew[p] <= lease.renew + RenewLag
        /\ hb[p] = "patch" => since[p] <= hbStamp[p] + RenewLag
        /\ \A w \in strays : w.op = p =>
              /\ w.kind # "release"
              /\ w.kind = "renew" => since[p] + Skew[p] <= w.renew + RenewLag

LeaseInv == TypeOK /\ LeaseShape /\ AllSound /\ StraysFit /\ Left /\ Timely

FenceInv == SafeMargin => Fenced

-----------------------------------------------------------------------------
(* What a write does, and what its sender and the server leave behind.      *)

Effective(w) == Applicable(w) /\ lease' = Written(w)

LEMMA WrittenLease ==
    ASSUME TypeOK, NEW w \in Writes
    PROVE  /\ Written(w) \in Leases
           /\ Written(w).rv = lease.rv + 1
           /\ w.kind = "release" =>
                Written(w).holder = None /\ Written(w).renew = 0 /\ Written(w).duration = 1
           /\ w.kind # "release" =>
                /\ Written(w).holder = w.op /\ Written(w).renew = w.renew
                /\ Written(w).duration = Duration
BY LeaseAssumption DEF TypeOK, Writes, Leases, Written

LEMMA SendersWrites ==
    ASSUME TypeOK, NEW p \in Ops
    PROVE  /\ \A rv \in Nat :
                /\ Acquisition(p, rv) \in Writes
                /\ Acquisition(p, rv).op = p /\ Acquisition(p, rv).kind = "acquire"
                /\ Acquisition(p, rv).rv = rv
                /\ Acquisition(p, rv).renew = stamp[p] + Skew[p]
           /\ Renewal(p) \in Writes
           /\ Renewal(p).op = p /\ Renewal(p).kind = "renew"
           /\ Renewal(p).rv = hbView[p] /\ Renewal(p).renew = hbStamp[p] + Skew[p]
           /\ Giving(p) \in Writes
           /\ Giving(p).op = p /\ Giving(p).kind = "release"
           /\ Giving(p).rv = view[p] /\ Giving(p).renew = 0
BY LeaseAssumption DEF TypeOK, Writes, Acquisition, Renewal, Giving

LEMMA Outcomes ==
    ASSUME NEW w, Fails(w)
    PROVE  /\ \/ Effective(w) /\ strays' = strays
              \/ lease' = lease
           /\ strays' \subseteq strays \cup {w}
BY DEF Fails, Succeeds, Abandoned, Effective

LEMMA Leftovers ==
    ASSUME NEW ws, Abandoned(ws)
    PROVE  lease' = lease /\ strays' \subseteq strays \cup ws
BY DEF Abandoned

LEMMA SubshellWrites ==
    ASSUME TypeOK, NEW p \in Ops
    PROVE  /\ RenewalsOf(p) \subseteq Writes
           /\ \A w \in RenewalsOf(p) : w = Renewal(p) /\ hb[p] = "patch"
BY SendersWrites DEF RenewalsOf

LEMMA ShellWrites ==
    ASSUME TypeOK, NEW p \in Ops
    PROVE  /\ WritesOf(p) \subseteq Writes
           /\ \A w \in WritesOf(p) :
                \/ pc[p] \in {"create", "patch"} /\ w = Acquisition(p, view[p])
                \/ pc[p] = "relPatch" /\ w = Giving(p)
<1>1. CASE pc[p] \in {"create", "patch"}
  BY <1>1, SendersWrites DEF WritesOf, TypeOK
<1>2. CASE pc[p] = "relPatch"
  BY <1>2, SendersWrites DEF WritesOf, TypeOK
<1>3. CASE pc[p] \notin {"create", "patch", "relPatch"}
  BY <1>3 DEF WritesOf
<1>4. QED BY <1>1, <1>2, <1>3

-----------------------------------------------------------------------------
(* Types.                                                                   *)

LEMMA LeaseTyped ==
    ASSUME TypeOK, NEW w \in Writes, Effective(w) \/ lease' = lease
    PROVE  lease' \in Leases
BY WrittenLease DEF TypeOK, Effective

LEMMA HoldTyped ==
    ASSUME TypeOK, NEW p \in Ops, pc[p] \in {"create", "patch"}, Hold(p),
           lease' \in Leases, strays' \subseteq Writes
    PROVE  TypeOK'
BY DEF TypeOK, Hold, Go, ForgetAttempt, Places, Ended, HeartbeatStates

LEMMA StopTyped ==
    ASSUME TypeOK, NEW p \in Ops, StopHeartbeat(p)
    PROVE  /\ lease' \in Leases /\ lease' = lease /\ strays' \subseteq Writes
           /\ hb' \in [Ops -> HeartbeatStates] /\ hb' = [hb EXCEPT ![p] = "off"]
           /\ hbStamp' \in [Ops -> Nat] /\ hbView' \in [Ops -> Nat]
           /\ renewed' \in [Ops -> Nat]
<1>1. lease' = lease /\ strays' \subseteq strays \cup RenewalsOf(p)
  BY Leftovers DEF StopHeartbeat
<1>2. QED
  BY <1>1, SubshellWrites DEF TypeOK, StopHeartbeat, ForgetRenewal, HeartbeatStates

LEMMA BeginReleaseTyped ==
    ASSUME TypeOK, NEW p \in Ops, pc[p] = "held", BeginRelease(p)
    PROVE  TypeOK'
<1>1. StopHeartbeat(p)
  BY DEF BeginRelease
<1>2. QED
  BY <1>1, StopTyped DEF TypeOK, BeginRelease, Go, Places, Ended, Leases

LEMMA TypeStep ==
    ASSUME TypeOK, [Next]_vars
    PROVE  TypeOK'
<1>1. ASSUME NEW p \in Ops, TakeDate(p) \/ GiveUp(p) PROVE TypeOK'
  BY <1>1 DEF TypeOK, TakeDate, GiveUp, Go, hbVars, opVars, Places, Ended
<1>2. ASSUME NEW p \in Ops, Create(p) PROVE TypeOK'
  <2>1. Acquisition(p, 0) \in Writes
    BY SendersWrites
  <2>2. CASE Succeeds(Acquisition(p, 0)) /\ Hold(p)
    BY <1>2, <2>1, <2>2, LeaseTyped, HoldTyped DEF Create, Succeeds, Effective, TypeOK
  <2>3. CASE Fails(Acquisition(p, 0)) /\ Go(p, "read")
             /\ UNCHANGED <<now, busy, opVars, hbVars, since>>
    <3>1. lease' \in Leases /\ strays' \subseteq Writes
      BY <2>1, <2>3, Outcomes, LeaseTyped DEF TypeOK
    <3>2. QED
      BY <1>2, <2>3, <3>1 DEF Create, TypeOK, Go, hbVars, opVars, Places
  <2>4. QED
    BY <1>2, <2>2, <2>3 DEF Create
<1>3. ASSUME NEW p \in Ops, Read(p) PROVE TypeOK'
  BY <1>3 DEF TypeOK, Read, Go, ForgetAttempt, hbVars, opVars, Places, Ended, Leases
<1>4. ASSUME NEW p \in Ops, Patch(p) PROVE TypeOK'
  <2> DEFINE w == Acquisition(p, view[p])
  <2>1. w \in Writes
    BY SendersWrites DEF TypeOK
  <2>2. CASE Succeeds(w) /\ Hold(p)
    BY <1>4, <2>1, <2>2, LeaseTyped, HoldTyped DEF Patch, Succeeds, Effective, TypeOK
  <2>3. CASE Fails(w) /\ Go(p, "head") /\ ForgetAttempt(p)
             /\ UNCHANGED <<now, busy, hbVars, since>>
    <3>1. lease' \in Leases /\ strays' \subseteq Writes
      BY <2>1, <2>3, Outcomes, LeaseTyped DEF TypeOK
    <3>2. QED
      BY <1>4, <2>3, <3>1 DEF Patch, TypeOK, Go, ForgetAttempt, hbVars, Places
  <2>4. QED
    BY <1>4, <2>2, <2>3 DEF Patch
<1>5. ASSUME NEW p \in Ops, HeartbeatRead(p) PROVE TypeOK'
  BY <1>5 DEF TypeOK, HeartbeatRead, opVars, HeartbeatStates, Leases
<1>6. ASSUME NEW p \in Ops, HeartbeatPatch(p) PROVE TypeOK'
  <2>1. Renewal(p) \in Writes
    BY SendersWrites
  <2>2. lease' \in Leases /\ strays' \subseteq Writes
    BY <1>6, <2>1, Outcomes, LeaseTyped DEF TypeOK, HeartbeatPatch, Fails
  <2>3. QED
    BY <1>6, <2>2 DEF TypeOK, HeartbeatPatch, ForgetRenewal, opVars, HeartbeatStates
<1>7. ASSUME NEW p \in Ops, StartBlock(p) \/ EndBlock(p) PROVE TypeOK'
  BY <1>7 DEF TypeOK, StartBlock, EndBlock, opVars, hbVars
<1>8. ASSUME NEW p \in Ops, Leave(p) PROVE TypeOK'
  BY <1>8, BeginReleaseTyped DEF Leave
<1>9. ASSUME NEW p \in Ops, ReleasePatch(p) PROVE TypeOK'
  <2>1. Giving(p) \in Writes
    BY SendersWrites
  <2>2. lease' \in Leases /\ strays' \subseteq Writes
    BY <1>9, <2>1, Outcomes, LeaseTyped DEF TypeOK, ReleasePatch, Fails
  <2>3. QED
    BY <1>9, <2>2 DEF TypeOK, ReleasePatch, Go, hbVars, Places, Ended
<1>10. ASSUME NEW p \in Ops, Terminate(p) PROVE TypeOK'
  <2>1. CASE pc[p] = "held" /\ BeginRelease(p)
    BY <2>1, BeginReleaseTyped
  <2>2. CASE pc[p] # "held"
    <3>1. Abandoned(WritesOf(p))
      BY <1>10, <2>2 DEF Terminate
    <3>2. lease' = lease /\ strays' \subseteq Writes
      BY <3>1, Leftovers, ShellWrites DEF TypeOK
    <3>3. QED
      BY <1>10, <2>2, <3>2 DEF TypeOK, Terminate, Go, ForgetAttempt, hbVars, Places, Ended
  <2>3. QED
    BY <1>10, <2>1, <2>2 DEF Terminate
<1>11. ASSUME NEW p \in Ops, Kill(p) PROVE TypeOK'
  <2>1. lease' = lease /\ strays' \subseteq strays \cup WritesOf(p) \cup RenewalsOf(p)
    BY <1>11, Leftovers DEF Kill
  <2>2. strays' \subseteq Writes
    BY <2>1, ShellWrites, SubshellWrites DEF TypeOK
  <2>3. QED
    BY <1>11, <2>1, <2>2
       DEF TypeOK, Kill, Go, ForgetAttempt, ForgetRenewal, hbVars, Places, Ended, HeartbeatStates
<1>12. ASSUME NEW w \in strays, StrayArrives(w) PROVE TypeOK'
  <2>1. lease' \in Leases
    BY <1>12, LeaseTyped DEF TypeOK, StrayArrives, Effective
  <2>2. QED
    BY <1>12, <2>1 DEF TypeOK, StrayArrives, opVars, hbVars
<1>13. CASE Tick
  BY <1>13, LeaseAssumption DEF TypeOK, Tick, opVars, hbVars
<1>14. CASE UNCHANGED vars
  BY <1>14 DEF TypeOK, vars, opVars, hbVars
<1>15. QED
  BY <1>1, <1>2, <1>3, <1>4, <1>5, <1>6, <1>7, <1>8, <1>9, <1>10, <1>11, <1>12,
     <1>13, <1>14 DEF Next

-----------------------------------------------------------------------------
(* What no step undoes.                                                     *)

LEMMA DatesTyped ==
    ASSUME TypeOK
    PROVE  /\ now \in Nat
           /\ lease.holder \in Ops \cup {None} /\ lease.renew \in Nat
           /\ lease.duration \in Nat /\ lease.rv \in Nat
           /\ \A p \in Ops : Skew[p] \in Nat /\ stamp[p] \in Nat /\ view[p] \in Nat
                /\ hbStamp[p] \in Nat /\ hbView[p] \in Nat
                /\ renewed[p] \in Nat /\ since[p] \in Nat
           /\ \A w \in Writes : w.op \in Ops /\ w.rv \in Nat /\ w.renew \in Nat
                /\ w.kind \in {"acquire", "renew", "release"}
BY LeaseAssumption DEF TypeOK, Leases, Writes

(* Who may take the lease may take it until it is written again.            *)
LEMMA MayTakeKept ==
    ASSUME TypeOK, TypeOK', NEW p \in Ops, MayTake(p), lease' = lease, now <= now'
    PROVE  MayTake(p)'
BY DatesTyped DEF MayTake, ExpiredFor, Clock, TypeOK

(* Whatever happens to the lease, a write that was sound stays so: it is out
   of date, or the lease is as it was.                                      *)
LEMMA SoundKept ==
    ASSUME TypeOK, TypeOK', NEW w \in Writes, Sound(w), now <= now',
           lease' = lease \/ \E v \in Writes : Effective(v)
    PROVE  Sound(w)'
<1>1. w.op \in Ops /\ w.rv \in Nat /\ w.renew \in Nat /\ Skew[w.op] \in Nat
      /\ now \in Nat /\ now' \in Nat /\ lease.rv \in Nat
  BY DatesTyped DEF TypeOK
<1>2. CASE lease' = lease
  BY <1>1, <1>2, MayTakeKept DEF Sound
<1>3. CASE \E v \in Writes : Effective(v)
  <2>1. lease'.rv = lease.rv + 1
    BY <1>3, WrittenLease DEF Effective
  <2>2. QED
    BY <1>1, <2>1 DEF Sound
<1>4. QED
  BY <1>2, <1>3

(* What a shell, its heartbeat and the strays may still write is sound.     *)
LEMMA SendersSound ==
    ASSUME LeaseInv, NEW p \in Ops
    PROVE  /\ pc[p] \in {"create", "patch"} => Sound(Acquisition(p, view[p]))
           /\ pc[p] = "create" => view[p] = 0
           /\ pc[p] = "relPatch" => Sound(Giving(p))
           /\ hb[p] = "patch" => Sound(Renewal(p))
<1>1. TypeOK /\ AllSound
  BY DEF LeaseInv
<1>2. view[p] \in Nat
  BY <1>1 DEF TypeOK
<1>3. pc[p] \in {"create", "patch"} => Sound(Acquisition(p, view[p]))
  BY <1>1, <1>2, SendersWrites, DatesTyped DEF AllSound, Sound
<1>4. pc[p] = "relPatch" => Sound(Giving(p))
  BY <1>1, SendersWrites, DatesTyped DEF AllSound, Sound
<1>5. hb[p] = "patch" => Sound(Renewal(p))
  BY <1>1, SendersWrites, DatesTyped DEF AllSound, Sound
<1>6. QED
  BY <1>1, <1>3, <1>4, <1>5 DEF AllSound

(* What changes at a step: the lease by one sound write that somebody waited
   for or left behind, the strays by writes their senders gave up.          *)
Sent(w) ==
    \/ /\ w.kind = "acquire" /\ pc[w.op] \in {"create", "patch"}
       /\ w.renew = stamp[w.op] + Skew[w.op]
       /\ pc'[w.op] \in {"held", "read", "head"}
       /\ pc'[w.op] = "held" => renewed'[w.op] = stamp[w.op]
    \/ /\ w.kind = "renew" /\ hb[w.op] = "patch"
       /\ w.renew = hbStamp[w.op] + Skew[w.op]
       /\ pc' = pc
       /\ \/ hb'[w.op] = "failed"
          \/ hb'[w.op] = "sleep" /\ renewed'[w.op] = hbStamp[w.op]
    \/ /\ w.kind = "release" /\ pc[w.op] = "relPatch"
       /\ pc'[w.op] \in {"released", "unreleased"}

GivenUp(w) ==
    \/ /\ w.kind = "acquire" /\ pc[w.op] \in {"create", "patch"}
       /\ pc'[w.op] \in {"read", "head", "gaveUp", "killed"}
    \/ /\ w.kind = "renew" /\ hb[w.op] = "patch"
       /\ w.renew = hbStamp[w.op] + Skew[w.op]
       /\ \/ pc'[w.op] \in {"relPatch", "unreleased", "killed"}
          \/ hb'[w.op] = "failed" /\ pc' = pc
    \/ /\ w.kind = "release" /\ pc[w.op] = "relPatch" /\ w.renew = 0
       /\ pc'[w.op] \in {"unreleased", "killed"}

Moves ==
    /\ now <= now'
    /\ \/ lease' = lease
       \/ \E w \in Writes : 
            /\ Effective(w) /\ Sound(w)
            /\ Sent(w) \/ (w \in strays /\ UNCHANGED <<pc, hbVars>>)
    /\ \A w \in strays' : w \in strays \/ (w \in Writes /\ Sound(w) /\ GivenUp(w))

LEMMA BeginReleaseMoves ==
    ASSUME LeaseInv, NEW p \in Ops, pc[p] = "held", BeginRelease(p)
    PROVE  Moves
<1>1. TypeOK
  BY DEF LeaseInv
<1>2. lease' = lease /\ \A w \in strays' : w \in strays \/ w \in RenewalsOf(p)
  BY Leftovers DEF BeginRelease, StopHeartbeat
<1>3. pc'[p] \in {"relPatch", "unreleased"} /\ now' = now
  BY <1>1 DEF BeginRelease, Go, TypeOK
<1>4. \A w \in RenewalsOf(p) : w \in Writes /\ Sound(w) /\ GivenUp(w)
  BY <1>1, <1>3, SubshellWrites, SendersWrites, SendersSound DEF GivenUp
<1>5. QED
  BY <1>1, <1>2, <1>3, <1>4, DatesTyped DEF Moves

LEMMA StepMoves ==
    ASSUME LeaseInv, [Next]_vars
    PROVE  Moves
<1> USE DEF Moves
<1>0. TypeOK /\ now \in Nat
  BY DatesTyped DEF LeaseInv
<1>1. ASSUME NEW p \in Ops, TakeDate(p) \/ GiveUp(p) \/ Read(p) \/ HeartbeatRead(p)
                            \/ StartBlock(p) \/ EndBlock(p)
      PROVE  Moves
  BY <1>0, <1>1 DEF TakeDate, GiveUp, Read, HeartbeatRead, StartBlock, EndBlock
<1>2. ASSUME NEW p \in Ops, Create(p) PROVE Moves
  <2> DEFINE w == Acquisition(p, 0)
  <2>1. w \in Writes /\ Sound(w) /\ w.kind = "acquire" /\ w.op = p
        /\ w.renew = stamp[p] + Skew[p]
    BY <1>0, <1>2, SendersWrites, SendersSound DEF Create
  <2> HIDE DEF w
  <2>2. pc[p] = "create" /\ now' = now
    BY <1>2 DEF Create, Hold
  <2>3. CASE Succeeds(w) /\ Hold(p)
    <3>1. Sent(w)
      BY <1>0, <2>1, <2>2, <2>3 DEF Sent, Hold, Go, TypeOK
    <3>2. QED
      BY <1>0, <2>1, <2>2, <2>3, <3>1 DEF Succeeds, Effective
  <2>4. CASE Fails(w) /\ Go(p, "read")
    <3>1. pc'[p] = "read"
      BY <1>0, <2>4 DEF Go, TypeOK
    <3>2. Sent(w) /\ GivenUp(w)
      BY <2>1, <2>2, <3>1 DEF Sent, GivenUp
    <3>3. QED
      BY <1>0, <2>1, <2>2, <2>4, <3>2, Outcomes
  <2>5. QED
    BY <1>2, <2>3, <2>4 DEF Create, w
<1>3. ASSUME NEW p \in Ops, Patch(p) PROVE Moves
  <2> DEFINE w == Acquisition(p, view[p])
  <2>1. w \in Writes /\ Sound(w) /\ w.kind = "acquire" /\ w.op = p
        /\ w.renew = stamp[p] + Skew[p]
    BY <1>0, <1>3, SendersWrites, SendersSound DEF Patch, TypeOK
  <2> HIDE DEF w
  <2>2. pc[p] = "patch" /\ now' = now
    BY <1>3 DEF Patch, Hold
  <2>3. CASE Succeeds(w) /\ Hold(p)
    <3>1. Sent(w)
      BY <1>0, <2>1, <2>2, <2>3 DEF Sent, Hold, Go, TypeOK
    <3>2. QED
      BY <1>0, <2>1, <2>2, <2>3, <3>1 DEF Succeeds, Effective
  <2>4. CASE Fails(w) /\ Go(p, "head")
    <3>1. pc'[p] = "head"
      BY <1>0, <2>4 DEF Go, TypeOK
    <3>2. Sent(w) /\ GivenUp(w)
      BY <2>1, <2>2, <3>1 DEF Sent, GivenUp
    <3>3. QED
      BY <1>0, <2>1, <2>2, <2>4, <3>2, Outcomes
  <2>5. QED
    BY <1>3, <2>3, <2>4 DEF Patch, w
<1>4. ASSUME NEW p \in Ops, HeartbeatPatch(p) PROVE Moves
  <2> DEFINE w == Renewal(p)
  <2>1. w \in Writes /\ Sound(w) /\ w.kind = "renew" /\ w.op = p
        /\ w.renew = hbStamp[p] + Skew[p]
    BY <1>0, <1>4, SendersWrites, SendersSound DEF HeartbeatPatch
  <2> HIDE DEF w
  <2>2. hb[p] = "patch" /\ now' = now /\ pc' = pc
    BY <1>4 DEF HeartbeatPatch
  <2>3. CASE Succeeds(w) /\ hb' = [hb EXCEPT ![p] = "sleep"]
               /\ renewed' = [renewed EXCEPT ![p] = hbStamp[p]]
    <3>1. Sent(w)
      BY <1>0, <2>1, <2>2, <2>3 DEF Sent, TypeOK
    <3>2. QED
      BY <1>0, <2>1, <2>2, <2>3, <3>1 DEF Succeeds, Effective
  <2>4. CASE Fails(w) /\ hb' = [hb EXCEPT ![p] = "failed"]
    <3>1. hb'[p] = "failed"
      BY <1>0, <2>4 DEF TypeOK
    <3>2. Sent(w) /\ GivenUp(w)
      BY <2>1, <2>2, <3>1 DEF Sent, GivenUp
    <3>3. QED
      BY <1>0, <2>1, <2>2, <2>4, <3>2, Outcomes
  <2>5. QED
    BY <1>4, <2>3, <2>4 DEF HeartbeatPatch, w
<1>5. ASSUME NEW p \in Ops, Leave(p) PROVE Moves
  BY <1>5, BeginReleaseMoves DEF Leave
<1>6. ASSUME NEW p \in Ops, ReleasePatch(p) PROVE Moves
  <2> DEFINE w == Giving(p)
  <2>1. w \in Writes /\ Sound(w) /\ w.kind = "release" /\ w.op = p /\ w.renew = 0
    BY <1>0, <1>6, SendersWrites, SendersSound DEF ReleasePatch
  <2> HIDE DEF w
  <2>2. pc[p] = "relPatch" /\ now' = now
    BY <1>6 DEF ReleasePatch
  <2>3. CASE Succeeds(w) /\ Go(p, "released")
    <3>1. Sent(w)
      BY <1>0, <2>1, <2>2, <2>3 DEF Sent, Go, TypeOK
    <3>2. QED
      BY <1>0, <2>1, <2>2, <2>3, <3>1 DEF Succeeds, Effective
  <2>4. CASE Fails(w) /\ Go(p, "unreleased")
    <3>1. pc'[p] = "unreleased"
      BY <1>0, <2>4 DEF Go, TypeOK
    <3>2. Sent(w) /\ GivenUp(w)
      BY <2>1, <2>2, <3>1 DEF Sent, GivenUp
    <3>3. QED
      BY <1>0, <2>1, <2>2, <2>4, <3>2, Outcomes
  <2>5. QED
    BY <1>6, <2>3, <2>4 DEF ReleasePatch, w
<1>7. ASSUME NEW p \in Ops, Terminate(p) \/ Kill(p),
             ~(pc[p] = "held" /\ BeginRelease(p))
      PROVE  Moves
  <2>1. pc'[p] \in {"gaveUp", "killed"} /\ now' = now
    BY <1>0, <1>7 DEF Terminate, Kill, Go, TypeOK
  <2>2. /\ lease' = lease
        /\ \A w \in strays' : w \in strays \/ w \in WritesOf(p) \/ w \in RenewalsOf(p)
    BY <1>7, Leftovers DEF Terminate, Kill
  <2>3. ASSUME NEW w \in WritesOf(p), pc'[p] = "killed" \/ pc[p] # "relPatch"
        PROVE  w \in Writes /\ Sound(w) /\ GivenUp(w)
    BY <1>0, <2>1, <2>3, ShellWrites, SendersWrites, SendersSound DEF GivenUp, TypeOK
  <2>4. ASSUME NEW w \in RenewalsOf(p), pc'[p] = "killed"
        PROVE  w \in Writes /\ Sound(w) /\ GivenUp(w)
    BY <1>0, <2>4, SubshellWrites, SendersWrites, SendersSound DEF GivenUp
  <2>5. CASE Kill(p)
    <3>1. pc'[p] = "killed"
      BY <1>0, <2>5 DEF Kill, Go, TypeOK
    <3>2. QED
      BY <1>0, <2>1, <2>2, <2>3, <2>4, <3>1
  <2>6. CASE Terminate(p)
    <3>1. Abandoned(WritesOf(p)) /\ pc[p] \in {"create", "read", "patch"}
      BY <1>7, <2>6 DEF Terminate
    <3>2. QED
      BY <1>0, <2>1, <2>2, <2>3, <3>1, Leftovers
  <2>7. QED
    BY <1>7, <2>5, <2>6
<1>8. ASSUME NEW p \in Ops, pc[p] = "held" /\ BeginRelease(p) PROVE Moves
  BY <1>8, BeginReleaseMoves
<1>9. ASSUME NEW w \in strays, StrayArrives(w) PROVE Moves
  <2>1. w \in Writes /\ Sound(w)
    BY <1>0 DEF LeaseInv, AllSound, TypeOK
  <2>2. QED
    BY <1>0, <1>9, <2>1 DEF StrayArrives, Effective
<1>10. CASE Tick \/ UNCHANGED vars
  BY <1>0, <1>10 DEF Tick, vars
<1>11. QED
  BY <1>1, <1>2, <1>3, <1>4, <1>5, <1>6, <1>7, <1>8, <1>9, <1>10 DEF Next

-----------------------------------------------------------------------------
(* The parts of the invariant, one by one.                                  *)

LEMMA ShapeStep ==
    ASSUME LeaseInv, TypeOK', Moves
    PROVE  LeaseShape'
<1>1. CASE lease' = lease
  BY <1>1 DEF LeaseInv, LeaseShape, NoLease
<1>2. ASSUME NEW w \in Writes, Effective(w) PROVE LeaseShape'
  <2>1. w.kind \in {"acquire", "renew", "release"} /\ w.op \in Ops /\ lease.rv \in Nat
    BY DatesTyped DEF LeaseInv
  <2>2. QED
    BY <1>2, <2>1, WrittenLease, LeaseAssumption DEF LeaseInv, LeaseShape, Effective
<1>3. QED
  BY <1>1, <1>2 DEF Moves

(* The version of the lease counts its changes.                             *)
LEMMA Progress ==
    ASSUME LeaseInv, TypeOK', Moves
    PROVE  /\ now <= now' /\ lease.rv <= lease'.rv
           /\ lease'.rv = lease.rv => lease' = lease
           /\ \A p \in Ops : (MayTake(p) /\ lease'.rv = lease.rv) => MayTake(p)'
           /\ \A p \in Ops : lease'.holder = p => lease'.renew <= now' + Skew[p]
<1>0. TypeOK
  BY DEF LeaseInv
<1>1. CASE lease' = lease
  <2>1. \A p \in Ops : MayTake(p) => MayTake(p)'
    BY <1>0, <1>1, MayTakeKept DEF Moves
  <2>2. \A p \in Ops : lease'.holder = p => lease'.renew <= now' + Skew[p]
    BY <1>0, <1>1, DatesTyped DEF LeaseInv, AllSound, Moves, TypeOK
  <2>3. QED
    BY <1>0, <1>1, <2>1, <2>2, DatesTyped DEF Moves
<1>2. ASSUME NEW w \in Writes, Effective(w), Sound(w)
      PROVE  /\ lease'.rv = lease.rv + 1
             /\ \A p \in Ops : lease'.holder = p => lease'.renew <= now' + Skew[p]
  <2>1. /\ w.op \in Ops /\ w.renew \in Nat /\ w.renew <= now + Skew[w.op]
        /\ now \in Nat /\ now' \in Nat /\ now <= now' /\ Skew[w.op] \in Nat
    BY <1>0, <1>2, DatesTyped DEF Sound, Moves, TypeOK
  <2>2. QED
    BY <1>0, <1>2, <2>1, WrittenLease, LeaseAssumption DEF Effective
<1>3. QED
  BY <1>0, <1>1, <1>2, DatesTyped DEF Moves

-----------------------------------------------------------------------------
(* A step is one operation's, and leaves the others where they are.         *)
Idle(q) ==
    /\ pc'[q] = pc[q] /\ stamp'[q] = stamp[q] /\ view'[q] = view[q]
    /\ hb'[q] = hb[q] /\ hbStamp'[q] = hbStamp[q] /\ hbView'[q] = hbView[q]
    /\ renewed'[q] = renewed[q] /\ since'[q] = since[q]
    /\ q \in busy' <=> q \in busy

(* The trap runs: the script ended between two blocks, or was terminated.   *)
Releases(p) ==
    /\ pc[p] = "held" /\ BeginRelease(p)
    /\ p \notin busy \/ "TERM" \in Signals

ShellActs(p) ==
    \/ TakeDate(p) \/ GiveUp(p) \/ Create(p) \/ Read(p) \/ Patch(p)
    \/ StartBlock(p) \/ EndBlock(p) \/ ReleasePatch(p)

Acts(p) ==
    \/ ShellActs(p) \/ HeartbeatRead(p) \/ HeartbeatPatch(p)
    \/ Releases(p) \/ (Terminate(p) /\ ~Releases(p)) \/ Kill(p)

LEMMA OthersIdle ==
    ASSUME TypeOK, NEW p \in Ops, Acts(p), NEW q \in Ops \ {p}
    PROVE  Idle(q)
<1> USE DEF Idle, Go, ForgetAttempt, ForgetRenewal, hbVars, opVars
<1>1. CASE TakeDate(p) \/ GiveUp(p) \/ Read(p)
  BY <1>1 DEF TypeOK, TakeDate, GiveUp, Read
<1>2. CASE Create(p)
  BY <1>2 DEF TypeOK, Create, Hold
<1>3. CASE Patch(p)
  BY <1>3 DEF TypeOK, Patch, Hold
<1>4. CASE StartBlock(p) \/ EndBlock(p)
  BY <1>4 DEF TypeOK, StartBlock, EndBlock
<1>5. CASE ReleasePatch(p)
  BY <1>5 DEF TypeOK, ReleasePatch
<1>6. CASE HeartbeatRead(p)
  BY <1>6 DEF TypeOK, HeartbeatRead
<1>7. CASE HeartbeatPatch(p)
  BY <1>7 DEF TypeOK, HeartbeatPatch
<1>8. CASE Releases(p)
  BY <1>8 DEF TypeOK, Releases, BeginRelease, StopHeartbeat
<1>9. CASE Terminate(p) /\ ~Releases(p)
  BY <1>9 DEF TypeOK, Terminate, Releases
<1>10. CASE Kill(p)
  BY <1>10 DEF TypeOK, Kill
<1>11. QED
  BY <1>1, <1>2, <1>3, <1>4, <1>5, <1>6, <1>7, <1>8, <1>9, <1>10 DEF Acts, ShellActs

LEMMA ActorOrIdle ==
    ASSUME TypeOK, [Next]_vars, NEW q \in Ops
    PROVE  Acts(q) \/ Idle(q)
<1>1. ASSUME NEW p \in Ops, Acts(p) PROVE Acts(q) \/ Idle(q)
  BY <1>1, OthersIdle
<1>2. ASSUME NEW w \in strays, StrayArrives(w) PROVE Idle(q)
  BY <1>2 DEF StrayArrives, Idle, hbVars, opVars
<1>3. CASE Tick \/ UNCHANGED vars
  BY <1>3 DEF Tick, vars, Idle, hbVars, opVars
<1>4. ASSUME NEW p \in Ops, Leave(p) PROVE Acts(p)
  BY <1>4 DEF Leave, Acts, Releases
<1>5. ASSUME NEW p \in Ops, Terminate(p) PROVE Acts(p)
  BY <1>5 DEF Acts
<1>6. QED
  BY <1>1, <1>2, <1>3, <1>4, <1>5 DEF Next, Acts, ShellActs

LEMMA SoundStep ==
    ASSUME LeaseInv, TypeOK', Moves, [Next]_vars
    PROVE  AllSound'
<1> DEFINE OpSound(p) ==
        /\ pc[p] \in {"head", "create", "read"} => view[p] = 0
        /\ pc[p] \in {"create", "patch", "relPatch"} => view[p] <= lease.rv
        /\ (pc[p] \in {"create", "patch"} /\ view[p] = lease.rv) => MayTake(p)
        /\ hb[p] = "patch" => hbView[p] <= lease.rv
        /\ stamp[p] <= now /\ hbStamp[p] <= now
<1>0. TypeOK /\ AllSound
  BY DEF LeaseInv
<1>1. ASSUME NEW w \in strays' PROVE Sound(w)'
  BY <1>0, <1>1, SoundKept DEF Moves, AllSound, TypeOK
<1>2. \A q \in Ops : OpSound(q)
  BY <1>0 DEF AllSound
<1>3. ASSUME NEW q \in Ops PROVE OpSound(q)'
  <2>0. /\ now \in Nat /\ now' \in Nat /\ now <= now'
        /\ lease.rv \in Nat /\ lease'.rv \in Nat /\ lease.rv <= lease'.rv
        /\ (MayTake(q) /\ lease'.rv = lease.rv) => MayTake(q)'
        /\ stamp[q] \in Nat /\ view[q] \in Nat /\ hbStamp[q] \in Nat /\ hbView[q] \in Nat
    BY <1>0, Progress, DatesTyped DEF TypeOK, Leases
  <2>1. CASE Idle(q)
    BY <1>2, <2>0, <2>1 DEF Idle
  <2>2. CASE TakeDate(q)
    <3>1. pc'[q] = "create" /\ view' = view /\ stamp'[q] = now /\ UNCHANGED <<now, lease, hbVars>>
      BY <1>0, <2>2 DEF TakeDate, Go, TypeOK
    <3>2. view[q] = 0
      BY <1>2, <2>2 DEF TakeDate
    <3>3. lease.rv = 0 => MayTake(q)
      BY DEF LeaseInv, LeaseShape, NoLease, MayTake, ExpiredFor
    <3>4. QED
      BY <1>2, <2>0, <3>1, <3>2, <3>3 DEF hbVars
  <2>3. CASE GiveUp(q) \/ (Terminate(q) /\ ~Releases(q))
    BY <1>0, <1>2, <2>0, <2>3
       DEF GiveUp, Terminate, Releases, Go, ForgetAttempt, hbVars, opVars, TypeOK
  <2>4. CASE Read(q)
    BY <1>0, <1>2, <2>0, <2>4 DEF Read, Go, ForgetAttempt, hbVars, TypeOK
  <2>5. CASE Create(q)
    BY <1>0, <1>2, <2>0, <2>5 DEF Create, Hold, Go, ForgetAttempt, hbVars, opVars, TypeOK
  <2>6. CASE Patch(q)
    BY <1>0, <1>2, <2>0, <2>6 DEF Patch, Hold, Go, ForgetAttempt, hbVars, opVars, TypeOK
  <2>7. CASE HeartbeatRead(q)
    BY <1>0, <1>2, <2>0, <2>7 DEF HeartbeatRead, opVars, TypeOK
  <2>8. CASE HeartbeatPatch(q)
    BY <1>0, <1>2, <2>0, <2>8 DEF HeartbeatPatch, ForgetRenewal, opVars, TypeOK
  <2>9. CASE StartBlock(q) \/ EndBlock(q)
    BY <1>2, <2>0, <2>9 DEF StartBlock, EndBlock, opVars, hbVars
  <2>10. CASE Releases(q)
    BY <1>0, <1>2, <2>0, <2>10, StopTyped
       DEF Releases, BeginRelease, StopHeartbeat, ForgetRenewal, Go, TypeOK
  <2>11. CASE ReleasePatch(q)
    BY <1>0, <1>2, <2>0, <2>11 DEF ReleasePatch, Go, hbVars, TypeOK
  <2>12. CASE Kill(q)
    BY <1>0, <1>2, <2>0, <2>12 DEF Kill, Go, ForgetAttempt, ForgetRenewal, hbVars, TypeOK
  <2>13. QED
    BY <1>0, <2>1, <2>2, <2>3, <2>4, <2>5, <2>6, <2>7, <2>8, <2>9, <2>10, <2>11, <2>12,
       ActorOrIdle DEF Acts, ShellActs
<1>4. QED
  BY <1>1, <1>3, Progress DEF AllSound

LEMMA TimePasses ==
    ASSUME [Next]_vars, now' # now
    PROVE  Tick
<1>1. ASSUME NEW p \in Ops, BeginRelease(p) PROVE now' = now
  BY <1>1 DEF BeginRelease
<1>2. QED
  BY <1>1 DEF Next, vars, TakeDate, GiveUp, Create, Hold, Read, Patch, HeartbeatRead,
     HeartbeatPatch, StartBlock, EndBlock, Leave, ReleasePatch, Terminate, Kill, StrayArrives

(* How an operation's shell and heartbeat move: it holds the lease only by a
   write of its own, the trap dates the end of its heartbeat, and what ended
   does not come back.                                                      *)
Fate(q) ==
    /\ pc[q] \in Ended => pc'[q] = pc[q] /\ since'[q] = since[q]
    /\ pc[q] = "relPatch" =>
          /\ pc'[q] \in {"relPatch", "released", "unreleased", "killed"}
          /\ since'[q] = since[q]
    /\ pc[q] = "held" =>
          /\ pc'[q] \in {"held", "relPatch", "unreleased", "killed"}
          /\ (pc'[q] = "held" /\ hb[q] = "failed") => hb'[q] = "failed"
          /\ (pc'[q] = "held" /\ hb'[q] # "failed") =>
                renewed'[q] = renewed[q] \/ lease'.rv = lease.rv + 1
          /\ pc'[q] \in {"relPatch", "unreleased"} => since'[q] = now /\ UNCHANGED <<now, lease>>
    /\ pc[q] \in {"head", "create", "read", "patch"} =>
          /\ pc'[q] \in {"head", "create", "read", "patch", "held", "gaveUp", "killed"}
          /\ pc'[q] = "held" => lease'.rv = lease.rv + 1
          /\ since'[q] = since[q]
    /\ (pc[q] = "relPatch" /\ pc'[q] = "released") =>
          lease'.rv = lease.rv + 1 /\ lease'.holder = None
    /\ q \in busy' => q \in busy \/ (pc[q] = "held" /\ pc'[q] = "held")

LEMMA Fates ==
    ASSUME LeaseInv, [Next]_vars, NEW q \in Ops
    PROVE  Fate(q)
<1> USE DEF Fate, Go, Ended
<1>0. TypeOK /\ pc[q] \in Places
  BY DEF LeaseInv, TypeOK
<1>1. CASE Idle(q)
  BY <1>0, <1>1 DEF Idle, Places
<1>2. CASE TakeDate(q) \/ GiveUp(q)
  BY <1>0, <1>2 DEF TypeOK, TakeDate, GiveUp
<1>3. CASE Create(q)
  <2>1. ASSUME Succeeds(Acquisition(q, 0)) PROVE lease'.rv = lease.rv + 1
    BY <1>0, <2>1, SendersWrites, WrittenLease DEF Succeeds
  <2>2. QED
    BY <1>0, <1>3, <2>1 DEF TypeOK, Create, Hold
<1>4. CASE Patch(q)
  <2>1. ASSUME Succeeds(Acquisition(q, view[q])) PROVE lease'.rv = lease.rv + 1
    BY <1>0, <2>1, SendersWrites, WrittenLease DEF Succeeds, TypeOK
  <2>2. QED
    BY <1>0, <1>4, <2>1 DEF TypeOK, Patch, Hold
<1>5. CASE Read(q)
  BY <1>0, <1>5 DEF TypeOK, Read
<1>6. CASE StartBlock(q) \/ EndBlock(q)
  BY <1>0, <1>6 DEF TypeOK, StartBlock, EndBlock, Places, hbVars
<1>7. CASE ReleasePatch(q)
  <2>1. ASSUME Succeeds(Giving(q)) PROVE lease'.rv = lease.rv + 1 /\ lease'.holder = None
    BY <1>0, <2>1, SendersWrites, WrittenLease DEF Succeeds
  <2>2. QED
    BY <1>0, <1>7, <2>1 DEF TypeOK, ReleasePatch
<1>8. CASE HeartbeatRead(q)
  BY <1>0, <1>8 DEF TypeOK, HeartbeatRead, Places
<1>9. CASE HeartbeatPatch(q)
  <2>1. ASSUME Succeeds(Renewal(q)) PROVE lease'.rv = lease.rv + 1
    BY <1>0, <2>1, SendersWrites, WrittenLease DEF Succeeds
  <2>2. QED
    BY <1>0, <1>9, <2>1 DEF TypeOK, HeartbeatPatch, Places
<1>10. CASE Releases(q)
  BY <1>0, <1>10, StopTyped DEF TypeOK, Releases, BeginRelease
<1>11. CASE Terminate(q) /\ ~Releases(q)
  BY <1>0, <1>11 DEF TypeOK, Terminate, Releases
<1>12. CASE Kill(q)
  BY <1>0, <1>12 DEF TypeOK, Kill
<1>13. QED
  BY <1>0, <1>1, <1>2, <1>3, <1>4, <1>5, <1>6, <1>7, <1>8, <1>9, <1>10, <1>11, <1>12,
     ActorOrIdle DEF Acts, ShellActs

LEMMA StraysStep ==
    ASSUME LeaseInv, TypeOK', Moves, [Next]_vars
    PROVE  StraysFit'
<1> DEFINE Fits(w) ==
        /\ w.kind = "release" => pc[w.op] \in {"unreleased", "killed"}
        /\ w.kind = "renew" => \/ pc[w.op] \in Ended \cup {"relPatch"}
                               \/ pc[w.op] = "held" /\ hb[w.op] = "failed"
        /\ (w.kind = "acquire" /\ (pc[w.op] \in {"held", "relPatch", "released", "unreleased"}
                                     \/ w.op \in busy))
              => w.rv < lease.rv
        /\ pc[w.op] = "released" => w.rv < lease.rv
        /\ pc[w.op] \in {"relPatch", "unreleased"} => w.renew <= since[w.op] + Skew[w.op]
<1>0. TypeOK
  BY DEF LeaseInv
<1>1. ASSUME NEW w \in strays' PROVE Fits(w)'
  <2> DEFINE q == w.op
  <2>1. w \in Writes /\ q \in Ops /\ w.rv \in Nat /\ w.renew \in Nat /\ w.rv <= lease.rv
        /\ w.renew <= now + Skew[q] /\ w.kind \in {"acquire", "renew", "release"}
    BY <1>0, <1>1, DatesTyped DEF TypeOK, Moves, LeaseInv, AllSound, Sound
  <2>2. /\ lease.rv \in Nat /\ lease'.rv \in Nat /\ lease.rv <= lease'.rv
        /\ now \in Nat /\ Skew[q] \in Nat /\ since[q] \in Nat
        /\ pc[q] \in Places
    BY <1>0, <2>1, Progress, DatesTyped DEF TypeOK, Leases
  <2>3. Fate(q)
    BY <2>1, Fates
  <2>4. q \in busy => pc[q] \in {"held", "relPatch", "released", "unreleased", "killed"}
    BY <2>1 DEF LeaseInv, Timely
  <2> HIDE DEF q
  <2>5. CASE w \in strays
    <3>1. Fits(w)
      BY <2>5 DEF LeaseInv, StraysFit
    <3>2. QED
      BY <2>1, <2>2, <2>3, <2>4, <3>1 DEF q, Fate, Ended, Places
  <2>6. CASE GivenUp(w)
    BY <1>0, <2>1, <2>2, <2>3, <2>4, <2>6 DEF q, GivenUp, Fate, Ended, Places, TypeOK
  <2>7. QED
    BY <1>1, <2>5, <2>6 DEF Moves
<1>2. QED
  BY <1>1 DEF StraysFit

LEMMA LeftStep ==
    ASSUME LeaseInv, TypeOK', Moves, [Next]_vars
    PROVE  Left'
<1>0. TypeOK
  BY DEF LeaseInv
<1>1. ASSUME NEW p \in Ops
      PROVE  /\ pc'[p] = "released" => lease'.holder # p
             /\ (pc'[p] \in {"relPatch", "unreleased"} /\ lease'.holder = p) =>
                   lease'.renew <= since'[p] + Skew[p]
  <2>1. /\ pc[p] = "released" => lease.holder # p
        /\ (pc[p] \in {"relPatch", "unreleased"} /\ lease.holder = p) =>
              lease.renew <= since[p] + Skew[p]
        /\ lease.holder = p => lease.renew <= now + Skew[p]
    BY DEF LeaseInv, Left, AllSound
  <2>2. Fate(p) /\ pc[p] \in Places /\ p # None
    BY <1>0, Fates, LeaseAssumption DEF TypeOK
  <2>3. CASE lease' = lease
    BY <2>1, <2>2, <2>3, LeaseAssumption DEF Fate, Ended, Places
  <2>4. ASSUME NEW w \in Writes, Effective(w), Sent(w) \/ (w \in strays /\ pc' = pc)
        PROVE  /\ pc'[p] = "released" => lease'.holder # p
               /\ (pc'[p] \in {"relPatch", "unreleased"} /\ lease'.holder = p) =>
                     lease'.renew <= since'[p] + Skew[p]
    <3>1. /\ w.kind = "release" => lease'.holder = None
          /\ w.kind # "release" => lease'.holder = w.op /\ lease'.renew = w.renew
          /\ w.rv = lease.rv /\ lease.rv \in Nat
          /\ lease'.rv = lease.rv + 1
      BY <1>0, <2>4, WrittenLease, DatesTyped DEF Effective, Applicable
    <3>2. CASE w.op # p \/ w.kind = "release"
      BY <2>2, <3>1, <3>2
    <3>3. CASE w.op = p /\ w.kind # "release" /\ w \in strays /\ pc' = pc
      <4>1. /\ pc[p] = "released" => w.rv < lease.rv
            /\ pc[p] \in {"relPatch", "unreleased"} => w.renew <= since[p] + Skew[p]
        BY <3>3 DEF LeaseInv, StraysFit
      <4>2. QED
        BY <2>2, <3>1, <3>3, <4>1 DEF Fate, Ended
    <3>4. CASE w.op = p /\ w.kind # "release" /\ Sent(w)
      <4>1. pc'[p] \in {"held", "read", "head", "killed"}
        BY <1>0, <2>2, <3>4 DEF Sent, TypeOK
      <4>2. QED
        BY <4>1
    <3>5. QED
      BY <2>4, <3>2, <3>3, <3>4
  <2>5. QED
    BY <2>3, <2>4 DEF Moves
<1>2. QED
  BY <1>1 DEF Left

(* The date an operation knows of its lease is the date the lease has.      *)
LEMMA TimelyStep ==
    ASSUME LeaseInv, TypeOK', Moves, [Next]_vars
    PROVE  Timely'
<1>0. TypeOK
  BY DEF LeaseInv
<1>1. ASSUME NEW p \in Ops
      PROVE  (pc'[p] = "held" /\ hb'[p] # "failed" /\ lease'.holder = p) =>
                   lease'.renew = renewed'[p] + Skew[p]
  <2> SUFFICES ASSUME pc'[p] = "held", hb'[p] # "failed", lease'.holder = p
               PROVE  lease'.renew = renewed'[p] + Skew[p]
    OBVIOUS
  <2>1. Fate(p) /\ pc[p] \in Places /\ p # None /\ lease.rv \in Nat
    BY <1>0, Fates, DatesTyped, LeaseAssumption DEF TypeOK
  <2>2. pc[p] \in {"head", "create", "read", "patch"} => lease'.rv = lease.rv + 1
    BY <2>1 DEF Fate
  <2>3. pc[p] \in {"head", "create", "read", "patch", "held"}
    BY <2>1 DEF Fate, Places, Ended
  <2>4. CASE lease' = lease
    <3>1. pc[p] = "held" /\ hb[p] # "failed" /\ renewed'[p] = renewed[p]
      BY <2>1, <2>2, <2>3, <2>4 DEF Fate
    <3>2. QED
      BY <2>4, <3>1 DEF LeaseInv, Timely
  <2>5. ASSUME NEW w \in Writes, Effective(w), Sent(w) \/ (w \in strays /\ UNCHANGED <<pc, hbVars>>)
        PROVE  lease'.renew = renewed'[p] + Skew[p]
    <3>1. /\ w.kind # "release" /\ w.op = p /\ lease'.renew = w.renew
          /\ w.rv = lease.rv /\ w.kind \in {"acquire", "renew", "release"}
      BY <1>0, <2>1, <2>5, WrittenLease, DatesTyped DEF Effective, Applicable
    <3>2. CASE w \in strays /\ UNCHANGED <<pc, hbVars>>
      <4>1. pc[p] = "held" /\ hb[p] # "failed"
        BY <3>2 DEF hbVars
      <4>2. QED
        BY <2>1, <3>1, <3>2, <4>1 DEF LeaseInv, StraysFit, Ended
    <3>3. CASE Sent(w)
      BY <3>1, <3>3 DEF Sent
    <3>4. QED
      BY <2>5, <3>2, <3>3
  <2>6. QED
    BY <2>4, <2>5 DEF Moves
<1>2. ASSUME NEW p \in Ops
      PROVE  /\ pc'[p] \in {"create", "read", "patch"} => now' <= stamp'[p] + RenewLag
             /\ (pc'[p] = "held" /\ hb'[p] # "failed") => now' <= renewed'[p] + RenewLag
             /\ hb'[p] = "patch" => renewed'[p] <= hbStamp'[p]
             /\ p \in busy' => since'[p] <= now' /\ now' <= since'[p] + BlockMax
             /\ p \in busy' => pc'[p] \in {"held", "relPatch", "released", "unreleased", "killed"}
             /\ renewed'[p] <= now'
  <2>0. /\ pc[p] \in {"create", "read", "patch"} => now <= stamp[p] + RenewLag
        /\ (pc[p] = "held" /\ hb[p] # "failed") => now <= renewed[p] + RenewLag
        /\ hb[p] = "patch" => renewed[p] <= hbStamp[p]
        /\ p \in busy => since[p] <= now /\ now <= since[p] + BlockMax
        /\ p \in busy => pc[p] \in {"held", "relPatch", "released", "unreleased", "killed"}
        /\ renewed[p] <= now /\ stamp[p] <= now /\ hbStamp[p] <= now
    BY DEF LeaseInv, Timely, AllSound
  <2>t. /\ now \in Nat /\ now' \in Nat /\ stamp[p] \in Nat /\ hbStamp[p] \in Nat
        /\ renewed[p] \in Nat /\ since[p] \in Nat /\ RenewLag \in Nat /\ BlockMax \in Nat
        /\ RenewInterval \in Nat /\ RenewInterval <= RenewLag
    BY <1>0, DatesTyped, LeaseAssumption DEF TypeOK
  <2>1. CASE Idle(p) /\ now' = now
    BY <2>0, <2>1 DEF Idle
  <2>2. CASE TakeDate(p) \/ GiveUp(p) \/ Read(p)
    BY <1>0, <2>0, <2>t, <2>2
       DEF TypeOK, TakeDate, GiveUp, Read, Go, ForgetAttempt, hbVars, opVars
  <2>3. CASE Create(p)
    BY <1>0, <2>0, <2>t, <2>3 DEF TypeOK, Create, Hold, Go, ForgetAttempt, hbVars, opVars
  <2>4. CASE Patch(p)
    BY <1>0, <2>0, <2>t, <2>4 DEF TypeOK, Patch, Hold, Go, ForgetAttempt, hbVars, opVars
  <2>5. CASE StartBlock(p) \/ EndBlock(p)
    BY <1>0, <2>0, <2>t, <2>5 DEF TypeOK, StartBlock, EndBlock, hbVars, opVars
  <2>6. CASE ReleasePatch(p)
    BY <1>0, <2>0, <2>t, <2>6 DEF TypeOK, ReleasePatch, Go, hbVars
  <2>7. CASE HeartbeatRead(p)
    BY <1>0, <2>0, <2>t, <2>7 DEF TypeOK, HeartbeatRead, opVars
  <2>8. CASE HeartbeatPatch(p)
    BY <1>0, <2>0, <2>t, <2>8 DEF TypeOK, HeartbeatPatch, ForgetRenewal, opVars
  <2>9. CASE Releases(p)
    BY <1>0, <2>0, <2>t, <2>9
       DEF TypeOK, Releases, BeginRelease, StopHeartbeat, ForgetRenewal, Go
  <2>10. CASE Terminate(p) /\ ~Releases(p)
    BY <1>0, <2>0, <2>t, <2>10 DEF TypeOK, Terminate, Releases, Go, ForgetAttempt, hbVars
  <2>11. CASE Kill(p)
    BY <1>0, <2>0, <2>t, <2>11 DEF TypeOK, Kill, Go, ForgetAttempt, ForgetRenewal, hbVars, Ended
  <2>12. CASE Tick
    <3>1. InTime(p) /\ now' = now + 1
      BY <2>12 DEF Tick
    <3>2. QED
      BY <2>0, <2>t, <2>12, <3>1 DEF Tick, InTime, opVars, hbVars
  <2>13. CASE Idle(p) /\ now' # now
    BY <2>12, <2>13, TimePasses
  <2>14. QED
    BY <1>0, <2>1, <2>2, <2>3, <2>4, <2>5, <2>6, <2>7, <2>8, <2>9, <2>10, <2>11, <2>13,
       ActorOrIdle DEF Acts, ShellActs
<1>3. QED
  BY <1>1, <1>2 DEF Timely

LEMMA LeaseInit ==
    ASSUME Init
    PROVE  LeaseInv
<1>1. TypeOK
  BY LeaseAssumption
     DEF Init, TypeOK, NoLease, Leases, Places, HeartbeatStates, Writes
<1>2. LeaseShape
  BY DEF Init, LeaseShape, NoLease
<1>3. AllSound /\ StraysFit /\ Left /\ Timely
  BY LeaseAssumption DEF Init, AllSound, StraysFit, Left, Timely, NoLease, Ended
<1>4. QED
  BY <1>1, <1>2, <1>3 DEF LeaseInv

LEMMA LeaseStep ==
    ASSUME LeaseInv, [Next]_vars
    PROVE  LeaseInv' /\ Moves
<1>1. TypeOK'
  BY TypeStep DEF LeaseInv
<1>2. Moves
  BY StepMoves
<1>3. QED
  BY <1>1, <1>2, ShapeStep, SoundStep, StraysStep, LeftStep, TimelyStep DEF LeaseInv

-----------------------------------------------------------------------------
(* What the lease promises whatever happens.                                *)

LEMMA InvariantLease == Spec => []LeaseInv
<1>1. LeaseInv /\ [Next]_vars => LeaseInv'
  BY LeaseStep
<1>2. QED
  BY LeaseInit, <1>1, PTL DEF Spec

(* Every variable keeps its type, and a heartbeat runs only for an operation
   that holds the lease or was killed.                                      *)
THEOREM TypeCorrect == Spec => []TypeOK
<1>1. LeaseInv => TypeOK
  BY DEF LeaseInv
<1>2. QED
  BY <1>1, InvariantLease, PTL

LEMMA GivenBack ==
    ASSUME LeaseInv
    PROVE  ReleasedForGood
<1>1. \A p \in Ops : pc[p] = "released" => lease.holder # p
  BY DEF LeaseInv, Left
<1>2. ASSUME lease.holder = None, NEW p \in Ops PROVE ExpiredFor(p)
  <2>1. now \in Nat /\ now >= 1 /\ Skew[p] \in Nat
    BY DatesTyped, LeaseAssumption DEF LeaseInv, TypeOK
  <2>2. lease.duration = 0 \/ (lease.renew = 0 /\ lease.duration = 1)
    BY <1>2 DEF LeaseInv, LeaseShape
  <2>3. QED
    BY <2>1, <2>2 DEF ExpiredFor, Clock
<1>3. UnreleasedAges
  BY DEF LeaseInv, Left, UnreleasedAges
<1>4. QED
  BY <1>1, <1>2, <1>3 DEF ReleasedForGood, CleanRelease

(* A successful release is for good, whatever renewal is still under way, and
   frees the lease for everybody; a failed one leaves a lease dated no later
   than the end of its heartbeat (lc_release_lock, on_exit of both scripts). *)
THEOREM ReleaseIsForGood == Spec => []ReleasedForGood
<1>1. QED
  BY GivenBack, InvariantLease, PTL

LEMMA TakenWhenExpired ==
    ASSUME LeaseInv, Moves, NEW p \in Ops, lease.holder = p, lease'.holder # p
    PROVE  \/ /\ lease'.holder = None
              /\ pc[p] \in {"relPatch", "unreleased", "killed"}
           \/ lease'.holder \in Ops /\ ExpiredFor(lease'.holder)
<1>1. PICK w \in Writes :
        /\ Effective(w) /\ Sound(w)
        /\ Sent(w) \/ (w \in strays /\ UNCHANGED <<pc, hbVars>>)
  BY DEF Moves
<1>2. /\ w.kind \in {"acquire", "renew", "release"} /\ w.op \in Ops
      /\ w.rv = lease.rv
      /\ w.kind # "acquire" => w.op = p
      /\ w.kind = "release" => lease'.holder = None
      /\ w.kind # "release" => lease'.holder = w.op
  BY <1>1, WrittenLease, DatesTyped DEF Effective, Applicable, LeaseInv
<1>3. CASE w.kind = "release"
  BY <1>1, <1>2, <1>3 DEF Sent, LeaseInv, StraysFit
<1>4. CASE w.kind = "acquire"
  BY <1>1, <1>2, <1>4 DEF Sound, MayTake
<1>5. QED
  BY <1>2, <1>3, <1>4

LEMMA LostStaysLost ==
    ASSUME LeaseInv, Moves, NEW p \in Ops, lease.holder # p,
           pc[p] \in {"held", "relPatch", "released", "unreleased"}
    PROVE  lease'.holder # p
<1>1. SUFFICES ASSUME NEW w \in Writes, Effective(w), Sound(w),
                      Sent(w) \/ (w \in strays /\ UNCHANGED <<pc, hbVars>>)
               PROVE  lease'.holder # p
  BY DEF Moves
<1>2. /\ w.kind \in {"acquire", "renew", "release"} /\ lease.rv \in Nat
      /\ w.rv = lease.rv
      /\ w.kind # "acquire" => w.op = lease.holder
      /\ w.kind = "release" => lease'.holder = None
      /\ w.kind # "release" => lease'.holder = w.op
  BY <1>1, WrittenLease, DatesTyped DEF Effective, Applicable, LeaseInv
<1>3. CASE w.kind # "acquire"
  BY <1>2, <1>3, LeaseAssumption
<1>4. CASE w.kind = "acquire" /\ w.op = p
  BY <1>1, <1>2, <1>4 DEF Sent, LeaseInv, StraysFit
<1>5. QED
  BY <1>2, <1>3, <1>4

(* The lease leaves its holder by its own release or to an operation on whose
   clock it is expired at that moment, and an operation that lost it is never
   made holder again by a late write of its own (compare-and-swap on
   resourceVersion, lc_acquire_lock and lc_renew_lock).                     *)
THEOREM HandedOverOnce == Spec => ChangesHandsOnce
<1>1. LeaseInv /\ [Next]_vars =>
        [\A p \in Ops : (lease.holder = p /\ lease'.holder # p) =>
          \/ /\ lease'.holder = None
             /\ pc[p] \in {"relPatch", "unreleased", "killed"}
          \/ lease'.holder \in Ops /\ ExpiredFor(lease'.holder)]_vars
  BY LeaseStep, TakenWhenExpired
<1>2. LeaseInv /\ [Next]_vars =>
        [\A p \in Ops :
          (pc[p] \in {"held", "relPatch", "released", "unreleased"}
             /\ lease.holder # p) => lease'.holder # p]_vars
  BY LeaseStep, LostStaysLost
<1>3. QED
  BY <1>1, <1>2, InvariantLease, PTL DEF ChangesHandsOnce, NoTheft, LostForGood, Spec

-----------------------------------------------------------------------------
(* What the lease promises to blocks that fit into it.                      *)

(* An operation in a block stays there until it ends the block: without
   SIGTERM its trap does not run, and a killed one is left with its block.  *)
LEMMA InBlock ==
    ASSUME LeaseInv, "TERM" \notin Signals, [Next]_vars, NEW p \in Ops,
           p \in busy, p \in busy', pc[p] \in {"held", "killed"}
    PROVE  /\ pc'[p] \in {"held", "killed"} /\ since'[p] = since[p]
           /\ hb'[p] = "patch" =>
                \/ hb[p] = "patch" /\ hbStamp'[p] = hbStamp[p]
                \/ hbStamp'[p] = now /\ now' = now
<1>0. TypeOK
  BY DEF LeaseInv
<1>1. CASE Idle(p)
  BY <1>1 DEF Idle
<1>2. CASE HeartbeatRead(p)
  BY <1>0, <1>2 DEF TypeOK, HeartbeatRead
<1>3. CASE HeartbeatPatch(p)
  BY <1>0, <1>3 DEF TypeOK, HeartbeatPatch
<1>4. CASE Kill(p)
  BY <1>0, <1>4 DEF TypeOK, Kill, Go, hbVars
<1>5. CASE StartBlock(p) \/ EndBlock(p)
  BY <1>0, <1>5 DEF TypeOK, StartBlock, EndBlock
<1>6. CASE TakeDate(p) \/ GiveUp(p) \/ Create(p) \/ Read(p) \/ Patch(p) \/ ReleasePatch(p)
  BY <1>6 DEF TakeDate, GiveUp, Create, Read, Patch, ReleasePatch
<1>7. CASE Releases(p) \/ Terminate(p)
  BY <1>7 DEF Releases, Terminate
<1>8. QED
  BY <1>0, <1>1, <1>2, <1>3, <1>4, <1>5, <1>6, <1>7, ActorOrIdle DEF Acts, ShellActs

(* A block begins only after a check, with no write of the operation's own
   under way but the renewal of a heartbeat that is well.                   *)
LEMMA BlockBegins ==
    ASSUME LeaseInv, [Next]_vars, NEW p \in Ops, p \notin busy, p \in busy'
    PROVE  StartBlock(p)
<1>1. CASE Idle(p)
  BY <1>1 DEF Idle
<1>2. CASE ShellActs(p)
  BY <1>2 DEF ShellActs, TakeDate, GiveUp, Create, Hold, Read, Patch, EndBlock, ReleasePatch
<1>3. CASE HeartbeatRead(p) \/ HeartbeatPatch(p) \/ Kill(p) \/ Releases(p)
  BY <1>3 DEF HeartbeatRead, HeartbeatPatch, Kill, Releases, BeginRelease
<1>4. CASE Terminate(p) /\ ~Releases(p)
  BY <1>4 DEF Terminate, BeginRelease
<1>5. QED
  BY <1>1, <1>2, <1>3, <1>4, ActorOrIdle DEF Acts, LeaseInv

LEMMA BlockEnds ==
    ASSUME TypeOK, [Next]_vars, NEW p \in Ops, p \in busy, p \notin busy'
    PROVE  EndBlock(p)
<1>1. CASE Idle(p)
  BY <1>1 DEF Idle
<1>2. CASE ShellActs(p)
  BY <1>2 DEF ShellActs, TakeDate, GiveUp, Create, Hold, Read, Patch, StartBlock, ReleasePatch
<1>3. CASE HeartbeatRead(p) \/ HeartbeatPatch(p) \/ Kill(p) \/ Releases(p)
  BY <1>3 DEF HeartbeatRead, HeartbeatPatch, Kill, Releases, BeginRelease
<1>4. CASE Terminate(p) /\ ~Releases(p)
  BY <1>4 DEF Terminate, BeginRelease
<1>5. QED
  BY <1>1, <1>2, <1>3, <1>4, ActorOrIdle DEF Acts

(* During a block no other clock finds the lease expired.                   *)
LEMMA NobodyExpires ==
    ASSUME LeaseInv, SafeMargin, Fenced, NEW p \in busy, NEW q \in Ops
    PROVE  ~ExpiredFor(q)
<1>1. p \in Ops /\ TypeOK
  BY DEF LeaseInv, TypeOK
<1>2. /\ lease.holder = p /\ since[p] + Skew[p] <= lease.renew + RenewLag
      /\ now <= since[p] + BlockMax
      /\ BlockMax + RenewLag + Skew[q] < Duration + Skew[p]
      /\ lease.duration = Duration
  BY <1>1, LeaseAssumption DEF Fenced, LeaseInv, Timely, SafeMargin, LeaseShape
<1>3. /\ now \in Nat /\ since[p] \in Nat /\ Skew[p] \in Nat /\ Skew[q] \in Nat
      /\ lease.renew \in Nat /\ RenewLag \in Nat /\ BlockMax \in Nat
      /\ Duration \in Nat /\ Duration # 0
  BY <1>1, DatesTyped, LeaseAssumption
<1>4. QED
  BY <1>2, <1>3 DEF ExpiredFor, Clock

LEMMA FencedStep ==
    ASSUME LeaseInv, SafeMargin, Fenced, [Next]_vars
    PROVE  Fenced'
<1>0. TypeOK /\ TypeOK' /\ Moves /\ LeaseInv'
  BY LeaseStep DEF LeaseInv
<1> DEFINE FencedOp(p) ==
        /\ pc[p] \in {"held", "killed"}
        /\ lease.holder = p
        /\ since[p] + Skew[p] <= lease.renew + RenewLag
        /\ hb[p] = "patch" => since[p] <= hbStamp[p] + RenewLag
        /\ \A w \in strays : w.op = p =>
              /\ w.kind # "release"
              /\ w.kind = "renew" => since[p] + Skew[p] <= w.renew + RenewLag
<1>1. ASSUME NEW p \in busy', p \notin busy PROVE FencedOp(p)'
  <2>1. p \in Ops /\ StartBlock(p)
    BY <1>0, <1>1, BlockBegins DEF TypeOK
  <2>2. /\ pc[p] = "held" /\ hb[p] # "failed" /\ lease.holder = p
        /\ UNCHANGED <<lease, pc, hb, hbStamp, strays>> /\ since'[p] = now
    BY <1>0, <2>1 DEF StartBlock, Check, ValidFor, hbVars, TypeOK
  <2>3. /\ now <= renewed[p] + RenewLag /\ lease.renew = renewed[p] + Skew[p]
        /\ hb[p] = "patch" => renewed[p] <= hbStamp[p]
    BY <2>1, <2>2 DEF LeaseInv, Timely
  <2>4. \A w \in strays : w.op = p => w.kind # "release" /\ w.kind # "renew"
    BY <2>2 DEF LeaseInv, StraysFit, Ended
  <2>5. /\ now \in Nat /\ renewed[p] \in Nat /\ hbStamp[p] \in Nat
        /\ Skew[p] \in Nat /\ RenewLag \in Nat
    BY <1>0, <2>1, DatesTyped, LeaseAssumption
  <2>6. QED
    BY <2>2, <2>3, <2>4, <2>5
<1>2. ASSUME NEW p \in busy', p \in busy PROVE FencedOp(p)'
  <2>0. p \in Ops /\ p # None
    BY <1>0, LeaseAssumption DEF TypeOK
  <2>1. FencedOp(p)
    BY <1>2 DEF Fenced
  <2>2. /\ pc'[p] \in {"held", "killed"} /\ since'[p] = since[p]
        /\ hb'[p] = "patch" =>
             \/ hb[p] = "patch" /\ hbStamp'[p] = hbStamp[p]
             \/ hbStamp'[p] = now /\ now' = now
    BY <1>2, <2>0, <2>1, InBlock DEF SafeMargin
  <2>3. /\ now \in Nat /\ since[p] \in Nat /\ hbStamp[p] \in Nat /\ since[p] <= now
        /\ Skew[p] \in Nat /\ RenewLag \in Nat
    BY <1>0, <1>2, <2>0, DatesTyped, LeaseAssumption DEF LeaseInv, Timely
  <2>4. lease'.holder = p /\ since[p] + Skew[p] <= lease'.renew + RenewLag
    <3>1. CASE lease' = lease
      BY <2>1, <3>1
    <3>2. ASSUME NEW w \in Writes, Effective(w), Sound(w),
                 Sent(w) \/ (w \in strays /\ UNCHANGED <<pc, hbVars>>)
          PROVE  lease'.holder = p /\ since[p] + Skew[p] <= lease'.renew + RenewLag
      <4>1. /\ w.kind \in {"acquire", "renew", "release"} /\ w.op \in Ops
            /\ lease.rv \in Nat /\ w.rv = lease.rv
            /\ w.kind # "acquire" => w.op = p
            /\ w.kind # "release" => lease'.holder = w.op /\ lease'.renew = w.renew
        BY <1>0, <2>1, <3>2, WrittenLease, DatesTyped DEF Effective, Applicable
      <4>2. CASE w.kind = "release"
        BY <2>1, <3>2, <4>1, <4>2 DEF Sent
      <4>3. CASE w.kind = "renew" /\ w \in strays
        BY <2>1, <4>1, <4>3
      <4>4. CASE w.kind = "renew" /\ Sent(w)
        <5>1. hb[p] = "patch" /\ w.renew = hbStamp[p] + Skew[p]
          BY <4>1, <4>4 DEF Sent
        <5>2. QED
          BY <2>1, <2>3, <4>1, <4>4, <5>1
      <4>5. CASE w.kind = "acquire"
        <5>1. MayTake(w.op)
          BY <3>2, <4>1, <4>5 DEF Sound
        <5>2. w.op = p
          BY <1>2, <2>1, <4>1, <5>1, NobodyExpires DEF MayTake
        <5>3. QED
          BY <1>2, <2>1, <3>2, <4>1, <4>5, <5>2 DEF Sent, LeaseInv, StraysFit
      <4>6. QED
        BY <3>2, <4>1, <4>2, <4>3, <4>4, <4>5
    <3>3. QED
      BY <1>0, <3>1, <3>2 DEF Moves
  <2>5. ASSUME NEW w \in strays', w.op = p
        PROVE  /\ w.kind # "release"
               /\ w.kind = "renew" => since[p] + Skew[p] <= w.renew + RenewLag
    <3>1. CASE w \in strays
      BY <2>1, <2>5, <3>1
    <3>2. CASE GivenUp(w)
      BY <2>1, <2>3, <2>5, <3>2 DEF GivenUp
    <3>3. QED
      BY <1>0, <2>5, <3>1, <3>2 DEF Moves
  <2>6. QED
    BY <2>1, <2>2, <2>3, <2>4, <2>5
<1>3. QED
  BY <1>1, <1>2 DEF Fenced

LEMMA InvariantFence == Spec => []FenceInv
<1>1. Init => FenceInv
  BY DEF Init, FenceInv, Fenced
<1>2. LeaseInv /\ FenceInv /\ [Next]_vars => FenceInv'
  BY FencedStep DEF FenceInv, SafeMargin
<1>3. QED
  BY <1>1, <1>2, InvariantLease, PTL DEF Spec

(* Two lifecycle operations never change the cluster at the same time, as long
   as no shell is terminated and a block is shorter than the lease by the
   heartbeat's lag and the difference of the clocks (lc_assert_lock_held
   before every block of install.sh and uninstall.sh).                      *)
THEOREM BlocksExclude ==
    ASSUME SafeMargin
    PROVE  Spec => []Exclusive
<1>1. FenceInv => Exclusive
  BY SafeMargin DEF FenceInv, Fenced, Exclusive
<1>2. QED
  BY <1>1, InvariantFence, PTL

(* Every step of the scripts, their heartbeats and the late writes is a step
   of the lock they rely on, or none of its business.                       *)
LEMMA LockStep ==
    ASSUME LeaseInv, SafeMargin, Fenced, [Next]_vars
    PROVE  [Lock!Next]_(Lock!vars)
<1>0. TypeOK /\ TypeOK' /\ Moves /\ Fenced'
  BY LeaseStep, FencedStep DEF LeaseInv
<1>1. ASSUME NEW p \in Ops, StartBlock(p) PROVE Lock!Begin(p)
  BY <1>1 DEF StartBlock, Check, ValidFor, Lock!Begin
<1>2. ASSUME NEW p \in Ops, EndBlock(p) PROVE Lock!End(p)
  BY <1>2 DEF EndBlock, Lock!End
<1>3. CASE busy' = busy
  <2>1. CASE lease'.holder = lease.holder
    BY <1>3, <2>1 DEF Lock!vars
  <2>2. CASE lease'.holder # lease.holder
    <3>1. lease.holder \notin busy
      BY <1>0, <1>3, <2>2 DEF Fenced
    <3>2. lease'.holder \in Ops \cup {None}
      BY <1>0, DatesTyped DEF TypeOK, Leases
    <3>3. QED
      BY <1>3, <3>1, <3>2 DEF Lock!Next, Lock!Pass
  <2>3. QED
    BY <2>1, <2>2
<1>4. CASE busy' # busy
  <2>1. PICK p \in Ops : ~(p \in busy' <=> p \in busy)
    BY <1>0, <1>4 DEF TypeOK
  <2>2. StartBlock(p) \/ EndBlock(p)
    <3>1. CASE p \in busy'
      BY <2>1, <3>1, BlockBegins
    <3>2. CASE p \notin busy'
      BY <1>0, <2>1, <3>2, BlockEnds
    <3>3. QED
      BY <3>1, <3>2
  <2>3. QED
    BY <1>1, <1>2, <2>2 DEF Lock!Next
<1>5. QED
  BY <1>3, <1>4

(* With SafeMargin the lease, its heartbeat and its checks implement the lock
   that the scripts rely on: it never leaves its owner during a block.      *)
THEOREM LeaseIsAFencedLock ==
    ASSUME SafeMargin
    PROVE  Spec => ImplementsFencedLock
<1>1. Init => Lock!Init
  BY DEF Init, NoLease, Lock!Init
<1>2. LeaseInv /\ FenceInv /\ [Next]_vars => [Lock!Next]_(Lock!vars)
  BY SafeMargin, LockStep DEF FenceInv
<1>3. QED
  BY <1>1, <1>2, InvariantLease, InvariantFence, PTL
     DEF Spec, ImplementsFencedLock, Lock!Spec
=============================================================================
