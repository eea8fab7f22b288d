------------------------------ MODULE Lifecycle ------------------------------
(***************************************************************************)
(* install.sh and uninstall.sh running against one cluster: the order of   *)
(* their checks and mutating calls, the snapshot and the rollback of a     *)
(* failed install, and the lifecycle lock between them, which is taken as  *)
(* the FencedLock that LifecycleLease implements.                          *)
(*                                                                         *)
(* An object is abstracted to whose version it is.  Every kubectl or helm  *)
(* call is a step that succeeds, fails, or fails after it took effect, and *)
(* a signal may reach a script and the call it waits for at any time.  Two *)
(* others change the cluster meanwhile: another system, which may make an   *)
(* object or the release its own at any time, and the namespace controller, *)
(* which empties a Namespace that is being deleted piece by piece.          *)
(***************************************************************************)
EXTENDS Naturals, Sequences, FiniteSets

Objects == {"serviceaccount", "clusterrole", "clusterrolebinding",
            "networkpolicy", "k8sgpt"}

CONSTANTS Installs, Uninstalls, None,
          Clusters,     \* what the objects may be before either script runs
          Purges,       \* the PURGE_* options an uninstall may be given
          Contested     \* what another system may write while they run

Ops == Installs \cup Uninstalls

ASSUME LifecycleAssumption ==
    /\ Installs \cap Uninstalls = {} /\ None \notin Ops
    /\ Clusters \subseteq [Objects -> {"absent", "old", "foreign"}]
    /\ Purges \subseteq SUBSET {"demo", "secret", "namespace"}
    /\ Contested \subseteq Objects \cup {"release"}

VARIABLES
    namespace,  \* is there the Namespace that also holds the Lease
    deletion,   \* of that Namespace: "none", "begun", or "leaseGone"
    secret,     \* is there the Secret with the provider's key
    demo,       \* is there the Namespace of the demo workload
    release,    \* the Helm release
    object,     \* [Objects -> Versions], what the scripts apply and delete
    owner,      \* the operation that owns the lifecycle lock, or None
    pc,         \* where each script is
    todo,       \* the objects its current loop has still to visit
    held,       \* operations with LC_LOCK_HELD=true
    found,      \* what a script's survey found
    helmDone,   \* HELM_UPGRADE_SUCCEEDED
    failures,   \* has a step of the rollback failed
    preserved,  \* installs that leave their snapshot directory behind
    purge,      \* the PURGE_* options of each uninstall
    outcome     \* how a script ended

contents == <<secret, demo, release, object>>
cluster == <<namespace, deletion, contents>>
memory == <<held, found, helmDone, failures, preserved>>
vars == <<cluster, owner, pc, todo, memory, purge, outcome>>

ClusterScoped == {"clusterrole", "clusterrolebinding"}
ChartObjects == {"serviceaccount", "clusterrole", "clusterrolebinding"}

ApplyOrder == <<"serviceaccount", "clusterrole", "clusterrolebinding", "networkpolicy">>
RestoreOrder == ApplyOrder \o <<"k8sgpt">>

(* "mixed" holds what some version says and fields of another one besides.   *)
Versions == {"absent", "old", "new", "mixed", "foreign"}
ReleaseStates == {"absent", "old", "new", "broken", "foreign"}

(* The places where a script changes the cluster.  Each is entered by a
   check of the lock and covers every call up to the next check.            *)
InstallBlocks == {"helm", "apply", "applyCr", "undoHelm", "restore"}
UninstallBlocks == {"deleteCr", "deleteHelm", "deleteRbac", "deleteDemo", "deleteSecret"}

Places == InstallBlocks \cup UninstallBlocks \cup
    {"start", "acquire", "survey", "snapshot", "toHelm", "toApply", "toCr", "rollout",
     "rollback", "confirm", "toDeleteCr", "toDeleteHelm", "toDeleteRbac",
     "toPurge", "deleteNamespace", "awaitNamespace", "residual", "release", "ended"}

Working == {p \in Ops : pc[p] \in InstallBlocks \cup UninstallBlocks}

(* What the checks found, and whether they came across nothing foreign.     *)
Surveys == [namespace : BOOLEAN, trusted : BOOLEAN, ready : BOOLEAN,
            release : ReleaseStates, object : [Objects -> Versions]]

NothingFound == [namespace |-> TRUE, trusted |-> FALSE, ready |-> FALSE,
                 release |-> "absent", object |-> [o \in Objects |-> "absent"]]

Present(o) == object[o] # "absent"

(* There is no Lease to hold: the Namespace is gone, or has lost it already. *)
LockGone == ~namespace \/ deletion = "leaseGone"

(* The API server takes a write: nothing new is created in a Namespace that
   is being deleted, but what is still there can be changed.                *)
CanHold(o) == Present(o) \/ o \in ClusterScoped \/ (namespace /\ deletion = "none")
CanRecord == namespace /\ (release # "absent" \/ deletion = "none")

-----------------------------------------------------------------------------
(* The cluster before: nothing, an earlier installation, perhaps a damaged
   one, or objects and releases of another system.                          *)
Init ==
    /\ deletion = "none"
    /\ namespace \in BOOLEAN /\ secret \in BOOLEAN /\ demo = TRUE
    /\ release \in {"absent", "old", "broken", "foreign"}
    /\ object \in Clusters
    /\ ~namespace => /\ ~secret
                     /\ release = "absent"
                     /\ \A o \in Objects \ ClusterScoped : ~Present(o)
    /\ owner = None
    /\ pc = [p \in Ops |-> "start"]
    /\ todo = [p \in Ops |-> <<>>]
    /\ held = {}
    /\ found = [p \in Ops |-> NothingFound]
    /\ helmDone = {} /\ failures = {} /\ preserved = {}
    /\ purge \in [Uninstalls -> Purges]
    /\ outcome = [p \in Ops |-> "none"]

Go(p, place) == pc' = [pc EXCEPT ![p] = place]
Visit(p, order) == todo' = [todo EXCEPT ![p] = order]

(* A script exits: on_exit rolls back a failed install whose Helm step had
   succeeded, and then releases the lock.                                   *)
Exit(p, result) ==
    /\ outcome' = [outcome EXCEPT ![p] = result]
    /\ Go(p, IF result = "failed" /\ p \in helmDone THEN "rollback" ELSE "release")

(* Any query or check may fail for a reason of its own: API, RBAC, network. *)
ExitAt(p, places) ==
    /\ pc[p] \in places
    /\ Exit(p, "failed")
    /\ UNCHANGED <<cluster, owner, todo, memory, purge>>

(* The variables of a shell that ends.                                      *)
Forget(p) ==
    /\ found' = [found EXCEPT ![p] = NothingFound]
    /\ helmDone' = helmDone \ {p}
    /\ failures' = failures \ {p}

(* A signal to the script and to the call it waits for: the EXIT trap runs
   with the status of the last finished command, which is 0, and so without
   a rollback.  The rollback itself has no trap any more: a signal ends it at
   once, with the lock held and the snapshot in place.                      *)
Interrupt(p) ==
    /\ pc[p] \in Places \ {"start", "acquire", "release", "ended"}
    /\ outcome' = [outcome EXCEPT ![p] = "interrupted"]
    /\ Visit(p, <<>>)
    /\ IF pc[p] \in {"rollback", "undoHelm", "restore", "confirm"}
       THEN Go(p, "ended") /\ Forget(p) /\ preserved' = preserved \cup {p}
       ELSE Go(p, "release") /\ UNCHANGED <<found, helmDone, failures, preserved>>
    /\ UNCHANGED <<cluster, owner, held, purge>>

(* Fault: the lock is not asked for again before a block.                   *)
EnterBlockUnchecked(p, from, block, order) ==
    /\ pc[p] = from
    /\ Go(p, block)
    /\ Visit(p, order)
    /\ UNCHANGED <<cluster, owner, memory, purge, outcome>>

(* lc_assert_lock_held before a block.                                      *)
EnterBlock(p, from, block, order) ==
    /\ pc[p] = from
    /\ owner = p
    /\ Go(p, block)
    /\ Visit(p, order)
    /\ UNCHANGED <<cluster, owner, memory, purge, outcome>>

(* ------------------------- both scripts: the lock ----------------------- *)

Acquire(p) ==
    /\ pc[p] = "acquire"
    /\ ~LockGone
    /\ owner \notin Working
    /\ owner' = p
    /\ held' = held \cup {p}
    /\ Go(p, "survey")
    /\ UNCHANGED <<cluster, todo, found, helmDone, failures, preserved, purge, outcome>>

(* Fault: LC_LOCK_HELD is reset although the release failed.                *)
ReleaseForgetting(p) ==
    /\ pc[p] = "release"
    /\ Go(p, "ended")
    /\ \/ p \notin held /\ UNCHANGED <<owner, held, outcome>>
       \/ /\ p \in held /\ owner = p
          /\ owner' = None
          /\ held' = held \ {p}
          /\ UNCHANGED outcome
       \/ /\ p \in held
          /\ outcome' = [outcome EXCEPT ![p] = "failed"]
          /\ held' = held \ {p}
          /\ UNCHANGED owner
    /\ Forget(p)
    /\ UNCHANGED <<cluster, todo, preserved, purge>>

Release(p) ==
    /\ pc[p] = "release"
    /\ Go(p, "ended")
    /\ \/ p \notin held /\ UNCHANGED <<owner, held, outcome>>
       \/ /\ p \in held /\ owner = p
          /\ owner' = None
          /\ held' = held \ {p}
          /\ UNCHANGED outcome
       \/ /\ p \in held
          /\ outcome' = [outcome EXCEPT ![p] = "failed"]
          /\ UNCHANGED <<owner, held>>
    /\ Forget(p)
    /\ UNCHANGED <<cluster, todo, preserved, purge>>

(* -------------------------------- install ------------------------------- *)

Prerequisites(p) ==
    /\ p \in Installs /\ pc[p] = "start"
    /\ namespace /\ secret
    /\ Go(p, "acquire")
    /\ UNCHANGED <<cluster, owner, todo, memory, purge, outcome>>

Trusted == release # "foreign" /\ \A o \in ClusterScoped : object[o] # "foreign"

(* Fault: the identity of the cluster-wide objects is not asserted.         *)
InstallableAnyRole == release \in {"absent", "old", "new"}

Installable == Trusted /\ release \in {"absent", "old", "new"}

(* Identity checks, Helm state and PREVIOUS_REVISION, under the lock.       *)
InstallSurvey(p) ==
    /\ p \in Installs /\ pc[p] = "survey"
    /\ Installable
    /\ found' = [found EXCEPT ![p].trusted = Trusted, ![p].release = release]
    /\ Go(p, "snapshot")
    /\ UNCHANGED <<cluster, owner, todo, held, helmDone, failures, preserved,
                   purge, outcome>>

(* snapshot_pre_install_state.                                              *)
Snapshot(p) ==
    /\ pc[p] = "snapshot"
    /\ found' = [found EXCEPT ![p].ready = TRUE, ![p].object = object]
    /\ Go(p, "toHelm")
    /\ UNCHANGED <<cluster, owner, todo, held, helmDone, failures, preserved,
                   purge, outcome>>

(* What Helm made of the objects of its chart, each for itself.              *)
HelmLeaves(choices) ==
    \E left \in [ChartObjects -> choices] :
        object' = [o \in Objects |->
                      IF /\ o \in ChartObjects /\ left[o] # "kept"
                         /\ left[o] = "absent" \/ CanHold(o)
                      THEN left[o] ELSE object[o]]

(* helm upgrade --install --atomic: done; not begun; or failed, with each of
   the chart's objects as it was, as the chart wants it, or gone: the undoing
   of an install deletes what it had adopted, and may itself fail half done. *)
HelmUpgrade(p) ==
    /\ pc[p] = "helm"
    /\ \/ /\ CanRecord /\ \A o \in ChartObjects : CanHold(o)
          /\ release' = "new"
          /\ HelmLeaves({"new"})
          /\ helmDone' = helmDone \cup {p}
          /\ Go(p, "toApply")
          /\ UNCHANGED outcome
       \/ /\ UNCHANGED <<release, object, helmDone>>
          /\ Exit(p, "failed")
       \/ /\ release' \in {release} \cup (IF CanRecord THEN {"broken"} ELSE {})
          /\ HelmLeaves({"kept", "new", "absent"})
          /\ UNCHANGED helmDone
          /\ \E result \in {"failed", "interrupted"} : Exit(p, result)
    /\ UNCHANGED <<namespace, deletion, secret, demo, owner, todo, held, found,
                   failures, preserved, purge>>

(* kubectl apply of one object of the block, or of the K8sGPT CR.           *)
ApplyNext(p, block, next) ==
    /\ pc[p] = block
    /\ LET o == Head(todo[p])
           applied == [object EXCEPT ![o] = "new"] IN
       \/ /\ CanHold(o)
          /\ object' = applied
          /\ Visit(p, Tail(todo[p]))
          /\ Go(p, IF Tail(todo[p]) = <<>> THEN next ELSE block)
          /\ UNCHANGED outcome
       \/ /\ object' \in {object} \cup (IF CanHold(o) THEN {applied} ELSE {})
          /\ Visit(p, <<>>)
          /\ Exit(p, "failed")
    /\ UNCHANGED <<namespace, deletion, secret, demo, release, owner, memory, purge>>

(* The rollouts succeeded; HELM_UPGRADE_SUCCEEDED is reset.                 *)
InstallDone(p) ==
    /\ pc[p] = "rollout"
    /\ helmDone' = helmDone \ {p}
    /\ outcome' = [outcome EXCEPT ![p] = "done"]
    /\ Go(p, "release")
    /\ UNCHANGED <<cluster, owner, todo, held, found, failures, preserved, purge>>

(* ------------------------------- rollback ------------------------------- *)

(* Fault: the rollback does not ask for the lock again.                     *)
MayRollbackAlways(p) == TRUE

MayRollback(p) == owner = p

StartRollback(p) ==
    /\ pc[p] = "rollback"
    /\ MayRollback(p)
    /\ Go(p, "undoHelm")
    /\ UNCHANGED <<cluster, owner, todo, memory, purge, outcome>>

RefuseRollback(p) ==
    /\ pc[p] = "rollback"
    /\ Go(p, "release")
    /\ preserved' = preserved \cup {p}
    /\ UNCHANGED <<cluster, owner, todo, held, found, helmDone, failures, purge, outcome>>

(* Fault: a failure of the rollback is not counted.                          *)
CountNothing(p) == UNCHANGED failures

Count(p) == failures' = failures \cup {p}

(* A release that the install created is uninstalled, any other is rolled
   back to its revision, which brings the chart's objects back to it but may
   leave fields of others in them.                                          *)
UndoHelm(p) ==
    /\ pc[p] = "undoHelm"
    /\ LET back == found[p].release
           left == IF back = "absent" THEN {back} ELSE {back, "mixed"} IN
       \/ /\ release = "absent" /\ back = "absent"
          /\ UNCHANGED <<release, object, failures>>
       \/ /\ back # "absent" => CanRecord /\ \A o \in ChartObjects : CanHold(o)
          /\ HelmLeaves(left)
          /\ release' = back
          /\ UNCHANGED failures
       \/ /\ HelmLeaves({"kept", back})
          /\ release' \in {release} \cup (IF CanRecord THEN {back, "broken"} ELSE {})
          /\ Count(p)
    /\ Go(p, "restore")
    /\ Visit(p, RestoreOrder)
    /\ UNCHANGED <<namespace, deletion, secret, demo, owner, held, found, helmDone,
                   preserved, purge, outcome>>

(* A server-side apply of a recorded object sets what was recorded and keeps
   the fields that others own, those which the install added among them.    *)
Merged(now, was) ==
    IF was = "absent" \/ now \in {"absent", was} THEN {was} ELSE {was, "mixed"}

(* restore_snapshot of one object: apply what was there, delete what was
   not.  A failure is counted and the loop goes on.                         *)
RestoreNext(p) ==
    /\ pc[p] = "restore"
    /\ LET o == Head(todo[p])
           was == found[p].object[o] IN
       \/ /\ was = "absent" \/ CanHold(o)
          /\ \E v \in Merged(object[o], was) : object' = [object EXCEPT ![o] = v]
          /\ UNCHANGED failures
       \/ /\ \/ UNCHANGED object
             \/ /\ was = "absent" \/ CanHold(o)
                /\ \E v \in Merged(object[o], was) : object' = [object EXCEPT ![o] = v]
          /\ Count(p)
    /\ Visit(p, Tail(todo[p]))
    /\ Go(p, IF Tail(todo[p]) = <<>> THEN "confirm" ELSE "restore")
    /\ UNCHANGED <<namespace, deletion, secret, demo, release, owner, held, found,
                   helmDone, preserved, purge, outcome>>

HelmAsFound(p) == (release = "absent") <=> (found[p].release = "absent")

(* The last look at the release; any failure preserves the snapshot.        *)
ConfirmRollback(p) ==
    /\ pc[p] = "confirm"
    /\ \E sound \in {HelmAsFound(p) /\ release # "broken", FALSE} :
        /\ failures' = IF sound THEN failures ELSE failures \cup {p}
        /\ preserved' = IF p \in failures' THEN preserved \cup {p} ELSE preserved
    /\ Go(p, "release")
    /\ UNCHANGED <<cluster, owner, todo, held, found, helmDone, purge, outcome>>

(* ------------------------------- uninstall ------------------------------ *)

FindNamespace(p) ==
    /\ p \in Uninstalls /\ pc[p] = "start"
    /\ found' = [found EXCEPT ![p].namespace = namespace]
    /\ Go(p, IF namespace THEN "acquire" ELSE "survey")
    /\ UNCHANGED <<cluster, owner, todo, held, helmDone, failures, preserved,
                   purge, outcome>>

UninstallSurvey(p) ==
    /\ p \in Uninstalls /\ pc[p] = "survey"
    /\ Trusted
    /\ found' = [found EXCEPT ![p].trusted = Trusted, ![p].release = release]
    /\ Go(p, IF found[p].namespace THEN "toDeleteCr" ELSE "toDeleteHelm")
    /\ UNCHANGED <<cluster, owner, todo, held, helmDone, failures, preserved,
                   purge, outcome>>

(* Fault: the ServiceAccount is forgotten.                                  *)
RbacOrderWithoutAccount(p) ==
    <<"clusterrolebinding", "clusterrole">> \o
        (IF found[p].namespace THEN <<"networkpolicy">> ELSE <<>>)

RbacOrder(p) ==
    <<"clusterrolebinding", "clusterrole">> \o
        (IF found[p].namespace THEN <<"serviceaccount", "networkpolicy">> ELSE <<>>)

(* delete_resource_if_present: what is there is deleted and looked for once
   more; any failure ends the script.                                       *)
DeleteNext(p, block, next) ==
    /\ pc[p] = block
    /\ LET o == Head(todo[p])
           gone == [object EXCEPT ![o] = "absent"] IN
       \/ /\ object' = gone
          /\ Visit(p, Tail(todo[p]))
          /\ Go(p, IF Tail(todo[p]) = <<>> THEN next ELSE block)
          /\ UNCHANGED outcome
       \/ /\ object' \in {object, gone}
          /\ Visit(p, <<>>)
          /\ Exit(p, "failed")
    /\ UNCHANGED <<namespace, deletion, secret, demo, release, owner, memory, purge>>

(* The Helm step is skipped when the survey found no release.               *)
SkipHelm(p) ==
    /\ pc[p] = "toDeleteHelm"
    /\ found[p].release = "absent"
    /\ Go(p, "toDeleteRbac")
    /\ UNCHANGED <<cluster, owner, todo, memory, purge, outcome>>

HelmUninstall(p) ==
    /\ pc[p] = "deleteHelm"
    /\ \/ /\ release # "absent"
          /\ release' = "absent"
          /\ HelmLeaves({"absent"})
          /\ Go(p, "toDeleteRbac")
          /\ UNCHANGED outcome
       \/ /\ release' \in {release, "absent"} \cup
                  (IF release = "absent" THEN {} ELSE {"broken"})
          /\ HelmLeaves({"kept", "absent"})
          /\ Exit(p, "failed")
    /\ UNCHANGED <<namespace, deletion, secret, demo, owner, todo, memory, purge>>

(* Without the Namespace there is no lock to check.                         *)
EnterRbacUnlocked(p) ==
    /\ pc[p] = "toDeleteRbac"
    /\ ~found[p].namespace
    /\ Go(p, "deleteRbac")
    /\ Visit(p, RbacOrder(p))
    /\ UNCHANGED <<cluster, owner, memory, purge, outcome>>

(* PURGE_DEMO: under the lock when there is one.                            *)
EnterDemo(p) ==
    /\ pc[p] = "toPurge" /\ "demo" \in purge[p]
    /\ found[p].namespace => owner = p
    /\ Go(p, "deleteDemo")
    /\ UNCHANGED <<cluster, owner, todo, memory, purge, outcome>>

DeleteDemo(p) ==
    /\ pc[p] = "deleteDemo"
    /\ \/ demo' = FALSE /\ Go(p, "toPurge") /\ UNCHANGED outcome
       \/ demo' \in {demo, FALSE} /\ Exit(p, "failed")
    /\ purge' = [purge EXCEPT ![p] = @ \ {"demo"}]
    /\ UNCHANGED <<namespace, deletion, secret, release, object, owner, todo, memory>>

DeleteSecret(p) ==
    /\ pc[p] = "deleteSecret"
    /\ \/ secret' = FALSE /\ Go(p, "toPurge") /\ UNCHANGED outcome
       \/ secret' \in {secret, FALSE} /\ Exit(p, "failed")
    /\ purge' = [purge EXCEPT ![p] = @ \ {"secret"}]
    /\ UNCHANGED <<namespace, deletion, demo, release, object, owner, todo, memory>>

(* PURGE_NAMESPACE: the Lease lives in the Namespace and is released first. *)
ReleaseForPurge(p) ==
    /\ pc[p] = "toPurge"
    /\ found[p].namespace /\ purge[p] = {"namespace"}
    /\ owner = p
    /\ owner' = None
    /\ held' = held \ {p}
    /\ Go(p, "deleteNamespace")
    /\ UNCHANGED <<cluster, todo, found, helmDone, failures, preserved, purge, outcome>>

(* The API server takes the request, and kubectl waits for what follows.     *)
BeginDeletion == IF namespace /\ deletion = "none" THEN "begun" ELSE deletion

DeleteNamespace(p) ==
    /\ pc[p] = "deleteNamespace"
    /\ \/ deletion' = BeginDeletion /\ Go(p, "awaitNamespace") /\ UNCHANGED outcome
       \/ deletion' \in {deletion, BeginDeletion} /\ Exit(p, "failed")
    /\ UNCHANGED <<namespace, contents, owner, todo, memory, purge>>

(* kubectl delete --wait, or there was nothing to delete.  Its time may be
   up before (ExitAt), when some of the Namespace is gone and some is not.   *)
AwaitNamespace(p) ==
    /\ pc[p] = "awaitNamespace"
    /\ ~namespace
    /\ found' = [found EXCEPT ![p].namespace = FALSE]
    /\ Go(p, "residual")
    /\ UNCHANGED <<cluster, owner, todo, held, helmDone, failures, preserved,
                   purge, outcome>>

SkipPurge(p) ==
    /\ pc[p] = "toPurge"
    /\ IF found[p].namespace THEN purge[p] = {} ELSE "demo" \notin purge[p]
    /\ Go(p, "residual")
    /\ UNCHANGED <<cluster, owner, todo, memory, purge, outcome>>

Expected(p) == IF found[p].namespace THEN Objects ELSE ClusterScoped

Residue(p) == release # "absent" \/ \E o \in Expected(p) : Present(o)

UninstallDone(p) ==
    /\ pc[p] = "residual"
    /\ ~Residue(p)
    /\ Exit(p, "done")
    /\ UNCHANGED <<cluster, owner, todo, memory, purge>>

(* ------------------------- the rest of the world ------------------------ *)

(* Another system creates or rewrites what it contests.                      *)
Intrude ==
    /\ \/ \E o \in Contested \ {"release"} :
             /\ CanHold(o)
             /\ object' = [object EXCEPT ![o] = "foreign"]
             /\ UNCHANGED release
       \/ /\ "release" \in Contested /\ CanRecord
          /\ release' = "foreign"
          /\ UNCHANGED object
    /\ UNCHANGED <<namespace, deletion, secret, demo, owner, pc, todo, memory,
                   purge, outcome>>

(* The namespace controller deletes what is in the Namespace in any order,
   the Lease and with it the lock included, and the Namespace last.         *)
Collect ==
    /\ namespace /\ deletion # "none"
    /\ \/ /\ \E o \in Objects \ ClusterScoped :
                Present(o) /\ object' = [object EXCEPT ![o] = "absent"]
          /\ UNCHANGED <<namespace, deletion, secret, release, owner>>
       \/ /\ secret /\ secret' = FALSE
          /\ UNCHANGED <<namespace, deletion, release, object, owner>>
       \/ /\ release # "absent" /\ release' = "absent"
          /\ UNCHANGED <<namespace, deletion, secret, object, owner>>
       \/ /\ deletion = "begun" /\ deletion' = "leaseGone" /\ owner' = None
          /\ UNCHANGED <<namespace, secret, release, object>>
       \/ /\ deletion = "leaseGone" /\ ~secret /\ release = "absent"
          /\ \A o \in Objects \ ClusterScoped : ~Present(o)
          /\ namespace' = FALSE
          /\ UNCHANGED <<deletion, secret, release, object, owner>>
    /\ UNCHANGED <<demo, pc, todo, memory, purge, outcome>>

-----------------------------------------------------------------------------
InstallStep(p) ==
    \/ Prerequisites(p) \/ InstallSurvey(p) \/ Snapshot(p)
    \/ EnterBlock(p, "toHelm", "helm", <<>>) \/ HelmUpgrade(p)
    \/ EnterBlock(p, "toApply", "apply", ApplyOrder) \/ ApplyNext(p, "apply", "toCr")
    \/ EnterBlock(p, "toCr", "applyCr", <<"k8sgpt">>) \/ ApplyNext(p, "applyCr", "rollout")
    \/ InstallDone(p)
    \/ StartRollback(p) \/ RefuseRollback(p)
    \/ UndoHelm(p) \/ RestoreNext(p) \/ ConfirmRollback(p)
    \/ ExitAt(p, {"start", "acquire", "survey", "snapshot", "toHelm", "toApply", "toCr",
                  "rollout"})

UninstallStep(p) ==
    \/ FindNamespace(p) \/ UninstallSurvey(p)
    \/ EnterBlock(p, "toDeleteCr", "deleteCr", <<"k8sgpt">>)
    \/ DeleteNext(p, "deleteCr", "toDeleteHelm")
    \/ SkipHelm(p) \/ HelmUninstall(p)
    \/ found[p].release # "absent" /\ EnterBlock(p, "toDeleteHelm", "deleteHelm", <<>>)
    \/ EnterBlock(p, "toDeleteRbac", "deleteRbac", RbacOrder(p)) \/ EnterRbacUnlocked(p)
    \/ DeleteNext(p, "deleteRbac", "toPurge")
    \/ EnterDemo(p) \/ DeleteDemo(p)
    \/ found[p].namespace /\ "secret" \in purge[p] /\ "demo" \notin purge[p]
          /\ EnterBlock(p, "toPurge", "deleteSecret", <<>>)
    \/ DeleteSecret(p) \/ SkipPurge(p) \/ ReleaseForPurge(p)
    \/ DeleteNamespace(p) \/ AwaitNamespace(p)
    \/ UninstallDone(p)
    \/ ExitAt(p, {"start", "acquire", "survey", "toDeleteCr", "toDeleteHelm",
                  "toDeleteRbac", "toPurge", "awaitNamespace", "residual"})

Next ==
    \/ \E p \in Installs : InstallStep(p)
    \/ \E p \in Uninstalls : UninstallStep(p)
    \/ \E p \in Ops : Acquire(p) \/ Release(p) \/ Interrupt(p)
    \/ Intrude \/ Collect

Spec == Init /\ [][Next]_vars

-----------------------------------------------------------------------------
(* Every variable keeps its type, nothing namespaced is left without the
   Namespace, and only an operation that still has LC_LOCK_HELD owns the
   lock, which goes with its Lease.                                         *)
TypeOK ==
    /\ namespace \in BOOLEAN /\ secret \in BOOLEAN /\ demo \in BOOLEAN
    /\ deletion \in {"none", "begun", "leaseGone"}
    /\ release \in ReleaseStates
    /\ object \in [Objects -> Versions]
    /\ \A o \in Objects \ ClusterScoped : Present(o) => namespace
    /\ (secret \/ release # "absent") => namespace
    /\ owner \in held \cup {None}
    /\ owner # None => ~LockGone
    /\ held \subseteq Ops
    /\ pc \in [Ops -> Places]
    /\ todo \in [Ops -> Seq(Objects)]
    /\ found \in [Ops -> Surveys]
    /\ helmDone \subseteq Installs /\ failures \subseteq Installs
    /\ preserved \subseteq Installs
    /\ purge \in [Uninstalls -> SUBSET {"demo", "secret", "namespace"}]
    /\ outcome \in [Ops -> {"none", "done", "failed", "interrupted"}]

(* An object is as it was recorded, but for fields that a merge keeps and for
   what another system made of it since.                                    *)
AsRecorded(now, was) ==
    now \in {was, "foreign"} \/ (was # "absent" /\ now = "mixed")

(* An install that is over, gives the lock back and removes its snapshot.    *)
GivesUp(p, result) ==
    /\ pc[p] = "release" /\ outcome[p] = result
    /\ found[p].ready /\ p \notin preserved
    /\ owner = p /\ deletion = "none"

(* What an install that did not succeed leaves, when it gives the lock back
   and keeps no evidence.  It failed after its helm upgrade had succeeded:
   the release and every object are as found (rollback_failed_install: "a
   rollback that fails preserves the evidence").  It failed before: only the
   release and the objects of the chart can differ, nothing else was applied.
   It was interrupted: nothing is undone, but what was found outside the
   chart is still there.                                                    *)
RollbackHonest ==
    \A p \in Installs :
        /\ (GivesUp(p, "failed") /\ p \in helmDone) =>
              /\ release \in {found[p].release, "foreign"}
              /\ \A o \in Objects : AsRecorded(object[o], found[p].object[o])
        /\ (GivesUp(p, "failed") /\ p \notin helmDone) =>
              \A o \in Objects \ ChartObjects :
                  object[o] \in {found[p].object[o], "foreign"}
        /\ GivesUp(p, "interrupted") =>
              \A o \in Objects \ ChartObjects :
                  object[o] \in {found[p].object[o], "new", "foreign"}

(* The product's own things; another system may make one of the same name.  *)
Left(o) == object[o] \notin {"absent", "foreign"}

(* The operator goes after the custom resource it has to finalise: while an
   uninstall runs `helm uninstall` the K8sGPT object is gone, and no install
   that took the lock over can have brought it back (the order of
   uninstall.sh, and the fencing checks between its blocks).                *)
CrGoneBeforeOperator ==
    \A p \in Uninstalls : (pc[p] = "deleteHelm" /\ ~LockGone) => ~Left("k8sgpt")

(* The deletions of uninstall.sh are complete: its residual check finds
   something of ours only if the lock was lost or given back before.        *)
NoResidue ==
    \A p \in Uninstalls :
        (pc[p] = "residual" /\ owner = p) =>
            release \in {"absent", "foreign"} /\ \A o \in Objects : ~Left(o)

(* What an uninstall removes, it removes in order and to the end.           *)
UninstallHonest == CrGoneBeforeOperator /\ NoResidue

Moves(p) == pc'[p] # pc[p] \/ todo'[p] # todo[p]

(* A script touches the release and the cluster-wide objects only if its own
   identity checks, under the same lock, found none of them to be another
   system's (lc_assert_cluster_resource_identity, lc_assert_helm_release_-
   identity: what was foreign then is never touched by that operation).  The
   checks are made once: what becomes foreign later is not protected, and
   the ServiceAccount, the NetworkPolicy and the custom resource never are.  *)
OnlyAfterCheck ==
    [][\A p \in Ops :
          (Moves(p) /\ (release' # release \/ \E o \in ClusterScoped : object'[o] # object[o]))
              => found[p].trusted]_vars

(* A script changes the cluster only while it owns the lock, unless the
   Lease is gone with its Namespace (the fencing checks before each block). *)
LockedMutation ==
    [][\A p \in Ops :
          (Moves(p) /\ contents' # contents) => owner = p \/ LockGone]_vars

(* The scripts change what they checked, while it is their turn.            *)
CheckedUnderLock == OnlyAfterCheck /\ LockedMutation

(* Install and uninstall never change the cluster at the same time: the
   Lease refuses concurrent lifecycle operations (phase-1.1-acceptance.md).
   The deletion of the Namespace is part of the uninstall.                  *)
ConcurrencyRefused ==
    Cardinality(Working \cup
        {q \in Uninstalls : pc[q] \in {"deleteNamespace", "awaitNamespace"}}) <= 1
=============================================================================
