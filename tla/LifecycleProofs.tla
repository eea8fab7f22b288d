--------------------------- MODULE LifecycleProofs ---------------------------
(***************************************************************************)
(* Proofs about Lifecycle, for any number of installs and uninstalls, any  *)
(* cluster they find, any options and whatever another system contests:    *)
(* what the lifecycle lock fences, that the scripts change only what they  *)
(* have checked, what an install that gives up leaves behind, and that an  *)
(* uninstall removes in order and to the end.                              *)
(***************************************************************************)
EXTENDS Lifecycle, SequenceTheorems, TLAPS

Loops == {"apply", "applyCr", "restore", "deleteCr", "deleteRbac"}
RollbackPlaces == {"rollback", "undoHelm", "restore", "confirm"}

Members(s) == {s[i] : i \in 1 .. Len(s)}

(* The objects a loop has still to visit.                                   *)
ToVisit(p) == Members(todo[p])

(* A loop that is not over has an object to visit, only an install rolls
   back, and it installs over no broken release.                            *)
Placed ==
    \A p \in Ops :
        /\ p \in Installs => found[p].release \in {"absent", "old", "new"}
        /\ pc[p] \in Loops => todo[p] # <<>>
        /\ pc[p] \in RollbackPlaces => p \in Installs

(* The lock does not leave a block before its Lease is gone, and nothing
   creates the Namespace again.                                             *)
LockKept ==
    /\ \A p \in Working : owner = p \/ LockGone
    /\ \A p \in Ops : ~found[p].namespace => ~namespace

Base == TypeOK /\ Placed /\ LockKept

Unsurveyed == {"start", "acquire", "survey", "release", "ended"}
Unrecorded == {"start", "acquire", "survey", "snapshot"}
Forward == {"toHelm", "helm", "toApply", "apply", "toCr", "applyCr", "rollout"}
PastHelm == {"toApply", "apply", "toCr", "applyCr", "rollout"} \cup RollbackPlaces

(* Who is past its survey found nothing foreign, who is past its snapshot
   has one, who is past its Helm step will roll back when it fails, and an
   install is where installs are.                                           *)
Advanced(p) ==
    /\ pc[p] \notin Unsurveyed \/ p \in helmDone => found[p].trusted
    /\ pc[p] \in Unrecorded => ~found[p].ready
    /\ pc[p] \in PastHelm => p \in helmDone
    /\ pc[p] \in RollbackPlaces => outcome[p] = "failed"
    /\ p \in Installs =>
          pc[p] \in Unrecorded \cup Forward \cup RollbackPlaces \cup {"release", "ended"}

Prepared == \A p \in Ops : Advanced(p)

Holding(p) == owner = p /\ deletion = "none"

(* What is as it was found, or another system's by now.                     *)
Beside(p, versions) ==
    \A o \in Objects \ ChartObjects :
        object[o] \in {found[p].object[o], "foreign"} \cup versions

AsFound(p) ==
    /\ release \in {found[p].release, "foreign"}
    /\ \A o \in Objects : AsRecorded(object[o], found[p].object[o])

(* How far an install has come that holds the lock.                         *)
InstallBy(p) ==
    /\ (\/ pc[p] \in {"toHelm", "helm"}
        \/ pc[p] = "release" /\ outcome[p] = "failed" /\ p \notin helmDone)
           => Beside(p, {})
    /\ (pc[p] \in Forward \/ (pc[p] = "release" /\ outcome[p] = "interrupted"))
           => Beside(p, {"new"})

Installed == \A p \in Installs : (Holding(p) /\ found[p].ready) => InstallBy(p)

(* How far its rollback has come, if it counted no failure.                 *)
RestoredBy(p) ==
    /\ (pc[p] = "restore" /\ p \notin failures) =>
          /\ release \in {found[p].release, "foreign"}
          /\ \A o \in Objects \ ToVisit(p) : AsRecorded(object[o], found[p].object[o])
    /\ (pc[p] = "confirm" /\ p \notin failures) => AsFound(p)
    /\ (/\ pc[p] = "release" /\ outcome[p] = "failed"
        /\ p \in helmDone /\ p \notin preserved) => AsFound(p)

Restored == \A p \in Installs : Holding(p) => RestoredBy(p)

(* How far an uninstall that holds the lock has come.                       *)
NoRelease == release \in {"absent", "foreign"}

RemovedBy(p) ==
    /\ (/\ pc[p] \in {"toDeleteCr", "deleteCr", "toDeleteHelm"}
        /\ found[p].release = "absent") => NoRelease
    /\ pc[p] = "deleteCr" => ~Left("k8sgpt") \/ "k8sgpt" \in ToVisit(p)
    /\ pc[p] \in {"toDeleteHelm", "deleteHelm", "toDeleteRbac"} => ~Left("k8sgpt")
    /\ pc[p] \in {"toDeleteRbac", "deleteRbac", "toPurge", "deleteDemo",
                  "deleteSecret", "residual"} => NoRelease
    /\ pc[p] = "deleteRbac" => \A o \in Objects \ ToVisit(p) : ~Left(o)
    /\ pc[p] \in {"toPurge", "deleteDemo", "deleteSecret", "residual"} =>
          \A o \in Objects : ~Left(o)

Removed == \A p \in Ops : owner = p => RemovedBy(p)

LifecycleInv == Base /\ Prepared /\ Installed /\ Restored /\ Removed

-----------------------------------------------------------------------------
(* Sequences and places.                                                    *)

LEMMA Walk ==
    ASSUME NEW s \in Seq(Objects), s # <<>>
    PROVE  /\ Head(s) \in Objects /\ Tail(s) \in Seq(Objects)
           /\ Members(s) \subseteq {Head(s)} \cup Members(Tail(s))
           /\ Tail(s) = <<>> => Members(Tail(s)) = {}
<1>1. /\ Head(s) = s[1] /\ Len(s) \in Nat /\ Len(s) >= 1 /\ Head(s) \in Objects
      /\ Tail(s) \in Seq(Objects) /\ Len(Tail(s)) = Len(s) - 1
      /\ \A i \in 1 .. Len(Tail(s)) : Tail(s)[i] = s[i + 1]
  OBVIOUS
<1>2. ASSUME NEW i \in 1 .. Len(s), i # 1
      PROVE  \E j \in 1 .. Len(Tail(s)) : Tail(s)[j] = s[i]
  <2>1. i - 1 \in 1 .. Len(Tail(s)) /\ Tail(s)[i - 1] = s[i]
    BY <1>1, <1>2
  <2>2. QED
    BY <2>1
<1>3. Members(s) \subseteq {Head(s)} \cup Members(Tail(s))
  BY <1>1, <1>2 DEF Members
<1>4. Members(<<>>) = {}
  BY DEF Members
<1>5. QED
  BY <1>1, <1>3, <1>4

LEMMA Joined ==
    ASSUME NEW s \in Seq(Objects), NEW r \in Seq(Objects)
    PROVE  /\ s \o r \in Seq(Objects) /\ Len(s \o r) = Len(s) + Len(r)
           /\ \A i \in 1 .. Len(s) : (s \o r)[i] = s[i]
           /\ \A i \in 1 .. Len(r) : (s \o r)[Len(s) + i] = r[i]
OBVIOUS

LEMMA Orders ==
    /\ ApplyOrder \in Seq(Objects) /\ ApplyOrder # <<>>
    /\ RestoreOrder \in Seq(Objects) /\ RestoreOrder # <<>>
    /\ <<"k8sgpt">> \in Seq(Objects) /\ <<"k8sgpt">> # <<>>
    /\ Objects \subseteq Members(RestoreOrder)
    /\ Members(<<"k8sgpt">>) = {"k8sgpt"}
<1>1. /\ ApplyOrder \in Seq(Objects) /\ ApplyOrder # <<>> /\ Len(ApplyOrder) = 4
      /\ ApplyOrder[1] = "serviceaccount" /\ ApplyOrder[2] = "clusterrole"
      /\ ApplyOrder[3] = "clusterrolebinding" /\ ApplyOrder[4] = "networkpolicy"
  BY DEF ApplyOrder, Objects
<1> DEFINE last == <<"k8sgpt">>
<1>2. last \in Seq(Objects) /\ last # <<>> /\ Len(last) = 1 /\ last[1] = "k8sgpt"
  BY DEF Objects
<1> HIDE DEF last
<1>3. RestoreOrder = ApplyOrder \o last
  BY DEF RestoreOrder, last
<1>4. /\ RestoreOrder \in Seq(Objects) /\ Len(RestoreOrder) = 5
      /\ RestoreOrder[1] = "serviceaccount" /\ RestoreOrder[2] = "clusterrole"
      /\ RestoreOrder[3] = "clusterrolebinding" /\ RestoreOrder[4] = "networkpolicy"
      /\ RestoreOrder[5] = "k8sgpt"
  BY <1>1, <1>2, <1>3, Joined
<1>5. \A o \in Objects : \E i \in 1 .. Len(RestoreOrder) : RestoreOrder[i] = o
  BY <1>4 DEF Objects
<1>6. Objects \subseteq Members(RestoreOrder) /\ Members(last) = {"k8sgpt"}
  BY <1>2, <1>5 DEF Members
<1>7. QED
  BY <1>1, <1>2, <1>4, <1>6 DEF last

LEMMA RbacOrders ==
    ASSUME NEW p \in Ops
    PROVE  /\ RbacOrder(p) \in Seq(Objects) /\ RbacOrder(p) # <<>>
           /\ found[p].namespace => Objects \ {"k8sgpt"} \subseteq Members(RbacOrder(p))
<1> DEFINE roles == <<"clusterrolebinding", "clusterrole">>
<1>1. /\ roles \in Seq(Objects) /\ Len(roles) = 2 /\ roles # <<>>
      /\ roles[1] = "clusterrolebinding" /\ roles[2] = "clusterrole"
  BY DEF Objects
<1> HIDE DEF roles
<1>2. CASE found[p].namespace
  <2> DEFINE rest == <<"serviceaccount", "networkpolicy">>
  <2>1. /\ rest \in Seq(Objects) /\ Len(rest) = 2
        /\ rest[1] = "serviceaccount" /\ rest[2] = "networkpolicy"
    BY DEF Objects
  <2> HIDE DEF rest
  <2>2. RbacOrder(p) = roles \o rest
    BY <1>2 DEF RbacOrder, roles, rest
  <2>3. /\ RbacOrder(p) \in Seq(Objects) /\ Len(RbacOrder(p)) = 4
        /\ RbacOrder(p)[1] = "clusterrolebinding" /\ RbacOrder(p)[2] = "clusterrole"
        /\ RbacOrder(p)[3] = "serviceaccount" /\ RbacOrder(p)[4] = "networkpolicy"
    <3>1. /\ RbacOrder(p) \in Seq(Objects) /\ Len(RbacOrder(p)) = Len(roles) + Len(rest)
          /\ \A i \in 1 .. Len(roles) : RbacOrder(p)[i] = roles[i]
          /\ \A i \in 1 .. Len(rest) : RbacOrder(p)[Len(roles) + i] = rest[i]
      BY <1>1, <2>1, <2>2, Joined
    <3>2. 1 \in 1 .. Len(roles) /\ 2 \in 1 .. Len(roles) /\ 1 \in 1 .. Len(rest)
          /\ 2 \in 1 .. Len(rest) /\ Len(roles) + 1 = 3 /\ Len(roles) + 2 = 4
      BY <1>1, <2>1
    <3>3. QED
      BY <1>1, <2>1, <3>1, <3>2
  <2>4. ASSUME NEW o \in Objects \ {"k8sgpt"}
        PROVE  \E i \in 1 .. Len(RbacOrder(p)) : RbacOrder(p)[i] = o
    <3>1. o \in {"clusterrolebinding", "clusterrole", "serviceaccount", "networkpolicy"}
      BY DEF Objects
    <3>2. \E i \in 1 .. 4 : RbacOrder(p)[i] = o
      BY <2>3, <3>1
    <3>3. QED
      BY <2>3, <3>2
  <2>5. QED
    BY <2>3, <2>4 DEF Members
<1>3. CASE ~found[p].namespace
  <2>1. RbacOrder(p) = roles \o <<>>
    BY <1>3 DEF RbacOrder, roles
  <2>2. RbacOrder(p) \in Seq(Objects) /\ Len(RbacOrder(p)) = 2
    BY <1>1, <2>1, Joined
  <2>3. RbacOrder(p) # <<>>
    BY <2>2
  <2>4. QED
    BY <1>3, <2>2, <2>3
<1>4. QED
  BY <1>2, <1>3

-----------------------------------------------------------------------------
(* Types, places and the lock.                                              *)

LEMMA EndTyped ==
    ASSUME Base, NEW p \in Ops, NEW result \in {"done", "failed", "interrupted"},
           Exit(p, result)
    PROVE  /\ pc' \in [Ops -> Places] /\ pc'[p] \in {"rollback", "release"}
           /\ pc'[p] = "rollback" => p \in helmDone /\ result = "failed"
           /\ \A q \in Ops \ {p} : pc'[q] = pc[q]
           /\ outcome' \in [Ops -> {"none", "done", "failed", "interrupted"}]
           /\ outcome'[p] = result /\ \A q \in Ops \ {p} : outcome'[q] = outcome[q]
BY DEF Base, TypeOK, Exit, Go, Places

LEMMA BlockEntered ==
    ASSUME Base, NEW p \in Ops, NEW from, NEW block \in Places, NEW order \in Seq(Objects),
           EnterBlock(p, from, block, order),
           block \in Loops => order # <<>>, block \notin RollbackPlaces
    PROVE  Base'
BY DEF Base, TypeOK, Placed, LockKept, LockGone, Working, EnterBlock, Go, Visit, Present,
       cluster, contents, memory

(* What Helm may make of the objects.                                       *)
LEMMA HelmTyped ==
    ASSUME TypeOK, NEW choices, choices \subseteq {"kept"} \cup Versions, HelmLeaves(choices)
    PROVE  /\ object' \in [Objects -> Versions]
           /\ \A o \in Objects \ ClusterScoped : object'[o] # "absent" => namespace
           /\ \A o \in Objects \ ChartObjects : object'[o] = object[o]
           /\ choices = {"absent"} => \A o \in ChartObjects : object'[o] = "absent"
<1>1. PICK left \in [ChartObjects -> choices] :
          object' = [o \in Objects |->
                        IF /\ o \in ChartObjects /\ left[o] # "kept"
                           /\ left[o] = "absent" \/ CanHold(o)
                        THEN left[o] ELSE object[o]]
  BY DEF HelmLeaves
<1>2. \A o \in ChartObjects : left[o] \in choices /\ o \in Objects
  BY DEF ChartObjects, Objects
<1>3. object \in [Objects -> Versions]
  BY DEF TypeOK
<1>4. \A o \in Objects \ ClusterScoped : CanHold(o) => namespace
  BY DEF TypeOK, CanHold
<1>5. object' \in [Objects -> Versions]
  BY <1>1, <1>2, <1>3
<1>6. ASSUME NEW o \in Objects \ ClusterScoped, object'[o] # "absent" PROVE namespace
  BY <1>1, <1>4, <1>6 DEF TypeOK, Present
<1>7. \A o \in Objects \ ChartObjects : object'[o] = object[o]
  BY <1>1
<1>8. ASSUME choices = {"absent"}, NEW o \in ChartObjects PROVE object'[o] = "absent"
  BY <1>1, <1>2, <1>8
<1>9. QED
  BY <1>5, <1>6, <1>7, <1>8

LEMMA HelmBack ==
    ASSUME NEW r \in {"absent", "old", "new"}
    PROVE  /\ r \in Versions /\ r \in ReleaseStates
           /\ (IF r = "absent" THEN {r} ELSE {r, "mixed"}) \subseteq {"kept"} \cup Versions
           /\ {"kept", r} \subseteq {"kept"} \cup Versions
BY DEF Versions, ReleaseStates

LEMMA MergedTyped ==
    ASSUME NEW now, NEW was \in Versions, NEW v \in Merged(now, was)
    PROVE  v \in Versions /\ (was = "absent" => v = "absent") /\ AsRecorded(v, was)
BY DEF Merged, Versions, AsRecorded

(* One field of what a script found is set, or two.                         *)
OnlyOf(p) == found' \in [Ops -> Surveys] /\ \A q \in Ops \ {p} : found'[q] = found[q]

LEMMA SurveyField ==
    ASSUME TypeOK, NEW p \in Ops, NEW b \in BOOLEAN,
           found' = [found EXCEPT ![p].namespace = b]
    PROVE  /\ OnlyOf(p) /\ found'[p].namespace = b
           /\ found'[p].trusted = found[p].trusted /\ found'[p].ready = found[p].ready
           /\ found'[p].release = found[p].release /\ found'[p].object = found[p].object
<1>1. found'[p] = [found[p] EXCEPT !.namespace = b] /\ found[p] \in Surveys
  BY DEF TypeOK
<1>2. found'[p] \in Surveys
  BY <1>1 DEF Surveys
<1>3. QED
  BY <1>1, <1>2 DEF TypeOK, OnlyOf, Surveys

LEMMA CheckedRecord ==
    ASSUME NEW s \in Surveys, NEW r \in ReleaseStates
    PROVE  LET c == [s EXCEPT !.trusted = TRUE, !.release = r] IN
           /\ c \in Surveys /\ c.trusted = TRUE /\ c.release = r
           /\ c.namespace = s.namespace /\ c.ready = s.ready /\ c.object = s.object
BY DEF Surveys

LEMMA SurveyChecks ==
    ASSUME TypeOK, NEW p \in Ops, Trusted,
           found' = [found EXCEPT ![p].trusted = Trusted, ![p].release = release]
    PROVE  /\ OnlyOf(p) /\ found'[p].trusted /\ found'[p].release = release
           /\ found'[p].namespace = found[p].namespace
           /\ found'[p].ready = found[p].ready /\ found'[p].object = found[p].object
<1> DEFINE c == [found[p] EXCEPT !.trusted = TRUE, !.release = release]
<1>1. Trusted = TRUE
  BY DEF Trusted
<1>2. found' = [found EXCEPT ![p].trusted = TRUE, ![p].release = release]
  BY <1>1
<1>3. found \in [Ops -> Surveys] /\ release \in ReleaseStates
  BY DEF TypeOK
<1>4. found'[p] = c /\ \A q \in Ops \ {p} : found'[q] = found[q]
  BY <1>2, <1>3
<1>5. /\ c \in Surveys /\ c.trusted = TRUE /\ c.release = release
      /\ c.namespace = found[p].namespace
      /\ c.ready = found[p].ready /\ c.object = found[p].object
  BY <1>3, CheckedRecord
<1> HIDE DEF c
<1>6. found' \in [Ops -> Surveys]
  BY <1>2, <1>3, <1>4, <1>5
<1>7. QED
  BY <1>4, <1>5, <1>6 DEF OnlyOf

LEMMA SurveySnapshot ==
    ASSUME TypeOK, NEW p \in Ops,
           found' = [found EXCEPT ![p].ready = TRUE, ![p].object = object]
    PROVE  /\ OnlyOf(p) /\ found'[p].ready /\ found'[p].object = object
           /\ found'[p].namespace = found[p].namespace
           /\ found'[p].trusted = found[p].trusted /\ found'[p].release = found[p].release
<1>1. found'[p] = [found[p] EXCEPT !.ready = TRUE, !.object = object] /\ found[p] \in Surveys
  BY DEF TypeOK
<1>2. found'[p] \in Surveys
  BY <1>1 DEF Surveys, TypeOK
<1>3. QED
  BY <1>1, <1>2 DEF TypeOK, OnlyOf, Surveys

(* A step that leaves the Namespace and the lock alone.                     *)
LEMMA Frame ==
    ASSUME Base, NEW p \in Ops,
           UNCHANGED <<namespace, deletion, demo, owner, held, preserved, purge>>,
           secret' \in BOOLEAN, secret' => secret,
           object' \in [Objects -> Versions],
           \A o \in Objects \ ClusterScoped : object'[o] # "absent" => namespace,
           release' \in ReleaseStates, release' # "absent" => namespace,
           pc' \in [Ops -> Places], \A q \in Ops \ {p} : pc'[q] = pc[q],
           todo' \in [Ops -> Seq(Objects)], \A q \in Ops \ {p} : todo'[q] = todo[q],
           OnlyOf(p), found'[p].namespace = found[p].namespace,
           p \in Installs => found'[p].release \in {"absent", "old", "new"},
           helmDone' \subseteq Installs, failures' \subseteq Installs,
           outcome' \in [Ops -> {"none", "done", "failed", "interrupted"}],
           pc'[p] \in Loops => todo'[p] # <<>>,
           pc'[p] \in RollbackPlaces => p \in Installs,
           p \in Working' => p \in Working \/ owner = p
    PROVE  Base'
<1>1. TypeOK'
  BY DEF Base, TypeOK, LockGone, Present, OnlyOf
<1>2. Placed'
  BY DEF Base, Placed, OnlyOf
<1>3. LockKept'
  <2>1. ASSUME NEW q \in Working' PROVE owner = q \/ LockGone
    BY <2>1 DEF Base, LockKept, Working
  <2>2. LockGone' = LockGone
    BY DEF LockGone
  <2>3. \A q \in Ops : ~found'[q].namespace => ~namespace
    BY DEF OnlyOf, Base, LockKept
  <2>4. QED
    BY <2>1, <2>2, <2>3 DEF LockKept
<1>4. QED
  BY <1>1, <1>2, <1>3 DEF Base

LEMMA ApplyBase ==
    ASSUME Base, NEW p \in Ops, NEW block \in {"apply", "applyCr"},
           NEW next \in {"toCr", "rollout"}, ApplyNext(p, block, next)
    PROVE  Base'
<1> DEFINE o == Head(todo[p])
<1>1. /\ o \in Objects /\ Tail(todo[p]) \in Seq(Objects) /\ todo[p] # <<>>
      /\ <<>> \in Seq(Objects) /\ pc[p] = block
  BY Walk DEF Base, TypeOK, Placed, ApplyNext, Loops
<1> HIDE DEF o
<1>2. \/ object' = object
      \/ CanHold(o) /\ object' = [object EXCEPT ![o] = "new"]
  BY DEF ApplyNext, o
<1>3. /\ object' \in [Objects -> Versions]
      /\ \A x \in Objects \ ClusterScoped : object'[x] # "absent" => namespace
  BY <1>1, <1>2 DEF Base, TypeOK, Present, CanHold, Versions
<1>4. UNCHANGED <<namespace, deletion, secret, demo, release, owner, memory, purge>>
  BY DEF ApplyNext
<1>5. /\ pc' \in [Ops -> Places] /\ \A q \in Ops \ {p} : pc'[q] = pc[q]
      /\ todo' \in [Ops -> Seq(Objects)] /\ \A q \in Ops \ {p} : todo'[q] = todo[q]
      /\ outcome' \in [Ops -> {"none", "done", "failed", "interrupted"}]
      /\ pc'[p] \in Loops => todo'[p] # <<>>
      /\ pc'[p] \in RollbackPlaces => p \in Installs
  <2>1. CASE /\ Visit(p, Tail(todo[p]))
             /\ Go(p, IF Tail(todo[p]) = <<>> THEN next ELSE block)
             /\ UNCHANGED outcome
    BY <1>1, <2>1 DEF Base, TypeOK, Go, Visit, Loops, RollbackPlaces, Places, InstallBlocks
  <2>2. CASE Visit(p, <<>>) /\ Exit(p, "failed")
    BY <1>1, <2>2, EndTyped DEF Base, TypeOK, Visit, Loops, RollbackPlaces
  <2>3. QED
    BY <2>1, <2>2 DEF ApplyNext
<1>6. p \in Working
  BY <1>1 DEF Working, InstallBlocks
<1>7. QED
  BY <1>3, <1>4, <1>5, <1>6, Frame DEF Base, TypeOK, Placed, OnlyOf, memory

LEMMA HelmBase ==
    ASSUME Base, NEW p \in Installs, HelmUpgrade(p)
    PROVE  Base'
<1>0. p \in Ops
  BY DEF Ops
<1>1. \/ \E choices : choices \subseteq {"kept"} \cup Versions /\ HelmLeaves(choices)
      \/ object' = object
  BY DEF HelmUpgrade, Versions
<1>2. /\ object' \in [Objects -> Versions]
      /\ \A x \in Objects \ ClusterScoped : object'[x] # "absent" => namespace
  <2>1. CASE object' = object
    BY <2>1 DEF Base, TypeOK, Present
  <2>2. ASSUME NEW choices, choices \subseteq {"kept"} \cup Versions, HelmLeaves(choices)
        PROVE  /\ object' \in [Objects -> Versions]
               /\ \A x \in Objects \ ClusterScoped : object'[x] # "absent" => namespace
    BY <2>2, HelmTyped DEF Base
  <2>3. QED
    BY <1>1, <2>1, <2>2
<1>3. release' \in ReleaseStates /\ (release' # "absent" => namespace)
  BY DEF HelmUpgrade, CanRecord, ReleaseStates, Base, TypeOK
<1>4. /\ UNCHANGED <<namespace, deletion, secret, demo, owner, todo, held, found,
                     failures, preserved, purge>>
      /\ pc[p] = "helm"
  BY DEF HelmUpgrade
<1>5. /\ helmDone' \subseteq Installs
      /\ pc' \in [Ops -> Places] /\ \A q \in Ops \ {p} : pc'[q] = pc[q]
      /\ outcome' \in [Ops -> {"none", "done", "failed", "interrupted"}]
      /\ pc'[p] \in {"toApply", "rollback", "release"}
  <2>1. \/ helmDone' = helmDone \cup {p} /\ Go(p, "toApply") /\ UNCHANGED outcome
        \/ helmDone' = helmDone /\ \E result \in {"failed", "interrupted"} : Exit(p, result)
    BY DEF HelmUpgrade
  <2>2. CASE helmDone' = helmDone \cup {p} /\ Go(p, "toApply") /\ UNCHANGED outcome
    BY <1>0, <2>2 DEF Base, TypeOK, Go, Places
  <2>3. ASSUME helmDone' = helmDone, NEW result \in {"failed", "interrupted"}, Exit(p, result)
        PROVE  /\ helmDone' \subseteq Installs
               /\ pc' \in [Ops -> Places] /\ \A q \in Ops \ {p} : pc'[q] = pc[q]
               /\ outcome' \in [Ops -> {"none", "done", "failed", "interrupted"}]
               /\ pc'[p] \in {"toApply", "rollback", "release"}
    BY <1>0, <2>3, EndTyped DEF Base, TypeOK
  <2>4. QED
    BY <2>1, <2>2, <2>3
<1>6. p \in Working
  BY <1>0, <1>4 DEF Working, InstallBlocks
<1>7. QED
  BY <1>0, <1>2, <1>3, <1>4, <1>5, <1>6, Frame
     DEF Base, TypeOK, Placed, OnlyOf, Loops, RollbackPlaces

LEMMA UndoBase ==
    ASSUME Base, NEW p \in Installs, UndoHelm(p)
    PROVE  Base'
<1> DEFINE back == found[p].release
           left == IF back = "absent" THEN {back} ELSE {back, "mixed"}
<1>0. p \in Ops /\ back \in {"absent", "old", "new"}
  BY DEF Base, Placed, Ops
<1>1. /\ object' = object \/ HelmLeaves(left) \/ HelmLeaves({"kept", back})
      /\ \/ release' \in {release, "absent"}
         \/ release' \in {back, "broken"} /\ (release' # "absent" => CanRecord)
      /\ failures' \in {failures, failures \cup {p}}
      /\ pc[p] = "undoHelm" /\ Go(p, "restore") /\ Visit(p, RestoreOrder)
      /\ UNCHANGED <<namespace, deletion, secret, demo, owner, held, found, helmDone,
                     preserved, purge, outcome>>
  BY DEF UndoHelm, Count
<1> HIDE DEF back, left
<1>2. /\ back \in ReleaseStates
      /\ left \subseteq {"kept"} \cup Versions /\ {"kept", back} \subseteq {"kept"} \cup Versions
  BY <1>0, HelmBack DEF left
<1>3. /\ object' \in [Objects -> Versions]
      /\ \A x \in Objects \ ClusterScoped : object'[x] # "absent" => namespace
  <2>1. CASE object' = object
    BY <2>1 DEF Base, TypeOK, Present
  <2>2. CASE HelmLeaves(left)
    BY <1>2, <2>2, HelmTyped DEF Base
  <2>3. CASE HelmLeaves({"kept", back})
    BY <1>2, <2>3, HelmTyped DEF Base
  <2>4. QED
    BY <1>1, <2>1, <2>2, <2>3
<1>4. release' \in ReleaseStates /\ (release' # "absent" => namespace)
  BY <1>1, <1>2 DEF CanRecord, ReleaseStates, Base, TypeOK
<1>5. /\ pc' \in [Ops -> Places] /\ \A q \in Ops \ {p} : pc'[q] = pc[q]
      /\ todo' \in [Ops -> Seq(Objects)] /\ \A q \in Ops \ {p} : todo'[q] = todo[q]
      /\ todo'[p] # <<>>
  BY <1>0, <1>1, Orders DEF Base, TypeOK, Go, Visit, Places, InstallBlocks
<1>6. p \in Working
  BY <1>0, <1>1 DEF Working, InstallBlocks
<1>7. QED
  BY <1>0, <1>1, <1>3, <1>4, <1>5, <1>6, Frame DEF Base, TypeOK, Placed, OnlyOf

LEMMA RestoreBase ==
    ASSUME Base, NEW p \in Installs, RestoreNext(p)
    PROVE  Base'
<1> DEFINE o == Head(todo[p])
           was == found[p].object[o]
<1>0. p \in Ops
  BY DEF Ops
<1>1. /\ o \in Objects /\ Tail(todo[p]) \in Seq(Objects) /\ todo[p] # <<>> /\ pc[p] = "restore"
  BY <1>0, Walk DEF Base, TypeOK, Placed, RestoreNext, Loops
<1>2. \/ object' = object
      \/ \E v \in Merged(object[o], was) :
            /\ object' = [object EXCEPT ![o] = v]
            /\ was = "absent" \/ CanHold(o)
  BY DEF RestoreNext
<1>3. was \in Versions
  BY <1>0, <1>1 DEF Base, TypeOK, Surveys
<1>4. /\ Visit(p, Tail(todo[p]))
      /\ Go(p, IF Tail(todo[p]) = <<>> THEN "confirm" ELSE "restore")
      /\ failures' \in {failures, failures \cup {p}}
      /\ UNCHANGED <<namespace, deletion, secret, demo, release, owner, held, found,
                     helmDone, preserved, purge, outcome>>
  BY DEF RestoreNext, Count
<1> HIDE DEF o, was
<1>5. /\ object' \in [Objects -> Versions]
      /\ \A x \in Objects \ ClusterScoped : object'[x] # "absent" => namespace
  <2>1. CASE object' = object
    BY <2>1 DEF Base, TypeOK, Present
  <2>2. ASSUME NEW v \in Merged(object[o], was), object' = [object EXCEPT ![o] = v],
               was = "absent" \/ CanHold(o)
        PROVE  /\ object' \in [Objects -> Versions]
               /\ \A x \in Objects \ ClusterScoped : object'[x] # "absent" => namespace
    <3>1. v \in Versions /\ (was = "absent" => v = "absent")
      BY <1>3, MergedTyped
    <3>2. QED
      BY <1>1, <2>2, <3>1 DEF Base, TypeOK, Present, CanHold
  <2>3. QED
    BY <1>2, <2>1, <2>2
<1>6. /\ pc' \in [Ops -> Places] /\ \A q \in Ops \ {p} : pc'[q] = pc[q]
      /\ todo' \in [Ops -> Seq(Objects)] /\ \A q \in Ops \ {p} : todo'[q] = todo[q]
      /\ pc'[p] \in Loops => todo'[p] # <<>>
  BY <1>0, <1>1, <1>4 DEF Base, TypeOK, Go, Visit, Places, InstallBlocks, Loops
<1>7. p \in Working
  BY <1>0, <1>1 DEF Working, InstallBlocks
<1>8. QED
  BY <1>0, <1>4, <1>5, <1>6, <1>7, Frame DEF Base, TypeOK, Placed, OnlyOf

LEMMA InstallBase ==
    ASSUME Base, NEW p \in Installs, InstallStep(p)
    PROVE  Base'
<1> USE DEF Base, TypeOK, Placed, LockKept, LockGone, Working, Go, Visit, Present,
            cluster, contents, memory, Loops, RollbackPlaces, InstallBlocks, UninstallBlocks
<1>0. p \in Ops /\ p # None
  BY LifecycleAssumption DEF Ops
<1>1. CASE Prerequisites(p) \/ InstallDone(p) \/ StartRollback(p) \/ RefuseRollback(p)
           \/ ConfirmRollback(p)
  <2>1. CASE Prerequisites(p)
    BY <1>0, <2>1 DEF Prerequisites, Places
  <2>2. CASE InstallDone(p)
    BY <1>0, <2>2 DEF InstallDone, Places
  <2>3. CASE StartRollback(p)
    BY <1>0, <2>3 DEF StartRollback, MayRollback, Places
  <2>4. CASE RefuseRollback(p)
    BY <1>0, <2>4 DEF RefuseRollback, Places
  <2>5. CASE ConfirmRollback(p)
    BY <1>0, <2>5 DEF ConfirmRollback, Places
  <2>6. QED
    BY <1>1, <2>1, <2>2, <2>3, <2>4, <2>5
<1>2. CASE InstallSurvey(p) \/ Snapshot(p)
  <2>1. /\ OnlyOf(p) /\ found'[p].namespace = found[p].namespace
        /\ found'[p].release \in {"absent", "old", "new"}
    <3>1. CASE InstallSurvey(p)
      BY <1>0, <3>1, SurveyChecks DEF InstallSurvey, Installable
    <3>2. CASE Snapshot(p)
      BY <1>0, <3>2, SurveySnapshot DEF Snapshot
    <3>3. QED
      BY <1>2, <3>1, <3>2
  <2>2. /\ UNCHANGED <<cluster, owner, todo, held, helmDone, failures, preserved, purge, outcome>>
        /\ pc'[p] \in {"snapshot", "toHelm"} /\ pc' \in [Ops -> Places]
        /\ \A q \in Ops \ {p} : pc'[q] = pc[q]
    BY <1>0, <1>2 DEF InstallSurvey, Snapshot, Places
  <2>3. QED
    BY <1>0, <2>1, <2>2, Frame
<1>3. CASE \/ EnterBlock(p, "toHelm", "helm", <<>>)
           \/ EnterBlock(p, "toApply", "apply", ApplyOrder)
           \/ EnterBlock(p, "toCr", "applyCr", <<"k8sgpt">>)
  <2>1. /\ "helm" \in Places \ (Loops \cup RollbackPlaces)
        /\ "apply" \in Places \ RollbackPlaces /\ "applyCr" \in Places \ RollbackPlaces
        /\ <<>> \in Seq(Objects)
    BY DEF Places
  <2>2. QED
    BY <1>0, <1>3, <2>1, BlockEntered, Orders
<1>4. CASE ApplyNext(p, "apply", "toCr") \/ ApplyNext(p, "applyCr", "rollout")
  BY <1>0, <1>4, ApplyBase
<1>5. CASE ExitAt(p, {"start", "acquire", "survey", "snapshot", "toHelm", "toApply", "toCr",
                      "rollout"})
  BY <1>0, <1>5, EndTyped DEF ExitAt
<1>6. QED
  BY <1>1, <1>2, <1>3, <1>4, <1>5, HelmBase, UndoBase, RestoreBase DEF InstallStep

LEMMA DeleteBase ==
    ASSUME Base, NEW p \in Ops, NEW block \in {"deleteCr", "deleteRbac"},
           NEW next \in {"toDeleteHelm", "toPurge"}, DeleteNext(p, block, next)
    PROVE  Base'
<1> DEFINE o == Head(todo[p])
<1>1. /\ o \in Objects /\ Tail(todo[p]) \in Seq(Objects) /\ todo[p] # <<>>
      /\ <<>> \in Seq(Objects) /\ pc[p] = block
  BY Walk DEF Base, TypeOK, Placed, DeleteNext, Loops
<1> HIDE DEF o
<1>2. object' = object \/ object' = [object EXCEPT ![o] = "absent"]
  BY DEF DeleteNext, o
<1>3. /\ object' \in [Objects -> Versions]
      /\ \A x \in Objects \ ClusterScoped : object'[x] # "absent" => namespace
  BY <1>1, <1>2 DEF Base, TypeOK, Present, Versions
<1>4. UNCHANGED <<namespace, deletion, secret, demo, release, owner, memory, purge>>
  BY DEF DeleteNext
<1>5. /\ pc' \in [Ops -> Places] /\ \A q \in Ops \ {p} : pc'[q] = pc[q]
      /\ todo' \in [Ops -> Seq(Objects)] /\ \A q \in Ops \ {p} : todo'[q] = todo[q]
      /\ outcome' \in [Ops -> {"none", "done", "failed", "interrupted"}]
      /\ pc'[p] \in Loops => todo'[p] # <<>>
      /\ pc'[p] \in RollbackPlaces => p \in Installs
  <2>1. CASE /\ Visit(p, Tail(todo[p]))
             /\ Go(p, IF Tail(todo[p]) = <<>> THEN next ELSE block)
             /\ UNCHANGED outcome
    BY <1>1, <2>1 DEF Base, TypeOK, Go, Visit, Loops, RollbackPlaces, Places, UninstallBlocks
  <2>2. CASE Visit(p, <<>>) /\ Exit(p, "failed")
    BY <1>1, <2>2, EndTyped DEF Base, TypeOK, Visit, Loops, RollbackPlaces
  <2>3. QED
    BY <2>1, <2>2 DEF DeleteNext
<1>6. p \in Working
  BY <1>1 DEF Working, UninstallBlocks
<1>7. QED
  BY <1>3, <1>4, <1>5, <1>6, Frame DEF Base, TypeOK, Placed, OnlyOf, memory

LEMMA Lowered ==
    ASSUME NEW a \in BOOLEAN, NEW b, b = FALSE \/ b = a
    PROVE  b \in BOOLEAN /\ (b => a)
<1>1. CASE b = a
  BY <1>1
<1>2. CASE b = FALSE
  <2>1. b \in BOOLEAN
    BY <1>2
  <2>2. ~b
    BY <1>2
  <2>3. QED
    BY <2>1, <2>2
<1>3. QED
  BY <1>1, <1>2

LEMMA UninstallBase ==
    ASSUME Base, NEW p \in Uninstalls, UninstallStep(p)
    PROVE  Base'
<1> USE DEF Base, TypeOK, Placed, LockKept, LockGone, Working, Go, Visit, Present,
            cluster, contents, memory, Loops, RollbackPlaces, InstallBlocks, UninstallBlocks
<1>0. p \in Ops /\ p # None /\ p \notin Installs
  BY LifecycleAssumption DEF Ops
<1>1. CASE FindNamespace(p) \/ AwaitNamespace(p)
  <2>1. OnlyOf(p) /\ (~found'[p].namespace => ~namespace)
    <3>1. namespace \in BOOLEAN /\ FALSE \in BOOLEAN
      OBVIOUS
    <3>2. CASE FindNamespace(p)
      BY <1>0, <3>1, <3>2, SurveyField DEF FindNamespace
    <3>3. CASE AwaitNamespace(p)
      BY <1>0, <3>1, <3>3, SurveyField DEF AwaitNamespace
    <3>4. QED
      BY <1>1, <3>2, <3>3
  <2>2. /\ pc[p] \in {"start", "awaitNamespace"} /\ pc'[p] \in {"acquire", "survey", "residual"}
        /\ pc' \in [Ops -> Places] /\ \A q \in Ops \ {p} : pc'[q] = pc[q]
        /\ UNCHANGED <<cluster, owner, todo, held, helmDone, failures, preserved, purge, outcome>>
    BY <1>0, <1>1 DEF FindNamespace, AwaitNamespace, Places
  <2>3. TypeOK'
    BY <2>1, <2>2 DEF OnlyOf
  <2>4. Placed'
    BY <1>0, <2>1, <2>2 DEF OnlyOf
  <2>5. LockKept'
    BY <1>0, <2>1, <2>2 DEF OnlyOf
  <2>6. QED
    BY <2>3, <2>4, <2>5
<1>2. CASE UninstallSurvey(p)
  <2>1. OnlyOf(p) /\ found'[p].namespace = found[p].namespace
    BY <1>0, <1>2, SurveyChecks DEF UninstallSurvey
  <2>2. /\ pc'[p] \in {"toDeleteCr", "toDeleteHelm"}
        /\ pc' \in [Ops -> Places] /\ \A q \in Ops \ {p} : pc'[q] = pc[q]
        /\ UNCHANGED <<cluster, owner, todo, held, helmDone, failures, preserved, purge, outcome>>
    BY <1>0, <1>2 DEF UninstallSurvey, Places
  <2>3. QED
    BY <1>0, <2>1, <2>2, Frame
<1>3. CASE \/ EnterBlock(p, "toDeleteCr", "deleteCr", <<"k8sgpt">>)
           \/ found[p].release # "absent" /\ EnterBlock(p, "toDeleteHelm", "deleteHelm", <<>>)
           \/ EnterBlock(p, "toDeleteRbac", "deleteRbac", RbacOrder(p))
           \/ /\ found[p].namespace /\ "secret" \in purge[p] /\ "demo" \notin purge[p]
              /\ EnterBlock(p, "toPurge", "deleteSecret", <<>>)
  <2>1. /\ {"deleteHelm", "deleteSecret"} \subseteq Places \ (Loops \cup RollbackPlaces)
        /\ "deleteCr" \in Places \ RollbackPlaces /\ "deleteRbac" \in Places \ RollbackPlaces
        /\ <<>> \in Seq(Objects)
    BY DEF Places
  <2>2. QED
    BY <1>0, <1>3, <2>1, BlockEntered, Orders, RbacOrders
<1>4. CASE DeleteNext(p, "deleteCr", "toDeleteHelm") \/ DeleteNext(p, "deleteRbac", "toPurge")
  BY <1>0, <1>4, DeleteBase
<1>5. CASE SkipHelm(p) \/ SkipPurge(p) \/ EnterDemo(p) \/ ReleaseForPurge(p)
  <2>1. CASE SkipHelm(p)
    BY <1>0, <2>1 DEF SkipHelm, Places
  <2>2. CASE SkipPurge(p)
    BY <1>0, <2>2 DEF SkipPurge, Places
  <2>3. CASE EnterDemo(p)
    BY <1>0, <2>3 DEF EnterDemo, Places
  <2>4. CASE ReleaseForPurge(p)
    BY <1>0, <2>4 DEF ReleaseForPurge, Places
  <2>5. QED
    BY <1>5, <2>1, <2>2, <2>3, <2>4
<1>6. CASE HelmUninstall(p)
  <2>1. HelmLeaves({"absent"}) \/ HelmLeaves({"kept", "absent"})
    BY <1>6 DEF HelmUninstall
  <2>2. {"absent"} \subseteq {"kept"} \cup Versions /\ {"kept", "absent"} \subseteq {"kept"} \cup Versions
    BY DEF Versions
  <2>3. /\ object' \in [Objects -> Versions]
        /\ \A x \in Objects \ ClusterScoped : object'[x] # "absent" => namespace
    BY <2>1, <2>2, HelmTyped
  <2>4. release' \in ReleaseStates /\ (release' # "absent" => namespace)
    BY <1>6 DEF HelmUninstall, ReleaseStates
  <2>5. UNCHANGED <<namespace, deletion, secret, demo, owner, todo, memory, purge>>
        /\ pc[p] = "deleteHelm"
    BY <1>6 DEF HelmUninstall
  <2>6. /\ pc' \in [Ops -> Places] /\ \A q \in Ops \ {p} : pc'[q] = pc[q]
        /\ pc'[p] \in {"toDeleteRbac", "rollback", "release"}
        /\ pc'[p] \in RollbackPlaces => p \in Installs
        /\ outcome' \in [Ops -> {"none", "done", "failed", "interrupted"}]
    <3>1. CASE Go(p, "toDeleteRbac") /\ UNCHANGED outcome
      BY <1>0, <3>1 DEF Places
    <3>2. CASE Exit(p, "failed")
      BY <1>0, <3>2, EndTyped
    <3>3. QED
      BY <1>6, <3>1, <3>2 DEF HelmUninstall
  <2>7. QED
    BY <1>0, <2>3, <2>4, <2>5, <2>6, Frame DEF OnlyOf
<1>7. CASE EnterRbacUnlocked(p)
  BY <1>0, <1>7, RbacOrders DEF EnterRbacUnlocked, Places
<1>8. CASE DeleteDemo(p) \/ DeleteSecret(p)
  <2>1. /\ UNCHANGED <<namespace, deletion, release, object, owner, todo, memory>>
        /\ purge' \in [Uninstalls -> SUBSET {"demo", "secret", "namespace"}]
        /\ secret' \in BOOLEAN /\ demo' \in BOOLEAN /\ (secret' => secret)
        /\ pc[p] \in {"deleteDemo", "deleteSecret"}
    <3>1. CASE DeleteDemo(p)
      <4>1. demo' \in BOOLEAN
        BY <3>1 DEF DeleteDemo
      <4>2. purge' \in [Uninstalls -> SUBSET {"demo", "secret", "namespace"}]
        BY <3>1 DEF DeleteDemo
      <4>3. QED
        BY <3>1, <4>1, <4>2 DEF DeleteDemo
    <3>2. CASE DeleteSecret(p)
      <4>1. secret' = FALSE \/ secret' = secret
        BY <3>2 DEF DeleteSecret
      <4>2. purge' \in [Uninstalls -> SUBSET {"demo", "secret", "namespace"}]
        BY <3>2 DEF DeleteSecret
      <4>3. secret' \in BOOLEAN /\ (secret' => secret)
        BY <4>1, Lowered
      <4>4. QED
        BY <3>2, <4>2, <4>3 DEF DeleteSecret
    <3>3. QED
      BY <1>8, <3>1, <3>2
  <2>2. CASE Go(p, "toPurge") /\ UNCHANGED outcome
    BY <1>0, <2>1, <2>2 DEF Places
  <2>3. CASE Exit(p, "failed")
    BY <1>0, <2>1, <2>3, EndTyped
  <2>4. QED
    BY <1>8, <2>2, <2>3 DEF DeleteDemo, DeleteSecret
<1>9. CASE DeleteNamespace(p)
  <2>1. /\ deletion' \in {"none", "begun", "leaseGone"}
        /\ deletion' = "leaseGone" <=> deletion = "leaseGone"
        /\ UNCHANGED <<namespace, contents, owner, todo, memory, purge>>
    BY <1>9 DEF DeleteNamespace, BeginDeletion
  <2>2. CASE Go(p, "awaitNamespace") /\ UNCHANGED outcome
    BY <1>0, <2>1, <2>2 DEF Places
  <2>3. CASE Exit(p, "failed")
    BY <1>0, <2>1, <2>3, EndTyped
  <2>4. QED
    BY <1>9, <2>2, <2>3 DEF DeleteNamespace
<1>10. CASE UninstallDone(p)
  BY <1>0, <1>10, EndTyped DEF UninstallDone
<1>11. CASE ExitAt(p, {"start", "acquire", "survey", "toDeleteCr", "toDeleteHelm",
                       "toDeleteRbac", "toPurge", "awaitNamespace", "residual"})
  BY <1>0, <1>11, EndTyped DEF ExitAt
<1>12. QED
  BY <1>1, <1>2, <1>3, <1>4, <1>5, <1>6, <1>7, <1>8, <1>9, <1>10, <1>11 DEF UninstallStep

LEMMA LockBase ==
    ASSUME Base, NEW p \in Ops, Acquire(p) \/ Release(p) \/ Interrupt(p)
    PROVE  Base'
<1> USE DEF Base, TypeOK, Placed, LockKept, LockGone, Working, Go, Visit, Present,
            cluster, contents, memory, Loops, RollbackPlaces, InstallBlocks, UninstallBlocks
<1>0. p # None /\ NothingFound \in Surveys /\ NothingFound.namespace
      /\ NothingFound.release = "absent"
  BY LifecycleAssumption DEF NothingFound, Surveys, ReleaseStates, Versions
<1>1. CASE Acquire(p)
  BY <1>0, <1>1 DEF Acquire, Places
<1>2. CASE Release(p)
  BY <1>0, <1>2 DEF Release, Forget, Places
<1>3. CASE Interrupt(p)
  <2>1. <<>> \in Seq(Objects)
    OBVIOUS
  <2>2. CASE pc[p] \in {"rollback", "undoHelm", "restore", "confirm"}
    <3>1. /\ found' = [found EXCEPT ![p] = NothingFound]
          /\ todo' = [todo EXCEPT ![p] = <<>>] /\ pc' = [pc EXCEPT ![p] = "ended"]
          /\ helmDone' = helmDone \ {p} /\ failures' = failures \ {p}
          /\ preserved' = preserved \cup {p}
          /\ outcome' = [outcome EXCEPT ![p] = "interrupted"]
          /\ UNCHANGED <<cluster, owner, held, purge>>
      BY <1>3, <2>2 DEF Interrupt, Forget
    <3>2. found' \in [Ops -> Surveys]
      BY <1>0, <3>1
    <3>3. TypeOK'
      BY <2>1, <2>2, <3>1, <3>2 DEF Places
    <3>4. Placed'
      BY <1>0, <3>1
    <3>5. LockKept'
      BY <1>0, <3>1
    <3>6. QED
      BY <3>3, <3>4, <3>5
  <2>3. CASE pc[p] \notin {"rollback", "undoHelm", "restore", "confirm"}
    <3>1. /\ todo' = [todo EXCEPT ![p] = <<>>] /\ pc' = [pc EXCEPT ![p] = "release"]
          /\ outcome' = [outcome EXCEPT ![p] = "interrupted"]
          /\ UNCHANGED <<cluster, owner, memory, purge>>
      BY <1>3, <2>3 DEF Interrupt
    <3>2. TypeOK'
      BY <2>1, <3>1 DEF Places
    <3>3. Placed'
      BY <1>0, <3>1
    <3>4. LockKept'
      BY <1>0, <3>1
    <3>5. QED
      BY <3>2, <3>3, <3>4
  <2>4. QED
    BY <2>2, <2>3
<1>4. QED
  BY <1>1, <1>2, <1>3

(* What the others may do to the cluster.                                   *)
LEMMA WorldMoves ==
    ASSUME TypeOK, Intrude \/ Collect
    PROVE  /\ UNCHANGED <<demo, pc, todo, memory, purge, outcome>>
           /\ namespace' \in BOOLEAN /\ (namespace' => namespace)
           /\ secret' \in BOOLEAN /\ (secret' => secret /\ namespace')
           /\ deletion' \in {deletion, "leaseGone"} /\ (LockGone => LockGone')
           /\ owner' \in {owner, None} /\ (owner' # None => ~LockGone')
           /\ owner' # owner => LockGone'
           /\ release' \in {release, "absent", "foreign"} /\ (release' # "absent" => namespace')
           /\ object' \in [Objects -> Versions]
           /\ \A o \in Objects : object'[o] \in {object[o], "absent", "foreign"}
           /\ \A o \in Objects \ ClusterScoped : object'[o] # "absent" => namespace'
           /\ deletion' = "none" => /\ deletion = "none"
                                    /\ release' \in {release, "foreign"}
                                    /\ \A o \in Objects : object'[o] \in {object[o], "foreign"}
<1> USE DEF TypeOK, LockGone, Present, Versions, ReleaseStates
<1>1. CASE Intrude
  <2>1. \/ /\ \E o \in Contested \ {"release"} : CanHold(o) /\ object' = [object EXCEPT ![o] = "foreign"]
           /\ UNCHANGED release
        \/ CanRecord /\ release' = "foreign" /\ UNCHANGED object
    BY <1>1 DEF Intrude
  <2>2. UNCHANGED <<namespace, deletion, secret, demo, owner, pc, todo, memory, purge, outcome>>
    BY <1>1 DEF Intrude
  <2>3. QED
    BY <2>1, <2>2 DEF CanHold, CanRecord
<1>2. CASE Collect
  <2>1. /\ namespace /\ deletion # "none"
        /\ UNCHANGED <<demo, pc, todo, memory, purge, outcome>>
    BY <1>2 DEF Collect
  <2>2. CASE /\ \E o \in Objects \ ClusterScoped :
                    Present(o) /\ object' = [object EXCEPT ![o] = "absent"]
             /\ UNCHANGED <<namespace, deletion, secret, release, owner>>
    BY <2>1, <2>2
  <2>3. CASE /\ secret /\ secret' = FALSE
             /\ UNCHANGED <<namespace, deletion, release, object, owner>>
    BY <2>1, <2>3
  <2>4. CASE /\ release # "absent" /\ release' = "absent"
             /\ UNCHANGED <<namespace, deletion, secret, object, owner>>
    BY <2>1, <2>4
  <2>5. CASE /\ deletion = "begun" /\ deletion' = "leaseGone" /\ owner' = None
             /\ UNCHANGED <<namespace, secret, release, object>>
    BY <2>1, <2>5
  <2>6. CASE /\ deletion = "leaseGone" /\ ~secret /\ release = "absent"
             /\ \A o \in Objects \ ClusterScoped : ~Present(o)
             /\ namespace' = FALSE
             /\ UNCHANGED <<deletion, secret, release, object, owner>>
    BY <2>1, <2>6
  <2>7. QED
    BY <1>2, <2>2, <2>3, <2>4, <2>5, <2>6 DEF Collect
<1>3. QED
  BY <1>1, <1>2

LEMMA WorldBase ==
    ASSUME Base, Intrude \/ Collect
    PROVE  Base'
<1>1. TypeOK'
  BY WorldMoves DEF Base, TypeOK, Present, memory, ReleaseStates
<1>2. Placed' /\ LockKept'
  BY WorldMoves DEF Base, Placed, LockKept, Working, memory
<1>3. QED
  BY <1>1, <1>2 DEF Base

LEMMA BaseStep ==
    ASSUME Base, [Next]_vars
    PROVE  Base'
<1>1. CASE UNCHANGED vars
  BY <1>1 DEF vars, Base, TypeOK, Placed, LockKept, LockGone, Working, Present, cluster,
     contents, memory
<1>2. QED
  BY <1>1, InstallBase, UninstallBase, LockBase, WorldBase DEF Next

-----------------------------------------------------------------------------
(* What a step leaves alone.                                                *)

Step(q) ==
    \/ q \in Installs /\ InstallStep(q)
    \/ q \in Uninstalls /\ UninstallStep(q)
    \/ q \in Ops /\ (Acquire(q) \/ Release(q) \/ Interrupt(q))

Same(p) ==
    /\ pc'[p] = pc[p] /\ todo'[p] = todo[p] /\ found'[p] = found[p]
    /\ outcome'[p] = outcome[p]
    /\ p \in helmDone' <=> p \in helmDone
    /\ p \in failures' <=> p \in failures
    /\ p \in preserved' <=> p \in preserved

LEMMA StepOrStutter ==
    [Next]_vars => UNCHANGED vars \/ Intrude \/ Collect \/ \E q \in Ops : Step(q)
BY DEF Next, Step, Ops

LEMMA StepIsNext == \A q \in Ops : Step(q) => Next
BY DEF Next, Step, Ops

(* Every script has its own variables.                                      *)
LEMMA OthersSame ==
    ASSUME TypeOK, NEW q \in Ops, Step(q), NEW p \in Ops \ {q}
    PROVE  Same(p)
<1> USE DEF TypeOK, Same, Go, Visit, Exit, memory, cluster
<1>1. CASE InstallStep(q)
  <2>1. CASE Prerequisites(q) \/ InstallSurvey(q) \/ Snapshot(q) \/ InstallDone(q)
    BY <2>1 DEF Prerequisites, InstallSurvey, Snapshot, InstallDone
  <2>2. ASSUME NEW f, NEW b, NEW o, EnterBlock(q, f, b, o) PROVE Same(p)
    BY <2>2 DEF EnterBlock
  <2>3. ASSUME NEW b, NEW n, ApplyNext(q, b, n) PROVE Same(p)
    BY <2>3 DEF ApplyNext
  <2>4. CASE StartRollback(q) \/ RefuseRollback(q) \/ UndoHelm(q) \/ ConfirmRollback(q)
    BY <2>4 DEF StartRollback, RefuseRollback, UndoHelm, ConfirmRollback, Count
  <2>5. CASE RestoreNext(q) \/ HelmUpgrade(q)
    BY <2>5 DEF RestoreNext, HelmUpgrade, Count
  <2>6. ASSUME NEW s, ExitAt(q, s) PROVE Same(p)
    BY <2>6 DEF ExitAt
  <2>7. QED
    BY <1>1, <2>1, <2>2, <2>3, <2>4, <2>5, <2>6 DEF InstallStep
<1>2. CASE UninstallStep(q)
  <2>1. CASE FindNamespace(q) \/ UninstallSurvey(q) \/ SkipHelm(q) \/ EnterRbacUnlocked(q)
             \/ EnterDemo(q) \/ SkipPurge(q) \/ AwaitNamespace(q)
    BY <2>1 DEF FindNamespace, UninstallSurvey, SkipHelm, EnterRbacUnlocked, EnterDemo, SkipPurge,
                AwaitNamespace
  <2>2. ASSUME NEW f, NEW b, NEW o, EnterBlock(q, f, b, o) PROVE Same(p)
    BY <2>2 DEF EnterBlock
  <2>3. ASSUME NEW b, NEW n, DeleteNext(q, b, n) PROVE Same(p)
    BY <2>3 DEF DeleteNext
  <2>4. CASE HelmUninstall(q) \/ ReleaseForPurge(q) \/ UninstallDone(q)
    BY <2>4 DEF HelmUninstall, ReleaseForPurge, UninstallDone
  <2>5. CASE DeleteDemo(q) \/ DeleteSecret(q)
    BY <2>5 DEF DeleteDemo, DeleteSecret
  <2>6. CASE DeleteNamespace(q)
    BY <2>6 DEF DeleteNamespace
  <2>7. ASSUME NEW s, ExitAt(q, s) PROVE Same(p)
    BY <2>7 DEF ExitAt
  <2>8. QED
    BY <1>2, <2>1, <2>2, <2>3, <2>4, <2>5, <2>6, <2>7 DEF UninstallStep
<1>3. CASE Acquire(q) \/ Release(q) \/ Interrupt(q)
  BY <1>3 DEF Acquire, Release, Interrupt, Forget
<1>4. QED
  BY <1>1, <1>2, <1>3 DEF Step

(* Only a script in a block changes what is in the cluster.                 *)
LEMMA Mutators ==
    ASSUME NEW q \in Ops, Step(q), contents' # contents
    PROVE  q \in Working
<1> USE DEF Working, InstallBlocks, UninstallBlocks, cluster, contents
<1>1. CASE InstallStep(q)
  <2>1. CASE Prerequisites(q) \/ InstallSurvey(q) \/ Snapshot(q) \/ InstallDone(q)
             \/ StartRollback(q) \/ RefuseRollback(q) \/ ConfirmRollback(q)
    BY <2>1 DEF Prerequisites, InstallSurvey, Snapshot, InstallDone, StartRollback,
                RefuseRollback, ConfirmRollback
  <2>2. CASE HelmUpgrade(q) \/ UndoHelm(q) \/ RestoreNext(q)
    BY <2>2 DEF HelmUpgrade, UndoHelm, RestoreNext
  <2>3. CASE ApplyNext(q, "apply", "toCr") \/ ApplyNext(q, "applyCr", "rollout")
    BY <2>3 DEF ApplyNext
  <2>4. ASSUME NEW f, NEW b, NEW o, EnterBlock(q, f, b, o) PROVE FALSE
    BY <2>4 DEF EnterBlock
  <2>5. ASSUME NEW s, ExitAt(q, s) PROVE FALSE
    BY <2>5 DEF ExitAt
  <2>6. QED
    BY <1>1, <2>1, <2>2, <2>3, <2>4, <2>5 DEF InstallStep
<1>2. CASE UninstallStep(q)
  <2>1. CASE FindNamespace(q) \/ UninstallSurvey(q) \/ SkipHelm(q) \/ EnterRbacUnlocked(q)
             \/ EnterDemo(q) \/ SkipPurge(q) \/ ReleaseForPurge(q) \/ AwaitNamespace(q)
             \/ UninstallDone(q)
    BY <2>1 DEF FindNamespace, UninstallSurvey, SkipHelm, EnterRbacUnlocked, EnterDemo,
                SkipPurge, ReleaseForPurge, AwaitNamespace, UninstallDone
  <2>2. CASE HelmUninstall(q) \/ DeleteDemo(q) \/ DeleteSecret(q)
    <3>1. CASE HelmUninstall(q)
      BY <3>1 DEF HelmUninstall
    <3>2. CASE DeleteSecret(q)
      BY <3>2 DEF DeleteSecret
    <3>3. CASE DeleteDemo(q)
      BY <3>3 DEF DeleteDemo
    <3>4. QED
      BY <2>2, <3>1, <3>2, <3>3
  <2>3. CASE DeleteNext(q, "deleteCr", "toDeleteHelm") \/ DeleteNext(q, "deleteRbac", "toPurge")
    BY <2>3 DEF DeleteNext
  <2>4. ASSUME DeleteNamespace(q) PROVE FALSE
    BY <2>4 DEF DeleteNamespace
  <2>5. ASSUME NEW f, NEW b, NEW o, EnterBlock(q, f, b, o) PROVE FALSE
    BY <2>5 DEF EnterBlock
  <2>6. ASSUME NEW s, ExitAt(q, s) PROVE FALSE
    BY <2>6 DEF ExitAt
  <2>7. QED
    BY <1>2, <2>1, <2>2, <2>3, <2>4, <2>5, <2>6 DEF UninstallStep
<1>3. CASE Acquire(q) \/ Release(q) \/ Interrupt(q)
  BY <1>3 DEF Acquire, Release, Interrupt
<1>4. QED
  BY <1>1, <1>2, <1>3 DEF Step

LEMMA OwnerMoves ==
    ASSUME NEW q \in Ops, Step(q)
    PROVE  /\ owner' \in {owner, q, None}
           /\ owner' = q => owner = q \/ Acquire(q)
           /\ deletion' = "none" => deletion = "none"
<1> USE DEF cluster
<1>1. CASE Acquire(q) \/ Release(q) \/ Interrupt(q)
  BY <1>1, LifecycleAssumption DEF Acquire, Release, Interrupt
<1>2. CASE InstallStep(q)
  BY <1>2 DEF InstallStep, Prerequisites, InstallSurvey, Snapshot, HelmUpgrade, InstallDone,
     EnterBlock, ApplyNext, StartRollback, RefuseRollback, UndoHelm, RestoreNext,
     ConfirmRollback, ExitAt
<1>3. CASE UninstallStep(q)
  <2>1. CASE DeleteNamespace(q)
    BY <2>1 DEF DeleteNamespace, BeginDeletion
  <2>2. CASE ReleaseForPurge(q)
    BY <2>2, LifecycleAssumption DEF ReleaseForPurge
  <2>3. QED
    BY <1>3, <2>1, <2>2 DEF UninstallStep, FindNamespace, UninstallSurvey, SkipHelm,
       EnterRbacUnlocked, EnterDemo, SkipPurge, EnterBlock, DeleteNext, HelmUninstall,
       DeleteDemo, DeleteSecret, AwaitNamespace, UninstallDone, ExitAt
<1>4. QED
  BY <1>1, <1>2, <1>3 DEF Step

(* While an operation owns the lock, before and after, the others change
   nothing that is in the cluster.                                          *)
LEMMA Undisturbed ==
    ASSUME Base, NEW p \in Ops, NEW q \in Ops \ {p}, Step(q), owner' = p
    PROVE  owner = p /\ UNCHANGED <<release, object>> /\ Same(p)
<1>1. owner = p /\ ~LockGone
  BY OwnerMoves, LifecycleAssumption DEF Base, TypeOK
<1>2. UNCHANGED contents
  BY <1>1, Mutators DEF Base, LockKept
<1>3. QED
  BY <1>1, <1>2, OthersSame DEF Base, contents

-----------------------------------------------------------------------------
(* How far a script has come.                                               *)

LEMMA AdvancedOwn ==
    ASSUME Base, Prepared, NEW p \in Ops, Step(p)
    PROVE  Advanced(p)'
<1> USE DEF Base, TypeOK, Advanced, Unsurveyed, Unrecorded, Forward, PastHelm, RollbackPlaces,
           Go, memory
<1>0. Advanced(p)
  BY DEF Prepared
<1>1. CASE Acquire(p) \/ Release(p) \/ Interrupt(p)
  <2>1. CASE Acquire(p)
    BY <1>0, <2>1 DEF Acquire
  <2>2. CASE Release(p)
    BY <1>0, <2>2 DEF Release, Forget, NothingFound
  <2>3. CASE Interrupt(p)
    BY <1>0, <2>3 DEF Interrupt, Forget
  <2>4. QED
    BY <1>1, <2>1, <2>2, <2>3
<1>2. ASSUME NEW s, ExitAt(p, s) PROVE Advanced(p)'
  BY <1>0, <1>2 DEF ExitAt, Exit
<1>3. ASSUME NEW f, NEW b \in {"helm", "deleteHelm", "deleteSecret", "deleteCr", "deleteRbac"},
             NEW o, EnterBlock(p, f, b, o), f \notin Unsurveyed \cup Unrecorded,
             b = "helm" \/ p \notin Installs
      PROVE  Advanced(p)'
  BY <1>0, <1>3 DEF EnterBlock
<1>4. CASE p \in Installs /\ InstallStep(p)
  <2>1. CASE Prerequisites(p)
    BY <1>0, <2>1 DEF Prerequisites
  <2>2. CASE InstallSurvey(p)
    BY <1>0, <2>2, SurveyChecks DEF InstallSurvey, Installable
  <2>3. CASE Snapshot(p)
    BY <1>0, <2>3, SurveySnapshot DEF Snapshot
  <2>4. CASE HelmUpgrade(p)
    BY <1>0, <2>4 DEF HelmUpgrade, Exit
  <2>5. CASE EnterBlock(p, "toApply", "apply", ApplyOrder)
             \/ EnterBlock(p, "toCr", "applyCr", <<"k8sgpt">>)
    BY <1>0, <2>5 DEF EnterBlock
  <2>6. CASE ApplyNext(p, "apply", "toCr") \/ ApplyNext(p, "applyCr", "rollout")
    BY <1>0, <2>6 DEF ApplyNext, Exit
  <2>7. CASE InstallDone(p)
    BY <1>0, <2>7 DEF InstallDone
  <2>8. CASE StartRollback(p) \/ RefuseRollback(p) \/ ConfirmRollback(p)
    BY <1>0, <2>8 DEF StartRollback, RefuseRollback, ConfirmRollback
  <2>9. CASE UndoHelm(p) \/ RestoreNext(p)
    <3>1. /\ pc[p] \in {"undoHelm", "restore"} /\ pc'[p] \in {"restore", "confirm"}
          /\ UNCHANGED <<found, helmDone, outcome>>
      BY <2>9 DEF UndoHelm, RestoreNext
    <3>2. QED
      BY <1>0, <3>1
  <2>10. QED
    BY <1>2, <1>3, <1>4, <2>1, <2>2, <2>3, <2>4, <2>5, <2>6, <2>7, <2>8, <2>9 DEF InstallStep
<1>5. CASE p \in Uninstalls /\ UninstallStep(p)
  <2>0. p \notin Installs
    BY <1>5, LifecycleAssumption
  <2>1. CASE FindNamespace(p)
    <3>1. namespace \in BOOLEAN
      OBVIOUS
    <3>2. QED
      BY <1>0, <2>0, <2>1, <3>1, SurveyField DEF FindNamespace
  <2>2. CASE UninstallSurvey(p)
    BY <1>0, <2>0, <2>2, SurveyChecks DEF UninstallSurvey
  <2>3. CASE AwaitNamespace(p)
    <3>1. FALSE \in BOOLEAN
      OBVIOUS
    <3>2. QED
      BY <1>0, <2>0, <2>3, <3>1, SurveyField DEF AwaitNamespace
  <2>4. CASE DeleteNext(p, "deleteCr", "toDeleteHelm") \/ DeleteNext(p, "deleteRbac", "toPurge")
    BY <1>0, <2>0, <2>4 DEF DeleteNext, Exit
  <2>5. CASE HelmUninstall(p)
    BY <1>0, <2>0, <2>5 DEF HelmUninstall, Exit
  <2>6. CASE DeleteDemo(p) \/ DeleteSecret(p) \/ DeleteNamespace(p)
    BY <1>0, <2>0, <2>6 DEF DeleteDemo, DeleteSecret, DeleteNamespace, Exit
  <2>7. CASE SkipHelm(p) \/ EnterRbacUnlocked(p) \/ EnterDemo(p) \/ SkipPurge(p)
             \/ ReleaseForPurge(p)
    BY <1>0, <2>0, <2>7 DEF SkipHelm, EnterRbacUnlocked, EnterDemo, SkipPurge, ReleaseForPurge
  <2>8. CASE UninstallDone(p)
    BY <1>0, <2>0, <2>8 DEF UninstallDone, Exit
  <2>9. QED
    BY <1>2, <1>3, <1>5, <2>0, <2>1, <2>2, <2>3, <2>4, <2>5, <2>6, <2>7, <2>8 DEF UninstallStep
<1>6. QED
  BY <1>1, <1>4, <1>5 DEF Step

LEMMA PreparedStep ==
    ASSUME Base, Prepared, NEW q \in Ops, Step(q)
    PROVE  Prepared'
<1>1. ASSUME NEW p \in Ops PROVE Advanced(p)'
  <2>1. CASE p = q
    BY <2>1, AdvancedOwn
  <2>2. CASE p # q
    BY <2>2, OthersSame DEF Base, Prepared, Advanced, Same
  <2>3. QED
    BY <2>1, <2>2
<1>2. QED
  BY <1>1 DEF Prepared

-----------------------------------------------------------------------------
(* The install.                                                             *)

LEMMA InstallMoves ==
    ASSUME NEW p \in Installs, Step(p)
    PROVE  InstallStep(p) \/ Acquire(p) \/ Release(p) \/ Interrupt(p)
BY LifecycleAssumption DEF Step

(* What is beside the chart stays as it is, or is applied.                   *)
LEMMA BesideKept ==
    ASSUME NEW p, NEW versions, Beside(p, versions), NEW more, versions \subseteq more,
           found'[p] = found[p],
           \A o \in Objects \ ChartObjects : object'[o] \in {object[o], "foreign"} \cup more
    PROVE  Beside(p, more)'
BY DEF Beside

LEMMA InstallOwn ==
    ASSUME Base, Prepared, Installed, NEW p \in Installs, Step(p), Holding(p)',
           found'[p].ready
    PROVE  InstallBy(p)'
<1> DEFINE gaveUp(result) == pc[p] = "release" /\ outcome[p] = result
<1>0. p \in Ops /\ Advanced(p) /\ pc \in [Ops -> Places]
      /\ outcome \in [Ops -> {"none", "done", "failed", "interrupted"}]
      /\ found \in [Ops -> Surveys]
  BY DEF Ops, Prepared, Base, TypeOK
<1>1. deletion = "none" /\ (owner = p \/ Acquire(p))
  BY <1>0, OwnerMoves DEF Holding
<1> USE DEF Advanced, Unrecorded, Go
<1>2. ASSUME Acquire(p) PROVE FALSE
  BY <1>0, <1>2 DEF Acquire
<1>3. Holding(p)
  BY <1>1, <1>2 DEF Holding
<1>4. CASE Snapshot(p)
  <2>1. /\ found'[p].object = object /\ pc'[p] = "toHelm" /\ UNCHANGED object
    BY <1>0, <1>4, SurveySnapshot DEF Base, Snapshot, cluster, contents
  <2>2. Beside(p, {})' /\ Beside(p, {"new"})'
    BY <2>1 DEF Beside
  <2>3. QED
    BY <2>2 DEF InstallBy
<1>5. ASSUME Prerequisites(p) \/ InstallSurvey(p) PROVE FALSE
  <2>1. found'[p].ready = found[p].ready
    BY <1>0, <1>5, SurveyChecks DEF Base, Prerequisites, InstallSurvey, Installable, memory
  <2>2. QED
    BY <1>0, <1>5, <2>1 DEF Prerequisites, InstallSurvey
<1>6. ASSUME found'[p] = found[p] PROVE InstallBy(p)
  BY <1>3, <1>6 DEF Installed
<1>7. CASE HelmUpgrade(p)
  <2>1. found'[p] = found[p] /\ pc[p] = "helm"
    BY <1>7 DEF HelmUpgrade
  <2>2. Beside(p, {})
    BY <1>6, <2>1 DEF InstallBy
  <2>3. \A o \in Objects \ ChartObjects : object'[o] = object[o]
    <3>1. object' = object \/ HelmLeaves({"new"}) \/ HelmLeaves({"kept", "new", "absent"})
      BY <1>7 DEF HelmUpgrade
    <3>2. {"new"} \subseteq {"kept"} \cup Versions
          /\ {"kept", "new", "absent"} \subseteq {"kept"} \cup Versions
      BY DEF Versions
    <3>3. QED
      BY <3>1, <3>2, HelmTyped DEF Base
  <2>4. Beside(p, {})' /\ Beside(p, {"new"})'
    BY <2>1, <2>2, <2>3, BesideKept
  <2>5. QED
    BY <2>4 DEF InstallBy
<1>8. CASE ApplyNext(p, "apply", "toCr") \/ ApplyNext(p, "applyCr", "rollout")
  <2>1. /\ found'[p] = found[p] /\ pc[p] \in {"apply", "applyCr"} /\ helmDone' = helmDone
        /\ \/ pc'[p] \in {"toCr", "rollout", "apply", "applyCr"}
           \/ Exit(p, "failed")
    BY <1>0, <1>8 DEF ApplyNext, memory
  <2>2. p \in helmDone /\ Beside(p, {"new"})
    BY <1>0, <1>6, <2>1 DEF InstallBy, PastHelm, Forward
  <2>3. \A o \in Objects : object'[o] \in {object[o], "new"}
    <3>1. object' = object \/ \E o \in Objects : object' = [object EXCEPT ![o] = "new"]
      BY <1>0, <1>8, <2>1, Walk DEF ApplyNext, Base, Placed, Loops, TypeOK
    <3>2. QED
      BY <3>1 DEF Base, TypeOK
  <2>4. Beside(p, {"new"})'
    BY <2>1, <2>2, <2>3, BesideKept
  <2>5. pc'[p] \in {"toCr", "rollout", "apply", "applyCr", "rollback"}
    BY <1>0, <2>1, <2>2 DEF Exit
  <2>6. QED
    BY <2>4, <2>5 DEF InstallBy
<1>9. CASE UndoHelm(p) \/ RestoreNext(p)
  <2>1. pc'[p] \in {"restore", "confirm"}
    BY <1>0, <1>9 DEF UndoHelm, RestoreNext
  <2>2. QED
    BY <2>1 DEF InstallBy, Forward
<1>10. ASSUME found'[p] = found[p], UNCHANGED object
       PROVE  /\ Beside(p, {}) => Beside(p, {})'
              /\ Beside(p, {"new"}) => Beside(p, {"new"})'
  BY <1>10, BesideKept
<1>11. CASE \/ EnterBlock(p, "toHelm", "helm", <<>>)
            \/ EnterBlock(p, "toApply", "apply", ApplyOrder)
            \/ EnterBlock(p, "toCr", "applyCr", <<"k8sgpt">>)
  <2>1. /\ found'[p] = found[p] /\ UNCHANGED object
        /\ \/ pc[p] = "toHelm" /\ pc'[p] = "helm"
           \/ pc[p] \in {"toApply", "toCr"} /\ pc'[p] \in {"apply", "applyCr"}
    BY <1>0, <1>11 DEF EnterBlock, cluster, contents, memory
  <2>2. QED
    BY <1>6, <1>10, <2>1 DEF InstallBy, Forward
<1>12. CASE InstallDone(p) \/ Release(p) \/ StartRollback(p)
  <2>1. pc'[p] \in {"ended", "undoHelm"} \/ (pc'[p] = "release" /\ outcome'[p] = "done")
    BY <1>0, <1>12 DEF InstallDone, Release, StartRollback
  <2>2. QED
    BY <2>1 DEF InstallBy, Forward
<1>13. CASE RefuseRollback(p) \/ ConfirmRollback(p)
  <2>1. /\ pc[p] \in {"rollback", "confirm"} /\ pc'[p] = "release"
        /\ UNCHANGED <<outcome, helmDone>>
    BY <1>0, <1>13 DEF RefuseRollback, ConfirmRollback
  <2>2. p \in helmDone /\ outcome[p] = "failed"
    BY <1>0, <2>1 DEF PastHelm, RollbackPlaces
  <2>3. QED
    BY <2>1, <2>2 DEF InstallBy, Forward
<1>14. CASE ExitAt(p, {"start", "acquire", "survey", "snapshot", "toHelm", "toApply", "toCr",
                       "rollout"})
  <2>1. /\ found'[p] = found[p] /\ UNCHANGED <<object, helmDone>> /\ Exit(p, "failed")
        /\ pc[p] \in {"start", "acquire", "survey", "snapshot", "toHelm", "toApply", "toCr",
                      "rollout"}
    BY <1>14 DEF ExitAt, cluster, contents, memory
  <2>2. outcome'[p] = "failed" /\ pc'[p] \in {"rollback", "release"}
        /\ (p \in helmDone => pc'[p] = "rollback")
    BY <1>0, <2>1 DEF Exit
  <2>3. CASE pc[p] = "toHelm"
    BY <1>6, <1>10, <2>1, <2>2, <2>3 DEF InstallBy, Forward
  <2>4. CASE pc[p] \in {"toApply", "toCr", "rollout"}
    BY <1>0, <2>2, <2>4 DEF InstallBy, Forward, PastHelm
  <2>5. QED
    BY <1>0, <2>1, <2>3, <2>4
<1>15. CASE Interrupt(p)
  <2>1. outcome'[p] = "interrupted" /\ UNCHANGED object
        /\ \/ pc'[p] = "ended"
           \/ /\ pc'[p] = "release" /\ found'[p] = found[p]
              /\ pc[p] \notin RollbackPlaces \cup {"release", "ended"}
    BY <1>0, <1>15 DEF Interrupt, cluster, contents, RollbackPlaces
  <2>2. CASE pc'[p] = "ended"
    BY <2>2 DEF InstallBy, Forward
  <2>3. CASE pc'[p] = "release" /\ found'[p] = found[p] /\ pc[p] \in Forward
    BY <1>6, <1>10, <2>1, <2>3 DEF InstallBy, Forward
  <2>4. QED
    BY <1>0, <2>1, <2>2, <2>3
<1>16. QED
  BY <1>2, <1>4, <1>5, <1>7, <1>8, <1>9, <1>11, <1>12, <1>13, <1>14, <1>15, InstallMoves
     DEF InstallStep

(* Another step leaves it as it is, but for what the world writes.          *)
LEMMA InstallKept ==
    ASSUME NEW p, InstallBy(p), Same(p),
           \A o \in Objects : object'[o] \in {object[o], "foreign"}
    PROVE  InstallBy(p)'
<1>1. \A versions : Beside(p, versions) => Beside(p, versions)'
  BY DEF Beside, Same
<1>2. QED
  BY <1>1 DEF InstallBy, Same

LEMMA InstalledStep ==
    ASSUME Base, Prepared, Installed, NEW q \in Ops, Step(q)
    PROVE  Installed'
<1>1. ASSUME NEW p \in Installs, Holding(p)', found'[p].ready PROVE InstallBy(p)'
  <2>1. CASE p = q
    BY <1>1, <2>1, InstallOwn
  <2>2. CASE p # q
    <3>1. p \in Ops /\ deletion = "none"
      BY <1>1, OwnerMoves DEF Ops, Holding
    <3>2. owner = p /\ UNCHANGED object /\ Same(p)
      BY <1>1, <2>2, <3>1, Undisturbed DEF Holding
    <3>3. InstallBy(p)
      BY <1>1, <3>1, <3>2 DEF Installed, Holding, Same
    <3>4. QED
      BY <3>2, <3>3, InstallKept
  <2>3. QED
    BY <2>1, <2>2
<1>2. QED
  BY <1>1 DEF Installed

-----------------------------------------------------------------------------
(* The rollback.                                                            *)

LEMMA RestoringMoves ==
    ASSUME Base, NEW p \in Installs, Step(p), pc'[p] \in {"restore", "confirm"}
    PROVE  UndoHelm(p) \/ RestoreNext(p)
<1> USE DEF Base, TypeOK, Go, memory
<1>0. p \in Ops
  BY DEF Ops
<1>1. CASE Acquire(p) \/ Release(p) \/ Interrupt(p)
  BY <1>0, <1>1 DEF Acquire, Release, Interrupt
<1>2. CASE InstallStep(p)
  <2>1. CASE HelmUpgrade(p)
    BY <1>0, <2>1 DEF HelmUpgrade, Exit
  <2>2. ASSUME ApplyNext(p, "apply", "toCr") \/ ApplyNext(p, "applyCr", "rollout") PROVE FALSE
    BY <1>0, <2>2 DEF ApplyNext, Exit
  <2>3. ASSUME NEW s, ExitAt(p, s) PROVE FALSE
    BY <1>0, <2>3 DEF ExitAt, Exit
  <2>4. QED
    BY <1>0, <1>2, <2>1, <2>2, <2>3 DEF InstallStep, Prerequisites, InstallSurvey, Snapshot,
       InstallDone, EnterBlock, StartRollback, RefuseRollback, ConfirmRollback
<1>3. QED
  BY <1>1, <1>2, InstallMoves

LEMMA KeepingMoves ==
    ASSUME Base, NEW p \in Installs, Step(p), pc'[p] = "release", outcome'[p] = "failed",
           p \in helmDone', p \notin preserved'
    PROVE  ConfirmRollback(p)
<1> USE DEF Base, TypeOK, Go, Exit, memory
<1>0. p \in Ops
  BY DEF Ops
<1>1. ASSUME Acquire(p) \/ Release(p) \/ Interrupt(p) PROVE FALSE
  BY <1>0, <1>1 DEF Acquire, Release, Interrupt, Forget
<1>2. CASE InstallStep(p)
  <2>1. CASE HelmUpgrade(p)
    BY <1>0, <2>1 DEF HelmUpgrade
  <2>2. ASSUME ApplyNext(p, "apply", "toCr") \/ ApplyNext(p, "applyCr", "rollout") PROVE FALSE
    BY <1>0, <2>2 DEF ApplyNext
  <2>3. ASSUME NEW s, ExitAt(p, s) PROVE FALSE
    BY <1>0, <2>3 DEF ExitAt
  <2>4. CASE InstallDone(p) \/ RefuseRollback(p)
    BY <1>0, <2>4 DEF InstallDone, RefuseRollback
  <2>5. QED
    BY <1>0, <1>2, <2>1, <2>2, <2>3, <2>4 DEF InstallStep, Prerequisites, InstallSurvey,
       Snapshot, EnterBlock, StartRollback, UndoHelm, RestoreNext
<1>3. QED
  BY <1>1, <1>2, InstallMoves

LEMMA RestoredOwn ==
    ASSUME Base, Restored, NEW p \in Installs, Step(p), Holding(p)'
    PROVE  RestoredBy(p)'
<1> USE DEF Base, TypeOK
<1>0. p \in Ops /\ deletion = "none" /\ found \in [Ops -> Surveys]
  BY OwnerMoves DEF Ops, Holding
<1>1. CASE UndoHelm(p)
  <2>1. pc'[p] = "restore" /\ todo'[p] = RestoreOrder /\ found'[p] = found[p]
    BY <1>0, <1>1 DEF UndoHelm, Go, Visit
  <2>2. Objects \subseteq ToVisit(p)'
    BY <2>1, Orders DEF ToVisit
  <2>3. p \notin failures' => release' = found[p].release
    BY <1>1 DEF UndoHelm, Count
  <2>4. QED
    BY <2>1, <2>2, <2>3 DEF RestoredBy
<1>2. CASE RestoreNext(p)
  <2> DEFINE o == Head(todo[p])
             was == found[p].object[o]
  <2>1. /\ pc[p] = "restore" /\ todo'[p] = Tail(todo[p]) /\ owner = p
        /\ pc'[p] = IF Tail(todo[p]) = <<>> THEN "confirm" ELSE "restore"
        /\ UNCHANGED <<release, found>>
    BY <1>0, <1>2 DEF RestoreNext, Go, Visit, Holding
  <2>2. /\ o \in Objects /\ ToVisit(p) \subseteq {o} \cup ToVisit(p)'
        /\ Tail(todo[p]) = <<>> => ToVisit(p)' = {}
    BY <1>0, <2>1, Walk DEF Placed, Loops, ToVisit
  <2>3. CASE p \in failures'
    BY <2>1, <2>3 DEF RestoredBy
  <2>4. CASE p \notin failures'
    <3>1. /\ p \notin failures
          /\ \E v \in Merged(object[o], was) : object' = [object EXCEPT ![o] = v]
      BY <1>2, <2>4 DEF RestoreNext, Count
    <3>2. /\ release \in {found[p].release, "foreign"}
          /\ \A x \in Objects \ ToVisit(p) : AsRecorded(object[x], found[p].object[x])
      BY <1>0, <2>1, <3>1 DEF Restored, RestoredBy, Holding
    <3>3. was \in Versions
      BY <1>0, <2>2 DEF Surveys
    <3> HIDE DEF o, was
    <3>4. PICK v \in Merged(object[o], was) : object' = [object EXCEPT ![o] = v]
      BY <3>1
    <3>5. AsRecorded(v, was)
      BY <3>3, <3>4, MergedTyped
    <3>6. object'[o] = v /\ \A x \in Objects \ {o} : object'[x] = object[x]
      BY <2>2, <3>4
    <3>7. \A x \in Objects \ ToVisit(p)' : AsRecorded(object'[x], found[p].object[x])
      BY <2>2, <3>2, <3>5, <3>6 DEF was
    <3>8. QED
      BY <2>1, <2>2, <3>2, <3>7 DEF RestoredBy, AsFound
  <2>5. QED
    BY <2>3, <2>4
<1>3. CASE pc'[p] \in {"restore", "confirm"}
  BY <1>1, <1>2, <1>3, RestoringMoves
<1>4. CASE pc'[p] \notin {"restore", "confirm"}
  <2>1. ASSUME pc'[p] = "release", outcome'[p] = "failed", p \in helmDone', p \notin preserved'
        PROVE  AsFound(p)'
    <3>1. ConfirmRollback(p)
      BY <2>1, KeepingMoves
    <3>2. /\ pc[p] = "confirm" /\ owner = p /\ p \notin failures
          /\ UNCHANGED <<release, object, found>>
      BY <2>1, <3>1 DEF ConfirmRollback, Holding, cluster, contents
    <3>3. AsFound(p)
      BY <1>0, <3>2 DEF Restored, RestoredBy, Holding
    <3>4. QED
      BY <3>2, <3>3 DEF AsFound
  <2>2. QED
    BY <1>4, <2>1 DEF RestoredBy
<1>5. QED
  BY <1>3, <1>4

LEMMA RestoredKept ==
    ASSUME NEW p, RestoredBy(p), Same(p), release' \in {release, "foreign"},
           \A o \in Objects : object'[o] \in {object[o], "foreign"}
    PROVE  RestoredBy(p)'
<1>1. \A o \in Objects :
          AsRecorded(object[o], found[p].object[o]) => AsRecorded(object'[o], found[p].object[o])
  BY DEF AsRecorded
<1>2. ToVisit(p)' = ToVisit(p) /\ found'[p] = found[p]
  BY DEF ToVisit, Same
<1>3. AsFound(p) => AsFound(p)'
  BY <1>1, <1>2 DEF AsFound
<1>4. QED
  BY <1>1, <1>2, <1>3 DEF RestoredBy, Same

LEMMA RestoredStep ==
    ASSUME Base, Restored, NEW q \in Ops, Step(q)
    PROVE  Restored'
<1>1. ASSUME NEW p \in Installs, Holding(p)' PROVE RestoredBy(p)'
  <2>1. CASE p = q
    BY <1>1, <2>1, RestoredOwn
  <2>2. CASE p # q
    <3>1. p \in Ops /\ deletion = "none"
      BY <1>1, OwnerMoves DEF Ops, Holding
    <3>2. owner = p /\ UNCHANGED <<release, object>> /\ Same(p)
      BY <1>1, <2>2, <3>1, Undisturbed DEF Holding
    <3>3. RestoredBy(p)
      BY <3>1, <3>2 DEF Restored, Holding
    <3>4. QED
      BY <3>2, <3>3, RestoredKept
  <2>3. QED
    BY <2>1, <2>2
<1>2. QED
  BY <1>1 DEF Restored

-----------------------------------------------------------------------------
(* The uninstall.                                                           *)

Removing == {"toDeleteCr", "deleteCr", "toDeleteHelm", "deleteHelm", "toDeleteRbac",
             "deleteRbac", "toPurge", "deleteDemo", "deleteSecret", "residual"}

LEMMA RemovingMoves ==
    ASSUME Base, NEW p \in Ops, Step(p), pc'[p] \in Removing
    PROVE  UninstallStep(p)
<1> USE DEF Base, TypeOK, Removing, Go
<1>1. CASE Acquire(p) \/ Release(p) \/ Interrupt(p)
  BY <1>1 DEF Acquire, Release, Interrupt
<1>2. CASE InstallStep(p)
  <2>1. CASE HelmUpgrade(p)
    BY <2>1 DEF HelmUpgrade, Exit
  <2>2. ASSUME ApplyNext(p, "apply", "toCr") \/ ApplyNext(p, "applyCr", "rollout") PROVE FALSE
    BY <2>2 DEF ApplyNext, Exit
  <2>3. ASSUME NEW s, ExitAt(p, s) PROVE FALSE
    BY <2>3 DEF ExitAt, Exit
  <2>4. QED
    BY <1>2, <2>1, <2>2, <2>3 DEF InstallStep, Prerequisites, InstallSurvey, Snapshot,
       InstallDone, EnterBlock, StartRollback, RefuseRollback, UndoHelm, RestoreNext,
       ConfirmRollback
<1>3. QED
  BY <1>1, <1>2 DEF Step

(* A deletion loop goes on, ends, or exits.                                 *)
LEMMA DeleteMoves ==
    ASSUME Base, NEW p \in Ops, NEW block \in {"deleteCr", "deleteRbac"}, NEW next,
           DeleteNext(p, block, next), pc'[p] \in Removing
    PROVE  /\ pc[p] = block /\ UNCHANGED <<release, owner, found>>
           /\ pc'[p] \in {block, next}
           /\ pc'[p] # block => ToVisit(p)' = {}
           /\ \A x \in Objects : object'[x] = "absent" \/ object'[x] = object[x]
           /\ \A x \in ToVisit(p) \ ToVisit(p)' : x \in Objects => object'[x] = "absent"
<1> USE DEF Base, TypeOK, Removing, Go
<1> DEFINE o == Head(todo[p])
<1>1. /\ o \in Objects /\ todo[p] \in Seq(Objects) /\ pc[p] = block
      /\ ToVisit(p) \subseteq {o} \cup Members(Tail(todo[p]))
      /\ Tail(todo[p]) = <<>> => Members(Tail(todo[p])) = {}
  BY Walk DEF Placed, DeleteNext, Loops, ToVisit
<1>2. /\ object' = [object EXCEPT ![o] = "absent"]
      /\ todo' = [todo EXCEPT ![p] = Tail(todo[p])]
      /\ pc' = [pc EXCEPT ![p] = IF Tail(todo[p]) = <<>> THEN next ELSE block]
      /\ UNCHANGED <<release, owner, found>>
  <2>1. ASSUME Exit(p, "failed") PROVE FALSE
    BY <2>1 DEF Exit
  <2>2. QED
    BY <2>1 DEF DeleteNext, Visit, memory
<1> HIDE DEF o
<1>3. ToVisit(p)' = Members(Tail(todo[p]))
  BY <1>2 DEF ToVisit
<1>4. QED
  BY <1>1, <1>2, <1>3

LEMMA RemovedOwn ==
    ASSUME Base, Removed, NEW p \in Ops, Step(p), owner' = p
    PROVE  RemovedBy(p)'
<1> SUFFICES ASSUME pc'[p] \in Removing PROVE RemovedBy(p)'
  BY DEF RemovedBy, Removing
<1>1. UninstallStep(p) /\ p # None
  BY RemovingMoves, LifecycleAssumption
<1>2. owner = p
  <2>1. ASSUME Acquire(p) PROVE FALSE
    BY <2>1 DEF Acquire, Go, Removing, Base, TypeOK
  <2>2. QED
    BY <2>1, OwnerMoves
<1>3. /\ RemovedBy(p) /\ namespace /\ found[p].namespace
      /\ pc \in [Ops -> Places] /\ todo \in [Ops -> Seq(Objects)]
  BY <1>1, <1>2 DEF Removed, Base, TypeOK, LockKept, LockGone
<1>4. ASSUME NEW s, ExitAt(p, s) PROVE FALSE
  BY <1>3, <1>4 DEF ExitAt, Exit, Go, Removing
<1>5. ASSUME FindNamespace(p) PROVE FALSE
  BY <1>3, <1>5 DEF FindNamespace, Go, Removing
<1>6. CASE UninstallSurvey(p)
  <2>1. found'[p].release = release /\ pc'[p] = "toDeleteCr" /\ UNCHANGED <<release, object>>
    BY <1>3, <1>6, SurveyChecks DEF Base, UninstallSurvey, Go, cluster, contents
  <2>2. QED
    BY <2>1 DEF RemovedBy, NoRelease
<1>7. CASE EnterBlock(p, "toDeleteCr", "deleteCr", <<"k8sgpt">>)
  <2>1. /\ pc[p] = "toDeleteCr" /\ pc'[p] = "deleteCr" /\ UNCHANGED <<release, found>>
        /\ todo'[p] = <<"k8sgpt">>
    BY <1>3, <1>7 DEF EnterBlock, Go, Visit, cluster, contents, memory
  <2>2. "k8sgpt" \in ToVisit(p)'
    BY <2>1, Orders DEF ToVisit
  <2>3. QED
    BY <1>3, <2>1, <2>2 DEF RemovedBy, NoRelease
<1>8. CASE DeleteNext(p, "deleteCr", "toDeleteHelm")
  <2>1. /\ pc[p] = "deleteCr" /\ UNCHANGED <<release, owner, found>>
        /\ pc'[p] \in {"deleteCr", "toDeleteHelm"}
        /\ pc'[p] # "deleteCr" => ToVisit(p)' = {}
        /\ \A x \in Objects : object'[x] = "absent" \/ object'[x] = object[x]
        /\ \A x \in ToVisit(p) \ ToVisit(p)' : x \in Objects => object'[x] = "absent"
    BY <1>8, DeleteMoves
  <2>2. "k8sgpt" \in Objects
    BY DEF Objects
  <2>3. ~Left("k8sgpt")' \/ "k8sgpt" \in ToVisit(p)'
    BY <1>3, <2>1, <2>2 DEF RemovedBy, Left
  <2>4. QED
    BY <1>3, <2>1, <2>3 DEF RemovedBy, NoRelease
<1>9. CASE SkipHelm(p)
  BY <1>3, <1>9 DEF SkipHelm, Go, RemovedBy, NoRelease, Left, cluster, contents, memory
<1>10. CASE EnterBlock(p, "toDeleteHelm", "deleteHelm", <<>>)
  BY <1>3, <1>10 DEF EnterBlock, Go, RemovedBy, NoRelease, Left, cluster, contents, memory
<1>11. CASE HelmUninstall(p)
  <2>1. /\ pc[p] = "deleteHelm" /\ pc'[p] = "toDeleteRbac" /\ release' = "absent"
        /\ HelmLeaves({"absent"})
    <3>1. ASSUME Exit(p, "failed") PROVE FALSE
      BY <1>3, <3>1 DEF Exit, Go, Removing
    <3>2. QED
      BY <1>3, <1>11, <3>1 DEF HelmUninstall, Go
  <2>2. object'["k8sgpt"] = object["k8sgpt"]
    <3>1. {"absent"} \subseteq {"kept"} \cup Versions
      BY DEF Versions
    <3>2. "k8sgpt" \in Objects \ ChartObjects
      BY DEF Objects, ChartObjects
    <3>3. QED
      BY <2>1, <3>1, <3>2, HelmTyped DEF Base
  <2>3. QED
    BY <1>3, <2>1, <2>2 DEF RemovedBy, NoRelease, Left
<1>12. CASE EnterBlock(p, "toDeleteRbac", "deleteRbac", RbacOrder(p))
  <2>1. /\ pc[p] = "toDeleteRbac" /\ pc'[p] = "deleteRbac" /\ UNCHANGED <<release, object>>
        /\ todo'[p] = RbacOrder(p)
    BY <1>3, <1>12 DEF EnterBlock, Go, Visit, cluster, contents
  <2>2. Objects \ {"k8sgpt"} \subseteq ToVisit(p)'
    BY <1>3, <2>1, RbacOrders DEF ToVisit
  <2>3. QED
    BY <1>3, <2>1, <2>2 DEF RemovedBy, NoRelease, Left
<1>13. ASSUME EnterRbacUnlocked(p) PROVE FALSE
  BY <1>3, <1>13 DEF EnterRbacUnlocked
<1>14. CASE DeleteNext(p, "deleteRbac", "toPurge")
  <2>1. /\ pc[p] = "deleteRbac" /\ UNCHANGED <<release, owner, found>>
        /\ pc'[p] \in {"deleteRbac", "toPurge"}
        /\ pc'[p] # "deleteRbac" => ToVisit(p)' = {}
        /\ \A x \in Objects : object'[x] = "absent" \/ object'[x] = object[x]
        /\ \A x \in ToVisit(p) \ ToVisit(p)' : x \in Objects => object'[x] = "absent"
    BY <1>14, DeleteMoves
  <2>2. \A x \in Objects \ ToVisit(p)' : ~Left(x)'
    BY <1>3, <2>1 DEF RemovedBy, Left
  <2>3. QED
    BY <1>3, <2>1, <2>2 DEF RemovedBy, NoRelease
<1>15. CASE \/ EnterDemo(p) \/ EnterBlock(p, "toPurge", "deleteSecret", <<>>) \/ SkipPurge(p)
  <2>1. /\ pc[p] = "toPurge" /\ pc'[p] \in {"deleteDemo", "deleteSecret", "residual"}
        /\ UNCHANGED <<release, object>>
    BY <1>3, <1>15 DEF EnterDemo, EnterBlock, SkipPurge, Go, cluster, contents
  <2>2. QED
    BY <1>3, <2>1 DEF RemovedBy, NoRelease, Left
<1>16. CASE DeleteDemo(p) \/ DeleteSecret(p)
  <2>1. /\ pc[p] \in {"deleteDemo", "deleteSecret"} /\ pc'[p] = "toPurge"
        /\ UNCHANGED <<release, object>>
    <3>1. ASSUME Exit(p, "failed") PROVE FALSE
      BY <1>3, <3>1 DEF Exit, Go, Removing
    <3>2. QED
      BY <1>3, <1>16, <3>1 DEF DeleteDemo, DeleteSecret, Go
  <2>2. QED
    BY <1>3, <2>1 DEF RemovedBy, NoRelease, Left
<1>17. ASSUME ReleaseForPurge(p) PROVE FALSE
  BY <1>1, <1>17 DEF ReleaseForPurge
<1>18. ASSUME DeleteNamespace(p) PROVE FALSE
  BY <1>3, <1>18 DEF DeleteNamespace, Exit, Go, Removing
<1>19. ASSUME AwaitNamespace(p) PROVE FALSE
  BY <1>3, <1>19 DEF AwaitNamespace
<1>20. ASSUME UninstallDone(p) PROVE FALSE
  BY <1>3, <1>20 DEF UninstallDone, Exit, Go, Removing
<1>21. QED
  BY <1>1, <1>4, <1>5, <1>6, <1>7, <1>8, <1>9, <1>10, <1>11, <1>12, <1>13, <1>14, <1>15,
     <1>16, <1>17, <1>18, <1>19, <1>20 DEF UninstallStep

(* What the others do brings nothing of ours back.                          *)
LEMMA RemovedKept ==
    ASSUME NEW p, RemovedBy(p), Same(p), release' \in {release, "absent", "foreign"},
           \A o \in Objects : object'[o] \in {object[o], "absent", "foreign"}
    PROVE  RemovedBy(p)'
<1>1. ToVisit(p)' = ToVisit(p) /\ (NoRelease => NoRelease') /\ "k8sgpt" \in Objects
  BY DEF ToVisit, Same, NoRelease, Objects
<1>2. \A o \in Objects : ~Left(o) => ~Left(o)'
  BY DEF Left
<1>3. QED
  BY <1>1, <1>2 DEF RemovedBy, Same

LEMMA RemovedStep ==
    ASSUME Base, Removed, NEW q \in Ops, Step(q)
    PROVE  Removed'
<1>1. ASSUME NEW p \in Ops, owner' = p PROVE RemovedBy(p)'
  <2>1. CASE p = q
    BY <1>1, <2>1, RemovedOwn
  <2>2. CASE p # q
    <3>1. owner = p /\ UNCHANGED <<release, object>> /\ Same(p)
      BY <1>1, <2>2, Undisturbed
    <3>2. RemovedBy(p)
      BY <3>1 DEF Removed
    <3>3. QED
      BY <3>1, <3>2, RemovedKept
  <2>3. QED
    BY <2>1, <2>2
<1>2. QED
  BY <1>1 DEF Removed

-----------------------------------------------------------------------------
(* The invariant.                                                           *)

LEMMA LifecycleInit == Init => LifecycleInv
<1> SUFFICES ASSUME Init PROVE LifecycleInv
  OBVIOUS
<1>1. object \in [Objects -> Versions] /\ release \in ReleaseStates
  <2>1. object \in [Objects -> {"absent", "old", "foreign"}]
    BY LifecycleAssumption DEF Init
  <2>2. QED
    BY <2>1 DEF Init, Versions, ReleaseStates
<1>2. /\ NothingFound \in Surveys /\ NothingFound.namespace /\ NothingFound.ready = FALSE
      /\ NothingFound.release = "absent"
  BY DEF NothingFound, Surveys, ReleaseStates, Versions
<1>3. /\ pc \in [Ops -> Places] /\ \A p \in Ops : pc[p] = "start"
      /\ todo \in [Ops -> Seq(Objects)] /\ found \in [Ops -> Surveys]
      /\ \A p \in Ops : found[p] = NothingFound
  BY <1>2 DEF Init, Places
<1>4. purge \in [Uninstalls -> SUBSET {"demo", "secret", "namespace"}]
  BY LifecycleAssumption DEF Init
<1>5. /\ outcome \in [Ops -> {"none", "done", "failed", "interrupted"}]
      /\ namespace \in BOOLEAN /\ secret \in BOOLEAN /\ demo \in BOOLEAN
      /\ deletion = "none"
      /\ owner = None /\ held = {} /\ helmDone = {} /\ failures = {} /\ preserved = {}
  BY DEF Init
<1>6. /\ \A o \in Objects \ ClusterScoped : Present(o) => namespace
      /\ (secret \/ release # "absent") => namespace
  BY DEF Init
<1>7. TypeOK
  BY <1>1, <1>3, <1>4, <1>5, <1>6 DEF TypeOK
<1>8. Placed /\ LockKept
  BY <1>2, <1>3, <1>5
     DEF Placed, LockKept, Working, Loops, RollbackPlaces, InstallBlocks, UninstallBlocks
<1>9. Prepared
  BY <1>2, <1>3, <1>5
     DEF Prepared, Advanced, Unsurveyed, Unrecorded, PastHelm, RollbackPlaces
<1>10. Installed /\ Restored /\ Removed
  BY <1>5, LifecycleAssumption DEF Installed, Restored, Removed, Holding, Ops
<1>11. QED
  BY <1>7, <1>8, <1>9, <1>10 DEF LifecycleInv, Base

LEMMA LifecycleWorld ==
    ASSUME LifecycleInv, Intrude \/ Collect
    PROVE  LifecycleInv'
<1>1. Base /\ TypeOK /\ \A p \in Ops : Same(p)
  BY WorldMoves DEF LifecycleInv, Base, Same, memory
<1>2. Base'
  BY <1>1, WorldBase
<1>3. Prepared'
  BY <1>1 DEF LifecycleInv, Prepared, Advanced, Same
<1>4. ASSUME NEW p \in Ops, Holding(p)'
      PROVE  /\ Holding(p) /\ release' \in {release, "foreign"}
             /\ \A o \in Objects : object'[o] \in {object[o], "foreign"}
  BY <1>1, <1>4, WorldMoves, LifecycleAssumption DEF Holding
<1>5. Installed' /\ Restored'
  BY <1>1, <1>4, InstallKept, RestoredKept DEF LifecycleInv, Installed, Restored, Same, Ops
<1>6. ASSUME NEW p \in Ops, owner' = p
      PROVE  /\ owner = p /\ release' \in {release, "absent", "foreign"}
             /\ \A o \in Objects : object'[o] \in {object[o], "absent", "foreign"}
  BY <1>1, <1>6, WorldMoves, LifecycleAssumption
<1>7. Removed'
  BY <1>1, <1>6, RemovedKept DEF LifecycleInv, Removed
<1>8. QED
  BY <1>2, <1>3, <1>5, <1>7 DEF LifecycleInv

LEMMA LifecycleStep == LifecycleInv /\ [Next]_vars => LifecycleInv'
<1> SUFFICES ASSUME LifecycleInv, [Next]_vars PROVE LifecycleInv'
  OBVIOUS
<1>1. Base'
  BY BaseStep DEF LifecycleInv
<1>2. ASSUME NEW q \in Ops, Step(q) PROVE LifecycleInv'
  BY <1>1, <1>2, PreparedStep, InstalledStep, RestoredStep, RemovedStep DEF LifecycleInv
<1>3. CASE UNCHANGED vars
  <2>1. /\ UNCHANGED <<release, object, deletion, owner>> /\ \A p \in Ops : Same(p)
    BY <1>3 DEF vars, cluster, contents, memory, Same
  <2>2. Prepared'
    BY <2>1 DEF LifecycleInv, Prepared, Advanced, Same
  <2>3. Installed' /\ Restored'
    BY <2>1, InstallKept, RestoredKept DEF LifecycleInv, Installed, Restored, Holding, Same, Ops
  <2>4. Removed'
    BY <2>1, RemovedKept DEF LifecycleInv, Removed
  <2>5. QED
    BY <1>1, <2>2, <2>3, <2>4 DEF LifecycleInv
<1>4. QED
  BY <1>2, <1>3, LifecycleWorld, StepOrStutter

LEMMA InvariantLifecycle == Spec => []LifecycleInv
BY LifecycleInit, LifecycleStep, PTL DEF Spec

-----------------------------------------------------------------------------
(* Whatever fails and whatever is interrupted, every variable keeps its
   type, nothing namespaced is left without the Namespace, and only an
   operation that still has LC_LOCK_HELD owns the lock.                     *)
THEOREM TypeCorrect == Spec => []TypeOK
<1>1. LifecycleInv => TypeOK
  BY DEF LifecycleInv, Base
<1>2. QED
  BY <1>1, InvariantLifecycle, PTL

(* What an install leaves that gives the lock back and removes its snapshot
   without having succeeded: the release and every object as recorded, if its
   Helm step had succeeded and what followed failed; what is outside the
   chart as recorded, if it failed before; and what is outside the chart as
   recorded or applied, if it was interrupted (rollback_failed_install,
   restore_snapshot and on_exit of install.sh).                             *)
THEOREM RollbackIsHonest == Spec => []RollbackHonest
<1>1. ASSUME LifecycleInv, NEW p \in Installs, NEW result, GivesUp(p, result)
      PROVE  InstallBy(p) /\ RestoredBy(p) /\ pc[p] = "release" /\ outcome[p] = result
  BY <1>1 DEF LifecycleInv, Installed, Restored, Holding, GivesUp
<1>2. ASSUME LifecycleInv PROVE RollbackHonest
  BY <1>1, <1>2 DEF RollbackHonest, InstallBy, RestoredBy, AsFound, Beside, GivesUp
<1>3. QED
  BY <1>2, InvariantLifecycle, PTL

(* The custom resource is gone before the operator that finalises it, and
   an uninstall that still has the lock finds no residue (uninstall.sh).    *)
THEOREM UninstallIsHonest == Spec => []UninstallHonest
<1>1. ASSUME LifecycleInv PROVE UninstallHonest
  <2>1. ASSUME NEW p \in Uninstalls, pc[p] = "deleteHelm", ~LockGone PROVE ~Left("k8sgpt")
    <3>1. p \in Working /\ p \in Ops
      BY <2>1 DEF Working, Ops, UninstallBlocks
    <3>2. owner = p
      BY <1>1, <2>1, <3>1 DEF LifecycleInv, Base, LockKept
    <3>3. QED
      BY <1>1, <2>1, <3>1, <3>2 DEF LifecycleInv, Removed, RemovedBy
  <2>2. ASSUME NEW p \in Uninstalls, pc[p] = "residual", owner = p
        PROVE  release \in {"absent", "foreign"} /\ \A o \in Objects : ~Left(o)
    BY <1>1, <2>2 DEF LifecycleInv, Removed, RemovedBy, NoRelease, Ops
  <2>3. QED
    BY <2>1, <2>2 DEF UninstallHonest, CrGoneBeforeOperator, NoResidue
<1>2. QED
  BY <1>1, InvariantLifecycle, PTL

(* A script changes the release or a cluster-wide object only after its own
   checks found none of them to be another system's, and changes anything at
   all only with the lock, or after the Lease is gone with its Namespace (the
   identity checks and lc_assert_lock_held).                                *)
THEOREM OnlyCheckedUnderLock == Spec => CheckedUnderLock
<1>1. ASSUME LifecycleInv, [Next]_vars, NEW p \in Ops, Moves(p), contents' # contents
      PROVE  p \in Working
  <2>1. CASE UNCHANGED vars \/ Intrude \/ Collect
    BY <1>1, <2>1, WorldMoves DEF LifecycleInv, Base, Moves, vars
  <2>2. ASSUME NEW q \in Ops, Step(q) PROVE p \in Working
    <3>1. p = q
      BY <1>1, <2>2, OthersSame DEF LifecycleInv, Base, Same, Moves
    <3>2. QED
      BY <1>1, <2>2, <3>1, Mutators
  <2>3. QED
    BY <1>1, <2>1, <2>2, StepOrStutter
<1>2. ASSUME LifecycleInv, [Next]_vars
      PROVE  [\A p \in Ops :
                 (Moves(p) /\ (release' # release \/ \E o \in ClusterScoped : object'[o] # object[o]))
                     => found[p].trusted]_vars
  <2>1. \A p \in Working : found[p].trusted
    BY <1>2 DEF LifecycleInv, Prepared, Advanced, Working, Unsurveyed, InstallBlocks,
                UninstallBlocks
  <2>2. (release' # release \/ \E o \in ClusterScoped : object'[o] # object[o])
           => contents' # contents
    BY DEF contents
  <2>3. QED
    BY <1>1, <1>2, <2>1, <2>2
<1>3. ASSUME LifecycleInv, [Next]_vars
      PROVE  [\A p \in Ops :
                 (Moves(p) /\ contents' # contents) => owner = p \/ LockGone]_vars
  BY <1>1, <1>3 DEF LifecycleInv, Base, LockKept
<1>4. QED
  BY <1>2, <1>3, InvariantLifecycle, PTL
     DEF Spec, CheckedUnderLock, OnlyAfterCheck, LockedMutation
=============================================================================
