----------------------- MODULE PolicyAuthorizerProofs -----------------------
(***************************************************************************)
(* For every policy and every request: the walk of Authorize decides what  *)
(* the policy means.                                                       *)
(***************************************************************************)
EXTENDS PolicyAuthorizer, TLAPS

(* The three scope comparisons of the code say together what a grant
   extends to.                                                              *)
LEMMA ScopeMatchesIsExtent ==
    ASSUME NEW grant \in Scopes, NEW requested \in Scopes,
           ValidScope(requested)
    PROVE  ScopeMatches(grant, requested) <=> requested \in Extent(grant)
  <1>1. requested.cluster \in Values
    BY DEF ValidScope
  <1>2. requested = [cluster |-> requested.cluster, namespace |-> requested.namespace]
    BY DEF Scopes
  <1>3. requested \in Extent(grant) <=>
          /\ requested.cluster \in (IF grant.cluster = Any THEN Values ELSE {grant.cluster})
          /\ requested.namespace \in (CASE grant.namespace = Absent -> {Absent}
                                        [] grant.namespace = Any -> Values
                                        [] OTHER -> {grant.namespace})
    BY <1>2 DEF Extent
  <1>4. requested.namespace \in Values \cup {Absent}
    BY DEF ValidScope
  <1>5. Any \in Values /\ Absent \notin Values
    BY PolicyAssumption DEF Values
  <1> QED
    BY <1>1, <1>3, <1>4, <1>5 DEF ScopeMatches

(* A rule applies to a request in the loop iff it speaks about it.          *)
LEMMA AppliesIsSpeaksAbout ==
    ASSUME NEW rule \in Rules, NEW req \in DecisionRequests,
           ValidScope(req.scope)
    PROVE  Applies(rule, req) <=> SpeaksAbout(rule, req)
  <1>1. req.scope \in Scopes /\ rule.scopes \subseteq Scopes
    BY DEF DecisionRequests, Rules
  <1>2. \A grant \in rule.scopes :
          ScopeMatches(grant, req.scope) <=> req.scope \in Extent(grant)
    BY <1>1, ScopeMatchesIsExtent
  <1>3. (\E grant \in rule.scopes : ScopeMatches(grant, req.scope))
          <=> req.scope \in UNION {Extent(grant) : grant \in rule.scopes}
    BY <1>2
  <1>4. SelectorMatches(rule, req) <=>
          req.subject \in rule.subjects \/ \E g \in req.groups : g \in rule.groups
    BY DEF SelectorMatches
  <1> QED
    BY <1>3, <1>4 DEF Applies, SpeaksAbout

(* What the loop knows of the rules before index: none of them was a deny
   that applies, and `allowed` tells whether one was an allow that does.    *)
Walked ==
    stage = "decide" =>
        /\ decision = "none"
        /\ \A i \in DOMAIN policy :
              i < index => ~(policy[i].effect = "deny" /\ Applies(policy[i], request))
        /\ allowed <=> \E i \in DOMAIN policy :
              i < index /\ policy[i].effect = "allow" /\ Applies(policy[i], request)

Loading == stage = "load" => index = 1 /\ allowed = FALSE /\ decision = "none"

IInv == TypeOK /\ Loading /\ Walked /\ DecidesByMeaning

LEMMA InitEstablishes == Init => IInv
  <1> SUFFICES ASSUME Init PROVE IInv
    OBVIOUS
  <1>1. policy \in Seq(Rules) /\ request \in DecisionRequests
    BY PolicyAssumption DEF Init
  <1>2. Len(policy) \in Nat
    BY <1>1
  <1>3. index \in 1 .. Len(policy) + 1
    BY <1>2 DEF Init
  <1>4. TypeOK
    BY <1>1, <1>3 DEF Init, TypeOK
  <1> QED
    BY <1>4 DEF Init, IInv, Loading, Walked, DecidesByMeaning

LEMMA StepPreserves == IInv /\ [Next]_vars => IInv'
  <1> SUFFICES ASSUME IInv, [Next]_vars PROVE IInv'
    OBVIOUS
  <1> USE DEF IInv
  <1>1. /\ policy \in Seq(Rules) /\ request \in DecisionRequests
        /\ Len(policy) \in Nat /\ DOMAIN policy = 1 .. Len(policy)
        /\ \A i \in DOMAIN policy : policy[i] \in Rules
    BY DEF TypeOK
  <1>2. ASSUME ValidRequest(request), NEW i \in DOMAIN policy
        PROVE  Applies(policy[i], request) <=> SpeaksAbout(policy[i], request)
    BY <1>1, <1>2, AppliesIsSpeaksAbout DEF ValidRequest
  <1>3. CASE Load
    <2>1. TypeOK'
      BY <1>3 DEF Load, TypeOK
    <2>2. index' = 1 /\ allowed' = FALSE
      BY <1>3 DEF Load, Loading
    <2>3. (Loading /\ Walked)'
      BY <1>1, <1>3, <2>2 DEF Load, Loading, Walked
    <2>4. DecidesByMeaning'
      BY <1>3 DEF Load, DecidesByMeaning
    <2> QED
      BY <2>1, <2>3, <2>4
  <1>4. CASE RefuseRequest
    BY <1>4 DEF RefuseRequest, TypeOK, Loading, Walked, DecidesByMeaning
  <1>5. ASSUME Walking
        PROVE  index \in DOMAIN policy /\ index + 1 \in 1 .. Len(policy) + 1
    BY <1>1, <1>5 DEF Walking, TypeOK
  <1>6. CASE SkipRule
    <2>1. Walking /\ index \in DOMAIN policy /\ index + 1 \in 1 .. Len(policy) + 1
      BY <1>5, <1>6 DEF SkipRule
    <2>2. TypeOK'
      BY <1>6, <2>1 DEF SkipRule, TypeOK
    <2>3. \A i \in DOMAIN policy : i < index + 1 <=> (i < index \/ i = index)
      BY <1>1, <2>1
    <2>4. Walked'
      BY <1>6, <2>1, <2>3 DEF SkipRule, Walking, Walked
    <2> QED
      BY <1>6, <2>1, <2>2, <2>4 DEF SkipRule, Walking, Loading, DecidesByMeaning, Permitted, Says
  <1>7. CASE TakeAllow
    <2>1. Walking /\ index \in DOMAIN policy /\ index + 1 \in 1 .. Len(policy) + 1
      BY <1>5, <1>7 DEF TakeAllow
    <2>2. TypeOK'
      BY <1>7, <2>1 DEF TakeAllow, TypeOK
    <2>3. \A i \in DOMAIN policy : i < index + 1 <=> (i < index \/ i = index)
      BY <1>1, <2>1
    <2>4. index < index + 1
      BY <2>1, <1>1
    <2>5. Walked'
      BY <1>7, <2>1, <2>3, <2>4 DEF TakeAllow, Walking, Walked
    <2> QED
      BY <1>7, <2>1, <2>2, <2>5 DEF TakeAllow, Walking, Loading, DecidesByMeaning, Permitted, Says
  <1>8. CASE TakeDeny
    <2>1. Walking /\ index \in DOMAIN policy
      BY <1>5, <1>8 DEF TakeDeny
    <2>2. SpeaksAbout(policy[index], request)
      BY <1>2, <1>8, <2>1 DEF TakeDeny, Walking
    <2>3. ValidPolicy(policy)
      BY <1>8 DEF TakeDeny, Walking, TypeOK
    <2>4. ~Permitted
      BY <1>8, <2>1, <2>2 DEF TakeDeny, Permitted, Says
    <2> QED
      BY <1>8, <2>3, <2>4
      DEF TakeDeny, Walking, TypeOK, Loading, Walked, DecidesByMeaning, Permitted, Says
  <1>9. CASE Conclude
    <2>1. \A i \in DOMAIN policy : i < index
      BY <1>1, <1>9 DEF Conclude, TypeOK
    <2>2. ValidRequest(request) /\ ValidPolicy(policy)
      BY <1>9 DEF Conclude, TypeOK
    <2>3. allowed <=> Says("allow")
      BY <1>2, <1>9, <2>1, <2>2 DEF Conclude, Walked, Says
    <2>4. ~Says("deny")
      BY <1>2, <1>9, <2>1, <2>2 DEF Conclude, Walked, Says
    <2>5. (decision' = "allow" => Permitted) /\ (decision' = "deny" => ~Permitted)
      BY <1>9, <2>3, <2>4 DEF Conclude, Permitted, TypeOK
    <2>6. DecidesByMeaning'
      BY <1>9, <2>2, <2>5 DEF Conclude, DecidesByMeaning, Permitted, Says
    <2> QED
      BY <1>9, <2>6 DEF Conclude, TypeOK, Loading, Walked
  <1>10. CASE UNCHANGED vars
    BY <1>10 DEF vars, TypeOK, Loading, Walked, DecidesByMeaning, Permitted, Says
  <1> QED
    BY <1>3, <1>4, <1>6, <1>7, <1>8, <1>9, <1>10 DEF Next

LEMMA Inductive == Spec => []IInv
  BY InitEstablishes, StepPreserves, PTL DEF Spec

(* Type correctness of the authorizer, for every set of policies.           *)
THEOREM TypeCorrect == Spec => []TypeOK
  BY Inductive, PTL DEF IInv

(* Deny precedence, deny by default and explicit wildcards: for every policy
   and every request the walk of Authorize decides what the policy means.   *)
THEOREM WalkDecidesByMeaning == Spec => []DecidesByMeaning
  BY Inductive, PTL DEF IInv
=============================================================================
