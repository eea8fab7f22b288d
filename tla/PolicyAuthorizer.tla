-------------------------- MODULE PolicyAuthorizer --------------------------
(***************************************************************************)
(* The policy authorizer (internal/authorization/policy.go): a policy is   *)
(* validated once, and each request is then decided by one walk through    *)
(* its rules that ends at the first matching deny.                         *)
(*                                                                         *)
(* The slices of a rule are sets here, since the code only asks whether    *)
(* some element matches; the rules stay a sequence, since the walk has an  *)
(* early exit.                                                             *)
(***************************************************************************)
EXTENDS Naturals, Sequences

CONSTANTS Subjects, Groups, Capabilities,
          Known,        \* the capabilities of knownCapabilities
          Names,        \* scope values, clusters and namespaces alike
          Any,          \* "*", in rules and as a value that requests may send
          Absent,       \* the empty string
          Malformed,    \* a value that validateScopeValue refuses
          Policies,     \* the policies to load, valid or not
          Requests      \* the requests to decide

Values == Names \cup {Any}

Scopes == [cluster : Values \cup {Absent, Malformed},
           namespace : Values \cup {Absent, Malformed}]

Rules == [effect : {"allow", "deny", "other"},
          subjects : SUBSET Subjects, groups : SUBSET Groups,
          capabilities : SUBSET Capabilities, scopes : SUBSET Scopes]

DecisionRequests == [subject : Subjects, groups : SUBSET Groups,
                     capability : Capabilities, scope : Scopes]

ASSUME PolicyAssumption ==
    /\ Absent \notin Values /\ Malformed \notin Values \cup {Absent}
    /\ Policies \subseteq Seq(Rules)
    /\ Requests \subseteq DecisionRequests

VARIABLES
    stage,      \* "load", "decide", "done"
    policy,     \* the parsed policy
    request,    \* the DecisionRequest
    index,      \* the rule the loop of Authorize is at
    allowed,    \* its local variable
    decision    \* what came out

vars == <<stage, policy, request, index, allowed, decision>>

-----------------------------------------------------------------------------
(* Scope.Validate: a cluster, and optionally a namespace.                   *)
ValidScope(scope) ==
    /\ scope.cluster \in Values
    /\ scope.namespace \in Values \cup {Absent}

ValidRule(rule) ==
    /\ rule.effect \in {"allow", "deny"}
    /\ rule.subjects # {} \/ rule.groups # {}
    /\ rule.capabilities # {} /\ rule.capabilities \subseteq Known
    /\ rule.scopes # {} /\ \A scope \in rule.scopes : ValidScope(scope)

ValidRequest(req) == req.capability \in Known /\ ValidScope(req.scope)

ValidPolicy(rules) == \A i \in DOMAIN rules : ValidRule(rules[i])

SelectorMatches(rule, req) ==
    \/ req.subject \in rule.subjects
    \/ rule.groups \cap req.groups # {}

(* Fault: a grant for the cluster reaches into its namespaces.              *)
ScopeMatchesInherited(grant, requested) ==
    /\ grant.cluster \in {Any, requested.cluster}
    /\ grant.namespace \in {Absent, Any, requested.namespace}

(* A request without a namespace is matched by a grant without one, any
   other by "*" or by its own namespace.                                    *)
ScopeMatches(grant, requested) ==
    /\ grant.cluster \in {Any, requested.cluster}
    /\ IF requested.namespace = Absent
       THEN grant.namespace = Absent
       ELSE grant.namespace \in {Any, requested.namespace}

Applies(rule, req) ==
    /\ SelectorMatches(rule, req)
    /\ req.capability \in rule.capabilities
    /\ \E grant \in rule.scopes : ScopeMatches(grant, req.scope)

-----------------------------------------------------------------------------
Init ==
    /\ stage = "load"
    /\ policy \in Policies
    /\ request \in Requests
    /\ index = 1
    /\ allowed = FALSE
    /\ decision = "none"

(* Fault: the rules of a loaded policy are not validated.                   *)
LoadUnchecked ==
    /\ stage = "load"
    /\ stage' = "decide"
    /\ UNCHANGED <<policy, request, index, allowed, decision>>

(* NewPolicyAuthorizer: one bad rule refuses the whole policy.              *)
Load ==
    /\ stage = "load"
    /\ stage' = IF ValidPolicy(policy) THEN "decide" ELSE "done"
    /\ decision' = IF ValidPolicy(policy) THEN "none" ELSE "refused"
    /\ UNCHANGED <<policy, request, index, allowed>>

(* Authorize validates the request before it looks at any rule.             *)
RefuseRequest ==
    /\ stage = "decide" /\ index = 1
    /\ ~ValidRequest(request)
    /\ stage' = "done"
    /\ decision' = "error"
    /\ UNCHANGED <<policy, request, index, allowed>>

Walking ==
    /\ stage = "decide"
    /\ ValidRequest(request)
    /\ index <= Len(policy)

SkipRule ==
    /\ Walking
    /\ ~Applies(policy[index], request)
    /\ index' = index + 1
    /\ UNCHANGED <<stage, policy, request, allowed, decision>>

(* Fault: the first rule that applies decides.                              *)
TakeAllowAtOnce ==
    /\ Walking
    /\ Applies(policy[index], request)
    /\ policy[index].effect = "allow"
    /\ stage' = "done"
    /\ decision' = "allow"
    /\ UNCHANGED <<policy, request, index, allowed>>

TakeAllow ==
    /\ Walking
    /\ Applies(policy[index], request)
    /\ policy[index].effect = "allow"
    /\ allowed' = TRUE
    /\ index' = index + 1
    /\ UNCHANGED <<stage, policy, request, decision>>

TakeDeny ==
    /\ Walking
    /\ Applies(policy[index], request)
    /\ policy[index].effect = "deny"
    /\ stage' = "done"
    /\ decision' = "deny"
    /\ UNCHANGED <<policy, request, index, allowed>>

(* After the last rule; without any that applied the answer is no.          *)
Conclude ==
    /\ stage = "decide"
    /\ ValidRequest(request)
    /\ index > Len(policy)
    /\ stage' = "done"
    /\ decision' = IF allowed THEN "allow" ELSE "deny"
    /\ UNCHANGED <<policy, request, index, allowed>>

Next ==
    \/ Load \/ RefuseRequest
    \/ SkipRule \/ TakeAllow \/ TakeDeny
    \/ Conclude

Spec == Init /\ [][Next]_vars

-----------------------------------------------------------------------------
(* Every variable keeps its type; a walk is only ever under way through a
   policy that passed validation (NewPolicyAuthorizer).                     *)
TypeOK ==
    /\ stage \in {"load", "decide", "done"}
    /\ policy \in Seq(Rules)
    /\ request \in DecisionRequests
    /\ index \in 1 .. Len(policy) + 1
    /\ allowed \in BOOLEAN
    /\ decision \in {"none", "refused", "error", "allow", "deny"}
    /\ stage = "decide" => ValidPolicy(policy)

(* What a policy means, without loops or order: the scopes a grant extends
   to, the requests a rule speaks about, and the requests that some allow
   rule and no deny rule speaks about.                                      *)
Extent(grant) ==
    [cluster : IF grant.cluster = Any THEN Values ELSE {grant.cluster},
     namespace : CASE grant.namespace = Absent -> {Absent}
                   [] grant.namespace = Any -> Values
                   [] OTHER -> {grant.namespace}]

SpeaksAbout(rule, req) ==
    /\ req.subject \in rule.subjects \/ \E g \in req.groups : g \in rule.groups
    /\ req.capability \in rule.capabilities
    /\ req.scope \in UNION {Extent(grant) : grant \in rule.scopes}

Says(effect) ==
    \E i \in DOMAIN policy :
        policy[i].effect = effect /\ SpeaksAbout(policy[i], request)

Permitted == Says("allow") /\ ~Says("deny")

(* Whatever the order of the rules, the walk with its early exit answers
   what the policy means: deny takes precedence over allow, nothing that
   applies means deny, "*" is the only wildcard, and a grant without a
   namespace authorises no namespaced request (phase-1.4.2-authorization). A
   policy with a bad rule and a bad request are never answered with allow.   *)
DecidesByMeaning ==
    /\ decision = "allow" =>
          ValidPolicy(policy) /\ ValidRequest(request) /\ Permitted
    /\ decision = "deny" => ValidPolicy(policy) /\ ~Permitted
=============================================================================
