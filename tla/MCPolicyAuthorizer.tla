------------------------- MODULE MCPolicyAuthorizer -------------------------
(* Model checking instance of PolicyAuthorizer.                             *)
EXTENDS PolicyAuthorizer, FiniteSets

CONSTANTS alice, bob, team, list, read, bogus, local, dev

MCSubjects == {alice, bob}
MCGroups == {team}
MCCapabilities == {list, read, bogus}
MCKnown == {list, read}
MCNames == {local, dev}

Scope(c, n) == [cluster |-> c, namespace |-> n]

MCRules ==
    [effect : {"allow", "deny"}, subjects : {{alice}, {}}, groups : {{team}, {}},
     capabilities : {{list}, {list, read}},
     scopes : {{Scope(local, Absent)}, {Scope(Any, Any)}, {Scope(local, dev)},
               {Scope(Any, Absent), Scope(local, Any)}, {Scope(local, Malformed)}}]
    \cup {[effect |-> "other", subjects |-> {alice}, groups |-> {},
           capabilities |-> {list}, scopes |-> {Scope(Any, Any)}],
          [effect |-> "allow", subjects |-> {alice}, groups |-> {},
           capabilities |-> {list, bogus}, scopes |-> {Scope(Any, Any)}]}

(* The rules that speak about alice's lists, for the longer policies.       *)
MCFewRules == {r \in MCRules : r.subjects = {alice} /\ r.groups = {}
                                 /\ r.capabilities = {list} /\ r.effect # "other"}

MCPolicies ==
    {<<>>} \cup {<<r, s>> : r, s \in MCRules}
    \cup {<<r, s, t>> : r, s, t \in MCFewRules}

MCRequests ==
    [subject : {alice, bob}, groups : {{}, {team}}, capability : {list, bogus},
     scope : {Scope(local, Absent), Scope(local, dev), Scope(Any, Absent),
              Scope(dev, local), Scope(local, Any), Scope(Absent, Absent)}]
=============================================================================
