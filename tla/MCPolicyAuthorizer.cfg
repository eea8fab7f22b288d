\* All policies of two rules of a small set, and longer ones of fewer rules.
SPECIFICATION Spec
CONSTANTS
    alice = alice
    bob = bob
    team = team
    list = list
    read = read
    bogus = bogus
    local = local
    dev = dev
    Any = Any
    Absent = Absent
    Malformed = Malformed
    Subjects <- MCSubjects
    Groups <- MCGroups
    Capabilities <- MCCapabilities
    Known <- MCKnown
    Names <- MCNames
    Policies <- MCPolicies
    Requests <- MCRequests
INVARIANTS
    TypeOK
    DecidesByMeaning
\* A request is decided.
CHECK_DEADLOCK FALSE
