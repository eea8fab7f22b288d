\* Units of 5 s: a shutdown of 10 s, a grace period of 15 s.
SPECIFICATION Spec
CONSTANTS
    r1 = r1
    r2 = r2
    Requests <- MCRequests
    Watched = r1
    ShutdownTimeout = 2
    Grace = 3
    MaxIDLength = 1
    GeneratedIDLength = 1
    MaxSubjectLength = 2
    MaxProviderLength = 1
    MaxScopeLength = 1
    EventIDLength = 1
    EventPrincipalLength = 2
    EventProviderLength = 1
    EventScopeLength = 1
    EventLatency = 2
    Lengths <- MCLengths
    Latencies <- MCLatencies
INVARIANTS
    TypeOK
    ProductionGuarded
    NeverInvalid
    CleanExit
PROPERTY
    StopsInTime
\* The process ends.
CHECK_DEADLOCK FALSE
