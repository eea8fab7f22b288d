\* Three events, a scan of two and a budget of one, clocks half a second
\* apart.  Two full findings fit a page, three may not; a character has two
\* bytes.
SPECIFICATION Spec
CONSTANTS
    Names <- MCNames
    Windows <- MCWindows
    MaxWindow = 4
    MaxSignals = 1
    CandidateCap = 2
    Skew = 1
    MaxClock = 3
    None = None
    MaxProblemBytes = 3
    MaxDetailsBytes = 4
    MaxPageDiagnosticBytes = 15
    MarkerBytes = 2
    RuneBytes = 2
    MaxLimit = 3
    Lengths <- MCLengths
INVARIANTS
    TypeOK
    BestOfWindow
    GoodEventsServed
    PublishedFits
    SmallPagesPass
\* One request.
CHECK_DEADLOCK FALSE
