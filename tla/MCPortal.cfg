\* Two lists, a finding and a bad hash; three overlapping runs.
SPECIFICATION PortalSpec
CONSTANTS
    all = all
    dev = dev
    pod = pod
    bad = bad
    Empty = Empty
    Default = all
    Lists <- MCLists
    Details <- MCDetails
    Broken <- MCBroken
    MaxGeneration = 3
    MaxMoves = 1
INVARIANT
    PortalTypeOK
PROPERTIES
    ScreenMovesOn
    SettlesOnHash
\* The user stops.
CHECK_DEADLOCK FALSE
