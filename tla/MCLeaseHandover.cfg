\* Any signal and blocks longer than the lease: what holds all the same.
SPECIFICATION Spec
CONSTANTS
    install = install
    uninstall = uninstall
    None = None
    Ops <- MCOps
    Skew <- MCSkew
    Duration = 2
    RenewInterval = 1
    RenewLag = 1
    BlockMax = 2
    Signals = {"TERM", "KILL"}
    MaxTime = 3
    MaxRv = 4
    MaxStrays = 1
INVARIANTS
    ReleasedForGood
PROPERTIES
    ChangesHandsOnce
\* Operations end, and time is bounded.
CHECK_DEADLOCK FALSE
