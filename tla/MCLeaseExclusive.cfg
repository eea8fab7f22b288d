\* Two operations, one clock ahead, blocks that fit into the lease, kills.
SPECIFICATION Spec
CONSTANTS
    install = install
    uninstall = uninstall
    None = None
    Ops <- MCOps
    Skew <- MCSkew
    Duration = 4
    RenewInterval = 1
    RenewLag = 1
    BlockMax = 1
    Signals = {"KILL"}
    MaxTime = 6
    MaxRv = 3
    MaxStrays = 1
INVARIANTS
    TypeOK
    Exclusive
PROPERTY
    ImplementsFencedLock
\* Operations end, and time is bounded.
CHECK_DEADLOCK FALSE
