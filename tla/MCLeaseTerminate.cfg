\* Short blocks, but a shell may get SIGTERM.
SPECIFICATION Spec
CONSTANTS
    install = install
    uninstall = uninstall
    None = None
    Ops <- MCOps
    Skew <- MCNoSkew
    Duration = 4
    RenewInterval = 1
    RenewLag = 1
    BlockMax = 1
    Signals = {"TERM"}
    MaxTime = 4
    MaxRv = 3
    MaxStrays = 0
INVARIANT
    Exclusive
\* Operations end, and time is bounded.
CHECK_DEADLOCK FALSE
