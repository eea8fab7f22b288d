\* Does the lock cover everything the two scripts do?
SPECIFICATION Spec
CONSTANTS
    install = install
    uninstall = uninstall
    None = None
    Installs <- MCInstalls
    Uninstalls <- MCUninstalls
    Clusters <- MCClusters
    Purges <- MCPurges
    Contested <- MCContested
INVARIANT
    ConcurrencyRefused
\* Scripts end.
CHECK_DEADLOCK FALSE
